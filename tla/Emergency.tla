------------------------------ MODULE Emergency ------------------------------
(***************************************************************************)
(* SOS alerts of a user: emergency.service. A tap looks for its alert,     *)
(* mails the contacts that have an address, and then inserts the alert.    *)
(* Nothing holds the alert between the look and the insert, and the        *)
(* contacts can be replaced, the alert cancelled and the tap repeated at   *)
(* any time. Where the user is and what the mail says is left out.         *)
(***************************************************************************)
EXTENDS Naturals, FiniteSets

CONSTANTS
    Alerts,         \* ids made up by the client; a repeated tap has the same
    Contacts,       \* people who can be a contact with an address
    Taps,           \* requests that trigger an alert
    NoAlert

ASSUME EmergencyAssumption ==
    /\ IsFiniteSet(Contacts)
    /\ NoAlert \notin Alerts

VARIABLES
    brevo,          \* whether the mail service has a key
    contacts,       \* the user's contacts
    alert,          \* alert -> its status and its count; NONE before it is inserted
    tap,            \* tap -> its step and what it holds
    cancelling,     \* the alert that a cancellation has found active
    mails,          \* history: alert -> contact -> mails about it, up to 2
    excused         \* history: alerts with overlapping taps, or a tap that ended
                    \* between its mails and its insert

vars == <<brevo, contacts, alert, tap, cancelling, mails, excused>>

NoRow == [status |-> "NONE", notified |-> 0]
Resting == [step |-> "idle", alert |-> NoAlert, told |-> {}]

Recorded(a) == alert[a] # NoRow
TapAt(c, step) == tap[c].step = step

Init ==
    /\ brevo \in BOOLEAN
    /\ contacts \in SUBSET Contacts
    /\ alert = [a \in Alerts |-> NoRow]
    /\ tap = [c \in Taps |-> Resting]
    /\ cancelling = NoAlert
    /\ mails = [a \in Alerts |-> [p \in Contacts |-> 0]]
    /\ excused = {}

-----------------------------------------------------------------------------
\* The tap is past its look for the alert.
Holds(c, a) == tap[c].step # "idle" /\ tap[c].alert = a

\* fault: the alert is not looked for
TriggerAgain(c, a) ==
    /\ TapAt(c, "idle")
    /\ tap' = [tap EXCEPT ![c] = [step |-> "checked", alert |-> a, told |-> {}]]
    /\ excused' = IF \E d \in Taps : Holds(d, a) THEN excused \cup {a} ELSE excused
    /\ UNCHANGED <<brevo, contacts, alert, cancelling, mails>>

\* An alert that is there is answered with, and nobody is mailed.
TriggerSos(c, a) ==
    /\ TapAt(c, "idle")
    /\ ~Recorded(a)
    /\ tap' = [tap EXCEPT ![c] = [step |-> "checked", alert |-> a, told |-> {}]]
    /\ excused' = IF \E d \in Taps : Holds(d, a) THEN excused \cup {a} ELSE excused
    /\ UNCHANGED <<brevo, contacts, alert, cancelling, mails>>

\* The user or the contacts cannot be loaded: nobody is mailed.
NotifyNobody(c) ==
    /\ TapAt(c, "checked")
    /\ tap' = [tap EXCEPT ![c].step = "mailed"]
    /\ UNCHANGED <<brevo, contacts, alert, cancelling, mails, excused>>

LoadContacts(c) ==
    /\ TapAt(c, "checked")
    /\ tap' = [tap EXCEPT ![c] = [@ EXCEPT !.step = "loaded", !.told = contacts]]
    /\ UNCHANGED <<brevo, contacts, alert, cancelling, mails, excused>>

Twice(n) == IF n < 2 THEN n + 1 ELSE n     \* once, or more than once

\* A mail may fail, also after it was delivered. Without a key none is sent, and
\* each counts as sent.
NotifyContacts(c) ==
    /\ TapAt(c, "loaded")
    /\ \E delivered \in SUBSET tap[c].told, told \in SUBSET tap[c].told :
          /\ IF brevo THEN told \subseteq delivered
             ELSE delivered = {} /\ told = tap[c].told
          /\ mails' = [mails EXCEPT ![tap[c].alert] =
                [p \in Contacts |-> IF p \in delivered THEN Twice(@[p]) ELSE @[p]]]
          /\ tap' = [tap EXCEPT ![c] = [@ EXCEPT !.step = "mailed", !.told = told]]
    /\ UNCHANGED <<brevo, contacts, alert, cancelling, excused>>

\* The unique index on the alert's id refuses the slower of two.
SaveAlert(c) ==
    LET a == tap[c].alert IN
    /\ TapAt(c, "mailed")
    /\ alert' = IF Recorded(a) THEN alert
                ELSE [alert EXCEPT ![a] =
                        [status |-> "ACTIVE", notified |-> Cardinality(tap[c].told)]]
    /\ tap' = [tap EXCEPT ![c] = Resting]
    /\ UNCHANGED <<brevo, contacts, cancelling, mails, excused>>

\* A statement fails, or the client is gone and the service with it.
TapEnds(c) ==
    /\ ~TapAt(c, "idle")
    /\ tap' = [tap EXCEPT ![c] = Resting]
    /\ excused' = IF TapAt(c, "mailed") THEN excused \cup {tap[c].alert} ELSE excused
    /\ UNCHANGED <<brevo, contacts, alert, cancelling, mails>>

CancelLoad(a) ==
    /\ cancelling = NoAlert
    /\ alert[a].status = "ACTIVE"
    /\ cancelling' = a
    /\ UNCHANGED <<brevo, contacts, alert, tap, mails, excused>>

CancelSave ==
    /\ cancelling # NoAlert
    /\ alert' = [alert EXCEPT ![cancelling].status = "CANCELLED"]
    /\ cancelling' = NoAlert
    /\ UNCHANGED <<brevo, contacts, tap, mails, excused>>

ReplaceContacts ==
    /\ contacts' \in SUBSET Contacts
    /\ UNCHANGED <<brevo, alert, tap, cancelling, mails, excused>>

-----------------------------------------------------------------------------
Tap(c) ==
    \/ \E a \in Alerts : TriggerSos(c, a)
    \/ NotifyNobody(c) \/ LoadContacts(c) \/ NotifyContacts(c) \/ SaveAlert(c)
    \/ TapEnds(c)

Next ==
    \/ \E c \in Taps : Tap(c)
    \/ \E a \in Alerts : CancelLoad(a)
    \/ CancelSave
    \/ ReplaceContacts

Spec == Init /\ [][Next]_vars

-----------------------------------------------------------------------------
EmergencyTypeOK ==
    /\ brevo \in BOOLEAN
    /\ contacts \subseteq Contacts
    /\ alert \in [Alerts -> [status : {"NONE", "ACTIVE", "CANCELLED"}, notified : Nat]]
    /\ tap \in [Taps -> [step : {"idle", "checked", "loaded", "mailed"},
                         alert : Alerts \cup {NoAlert}, told : SUBSET Contacts]]
    /\ \A c \in Taps : ~TapAt(c, "idle") => tap[c].alert \in Alerts
    /\ cancelling \in Alerts \cup {NoAlert}
    /\ mails \in [Alerts -> [Contacts -> 0..2]]
    /\ excused \subseteq Alerts

Mailed(a) == {p \in Contacts : mails[a][p] > 0}

\* Nobody is mailed twice about an alert, and nobody about one that is not
\* recorded in the end, unless taps overlapped or one ended between its mails
\* and its insert; and with a key an alert never counts more contacts than were
\* mailed (triggerSos(), notifyContacts(), the unique index on alert_id).
SosSentOnce ==
    \A a \in Alerts :
        /\ a \notin excused => \A p \in Contacts : mails[a][p] <= 1
        /\ a \notin excused /\ Mailed(a) # {} =>
              Recorded(a) \/ \E c \in Taps : Holds(c, a) /\ TapAt(c, "mailed")
        /\ brevo => alert[a].notified <= Cardinality(Mailed(a))

\* Why: the tap that alone holds the alert has found nothing of it.
TapsFollow ==
    /\ \A a \in Alerts \ excused :
          /\ \A c, d \in Taps : Holds(c, a) /\ Holds(d, a) => c = d
          /\ \A c \in Taps : Holds(c, a) =>
                /\ ~Recorded(a)
                /\ ~TapAt(c, "mailed") => Mailed(a) = {}
    /\ \A c \in Taps :
          /\ TapAt(c, "checked") => tap[c].told = {}
          /\ brevo /\ TapAt(c, "mailed") => tap[c].told \subseteq Mailed(tap[c].alert)
    /\ cancelling # NoAlert => Recorded(cancelling)
=============================================================================

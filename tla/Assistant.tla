------------------------------ MODULE Assistant ------------------------------
(***************************************************************************)
(* Conversations with the campus assistant: assistant.service. A turn      *)
(* finds or opens its session, reads the history, looks for places that    *)
(* match the question, saves the question, asks the model and saves the    *)
(* answer with the actions that survive the grounding. It is no            *)
(* transaction, and turns of one session may overlap; meanwhile vendors    *)
(* give and withdraw their consent to be contacted, and the owner may      *)
(* remove the session.                                                     *)
(*                                                                         *)
(* The model answers with any actions on any place. Of the actions there   *)
(* is opening a place, which stands for all that need a place the turn has *)
(* found, and contacting one. What is said is left out, and the time that  *)
(* sessions are sorted by.                                                 *)
(***************************************************************************)
EXTENDS Sequences, Integers

CONSTANTS
    Sessions,
    Places,         \* food joints with a number
    Turns,          \* requests being served
    Questions,      \* bound on the questions asked
    History,        \* messages replayed to the model
    Member,         \* a signed-in user
    Guest,
    Nobody

ASSUME AssistantAssumption ==
    /\ History \in Nat
    /\ Nobody \notin Sessions \cup Questions \cup {Member, Guest}

VARIABLES
    owner,          \* session -> who opened it; Nobody while there is none
    removed,        \* sessions that were removed
    messages,       \* session -> its messages, oldest first
    consent,        \* places whose vendor agrees to be contacted
    turn,           \* turn -> its step and what it holds
    asked,          \* questions asked so far
    overlapped,     \* history: sessions with two turns at once
    failed          \* history: questions whose turn ended before its answer

vars == <<owner, removed, messages, consent, turn, asked, overlapped, failed>>

Waiting ==
    [step |-> "idle", session |-> Nobody, question |-> Nobody, history |-> <<>>,
     found |-> {}, callable |-> {}, agreed |-> {}, actions |-> {}]

TurnAt(c, step) == turn[c].step = step
Open(s) == owner[s] # Nobody /\ s \notin removed

Actions == [type : {"OPEN", "CONTACT"}, place : Places]
Asking(q) == [role |-> "USER", question |-> q, actions |-> {}, agreed |-> {}]
Answering(c) ==
    [role |-> "ASSISTANT", question |-> turn[c].question,
     actions |-> turn[c].actions, agreed |-> turn[c].agreed]

Init ==
    /\ owner = [s \in Sessions |-> Nobody]
    /\ removed = {}
    /\ messages = [s \in Sessions |-> <<>>]
    /\ consent \in SUBSET Places
    /\ turn = [c \in Turns |-> Waiting]
    /\ asked = {}
    /\ overlapped = {}
    /\ failed = {}

-----------------------------------------------------------------------------
(* Sessions.                                                               *)

Busy(s) == \E d \in Turns : turn[d].session = s

Begin(c, s) ==
    /\ TurnAt(c, "idle")
    /\ \E q \in Questions \ asked :
          /\ asked' = asked \cup {q}
          /\ turn' = [turn EXCEPT ![c] =
                [Waiting EXCEPT !.step = "resolved", !.session = s, !.question = q]]
    /\ overlapped' = IF Busy(s) THEN overlapped \cup {s} ELSE overlapped
    /\ UNCHANGED <<removed, messages, consent, failed>>

CreateSession(c, s, user) ==
    /\ owner[s] = Nobody
    /\ Begin(c, s)
    /\ owner' = [owner EXCEPT ![s] = user]

\* A session is continued by its owner, a guest's by a guest.
ResolveSession(c, s, user) ==
    /\ Open(s)
    /\ owner[s] = user
    /\ Begin(c, s)
    /\ UNCHANGED owner

\* Messages go with their session. A guest's stays.
RemoveSession(s) ==
    /\ Open(s)
    /\ owner[s] = Member
    /\ removed' = removed \cup {s}
    /\ messages' = [messages EXCEPT ![s] = <<>>]
    /\ UNCHANGED <<owner, consent, turn, asked, overlapped, failed>>

-----------------------------------------------------------------------------
(* A turn.                                                                 *)

Last(s) == SubSeq(s, IF Len(s) > History THEN Len(s) - History + 1 ELSE 1, Len(s))

HistoryFor(c) ==
    /\ TurnAt(c, "resolved")
    /\ turn' = [turn EXCEPT ![c] =
          [@ EXCEPT !.step = "read", !.history = Last(messages[turn[c].session])]]
    /\ UNCHANGED <<owner, removed, messages, consent, asked, overlapped, failed>>

\* Any places may match, and none. The vendors' consent is as it is now.
Retrieve(c) ==
    /\ TurnAt(c, "read")
    /\ \E found \in SUBSET Places :
          turn' = [turn EXCEPT ![c] =
            [@ EXCEPT !.step = "retrieved", !.found = found,
                      !.callable = found \cap consent, !.agreed = consent]]
    /\ UNCHANGED <<owner, removed, messages, consent, asked, overlapped, failed>>

\* A message is refused when its session is gone, and the turn ends.
Add(c, message, step) ==
    LET s == turn[c].session IN
    IF s \in removed
    THEN /\ turn' = [turn EXCEPT ![c] = Waiting]
         /\ failed' = failed \cup {turn[c].question}
         /\ UNCHANGED <<owner, removed, messages, consent, asked, overlapped>>
    ELSE /\ messages' = [messages EXCEPT ![s] = Append(@, message)]
         /\ turn' = [turn EXCEPT ![c] = IF step = "idle" THEN Waiting
                                        ELSE [@ EXCEPT !.step = step]]
         /\ UNCHANGED <<owner, removed, consent, asked, overlapped, failed>>

AddQuestion(c) ==
    /\ TurnAt(c, "retrieved")
    /\ Add(c, Asking(turn[c].question), IF turn[c].found = {} THEN "answering" ELSE "asking")

\* fault: a joint is contacted whatever its vendor says
GroundPlace(raw, c) == raw.place \in turn[c].found

\* An action survives on a place that the turn has found, and contacting one
\* when its vendor had agreed.
Grounded(raw, c) ==
    raw.place \in IF raw.type = "CONTACT" THEN turn[c].callable ELSE turn[c].found

\* The model is asked once, and may fail.
Ask(c) ==
    /\ TurnAt(c, "asking")
    /\ \E raw \in SUBSET Actions :
          turn' = [turn EXCEPT ![c] =
            [@ EXCEPT !.step = "answering", !.actions = {a \in raw : Grounded(a, c)}]]
    /\ UNCHANGED <<owner, removed, messages, consent, asked, overlapped, failed>>

\* Nothing found is answered with a fixed text and no action. The session is
\* touched at last, which changes nothing else.
AddAnswer(c) ==
    /\ TurnAt(c, "answering")
    /\ Add(c, Answering(c), "idle")

\* The model fails, a statement does, or the service stops.
TurnEnds(c) ==
    /\ ~TurnAt(c, "idle")
    /\ turn' = [turn EXCEPT ![c] = Waiting]
    /\ failed' = failed \cup {turn[c].question}
    /\ UNCHANGED <<owner, removed, messages, consent, asked, overlapped>>

-----------------------------------------------------------------------------
\* A turn remembers who has agreed at some time since it looked for places.
UpdateConsent(p) ==
    /\ consent' = IF p \in consent THEN consent \ {p} ELSE consent \cup {p}
    /\ turn' = [c \in Turns |-> IF turn[c].step \in {"retrieved", "asking", "answering"}
                                THEN [turn[c] EXCEPT !.agreed = @ \cup consent']
                                ELSE turn[c]]
    /\ UNCHANGED <<owner, removed, messages, asked, overlapped, failed>>

Turn(c) ==
    \/ \E s \in Sessions, user \in {Member, Guest} :
          CreateSession(c, s, user) \/ ResolveSession(c, s, user)
    \/ HistoryFor(c) \/ Retrieve(c) \/ AddQuestion(c) \/ Ask(c) \/ AddAnswer(c)
    \/ TurnEnds(c)

Next ==
    \/ \E c \in Turns : Turn(c)
    \/ \E s \in Sessions : RemoveSession(s)
    \/ \E p \in Places : UpdateConsent(p)

Spec == Init /\ [][Next]_vars

-----------------------------------------------------------------------------
Messages ==
    [role : {"USER", "ASSISTANT"}, question : Questions,
     actions : SUBSET Actions, agreed : SUBSET Places]

Before == {"resolved", "read", "retrieved"}     \* the question is saved
After == {"asking", "answering"}
Served ==
    [step : Before \cup After, session : Sessions, question : Questions,
     history : Seq(Messages), found : SUBSET Places, callable : SUBSET Places,
     agreed : SUBSET Places, actions : SUBSET Actions]

\* Type invariant.
AssistantTypeOK ==
    /\ owner \in [Sessions -> {Member, Guest, Nobody}]
    /\ removed \subseteq Sessions
    /\ messages \in [Sessions -> Seq(Messages)]
    /\ consent \subseteq Places
    /\ turn \in [Turns -> {Waiting} \cup Served]
    /\ asked \subseteq Questions
    /\ overlapped \subseteq Sessions
    /\ failed \subseteq Questions

\* The messages of a session come in pairs of question and answer, but for
\* questions whose turn has failed, unless two turns overlapped; and even then an
\* answer follows its question, and there is one of each (runTurn()).
AnswersFollow ==
    \A s \in Sessions : \A j \in DOMAIN messages[s] :
        LET m == messages[s][j]
            of(i) == messages[s][i].question = m.question
        IN
        /\ \A i \in DOMAIN messages[s] : of(i) /\ messages[s][i].role = m.role => i = j
        /\ m.role = "ASSISTANT" =>
              \E i \in 1..(j - 1) : of(i) /\ (s \notin overlapped => i = j - 1)
        /\ m.role = "USER" /\ s \notin overlapped =>
              m.question \in failed \/ j = Len(messages[s]) \/ of(j + 1)

\* The model is shown what was said before the question and never the question
\* itself; all of the end of it, unless two turns overlapped (historyFor()).
HistoryIsPast ==
    \A c \in Turns : TurnAt(c, "asking") =>
        LET s == turn[c].session
            shown == turn[c].history
        IN
        /\ \A i \in DOMAIN shown : shown[i].question # turn[c].question
        /\ s \notin overlapped \cup removed =>
              shown = Last(SubSeq(messages[s], 1, Len(messages[s]) - 1))

\* An answer offers to contact a joint only if its vendor agreed to it at some
\* time between the search and the answer (toCandidateFoodJoint(), parseAction()).
ContactsAgreed ==
    \A s \in Sessions : \A j \in DOMAIN messages[s] : \A a \in messages[s][j].actions :
        a.type = "CONTACT" => a.place \in messages[s][j].agreed

RemovedIsGone == \A s \in removed : messages[s] = <<>>

\* Why: what a turn holds agrees with the messages of its session.
InSession(t, s) == t.session = s /\ t.step \in After

TurnFits(t) ==
    LET s == t.session
        m == messages[s]
        alone == s \notin overlapped \cup removed
    IN
    /\ t.step # "idle" => owner[s] # Nobody /\ t.question \in asked
    /\ t.step \in Before => \A i \in DOMAIN m : m[i].question # t.question
    /\ t.step \in After =>
          /\ \A i \in DOMAIN m : m[i].question = t.question => m[i].role = "USER"
          /\ s \notin removed => \E i \in DOMAIN m : m[i].question = t.question
          /\ alone => m[Len(m)].question = t.question
                    /\ t.history = Last(SubSeq(m, 1, Len(m) - 1))
    /\ t.step \in {"read", "retrieved"} /\ alone => t.history = Last(m)
    /\ t.step \in {"read", "retrieved"} \cup After =>
          \A i \in DOMAIN t.history : t.history[i].question # t.question
    /\ t.callable \subseteq t.agreed
    /\ t.step \in Before => t.actions = {}
    /\ \A a \in t.actions : a.type = "CONTACT" => a.place \in t.agreed

\* Why: no two turns have one question, nor one session that nobody else noticed,
\* and a question that waits at the end of a session has a turn.
TurnsFollow ==
    /\ \A c \in Turns : \A t \in {turn[c]} : TurnFits(t)
    /\ \A c, d \in Turns :
          c # d /\ ~TurnAt(c, "idle") =>
             /\ turn[c].question # turn[d].question
             /\ turn[c].session = turn[d].session => turn[c].session \in overlapped
    /\ \A s \in Sessions : owner[s] = Nobody => s \notin removed
    /\ \A s \in Sessions : \A j \in DOMAIN messages[s] :
          LET m == messages[s][j] IN
          /\ owner[s] # Nobody /\ m.question \in asked
          /\ m.role = "USER" /\ j = Len(messages[s]) /\ s \notin overlapped =>
                \/ m.question \in failed
                \/ \E c \in Turns : InSession(turn[c], s) /\ turn[c].question = m.question

\* Questions, answers and what the model is shown and may offer fit together,
\* through overlapping turns, failures and removals.
ConversationsCohere == AnswersFollow /\ HistoryIsPast /\ ContactsAgreed /\ RemovedIsGone
=============================================================================

--------------------------- MODULE AssistantProofs ---------------------------
(***************************************************************************)
(* Theorems about Assistant, for any sessions, turns, questions and length *)
(* of the history.                                                         *)
(***************************************************************************)
EXTENDS Assistant, SequenceTheorems, TLAPS

AssistantInv ==
    AssistantTypeOK /\ TurnsFollow /\ AnswersFollow /\ ContactsAgreed /\ RemovedIsGone

-----------------------------------------------------------------------------
(* Sequences of messages.                                                  *)

\* What a message at the end of a conversation leaves of it.
LEMMA Appended ==
    ASSUME NEW m \in Seq(Messages), NEW x \in Messages
    PROVE  /\ Append(m, x) \in Seq(Messages)
           /\ Len(m) \in Nat /\ Len(Append(m, x)) = Len(m) + 1
           /\ DOMAIN m = 1..Len(m) /\ DOMAIN Append(m, x) = 1..(Len(m) + 1)
           /\ \A i \in DOMAIN m : Append(m, x)[i] = m[i]
           /\ Append(m, x)[Len(m) + 1] = x
<1>1. /\ Append(m, x) \in Seq(Messages) /\ Len(Append(m, x)) = Len(m) + 1
      /\ \A i \in 1..Len(m) : Append(m, x)[i] = m[i]
      /\ Append(m, x)[Len(m) + 1] = x
  BY AppendProperties
<1>2. Len(m) \in Nat /\ DOMAIN m = 1..Len(m)
  BY LenProperties
<1>3. DOMAIN Append(m, x) = 1..(Len(m) + 1)
  BY <1>1, LenProperties
<1> QED
  BY <1>1, <1>2, <1>3

\* What was there before the last message.
LEMMA FrontOf ==
    ASSUME NEW m \in Seq(Messages), NEW x \in Messages
    PROVE  SubSeq(Append(m, x), 1, Len(Append(m, x)) - 1) = m
<1> DEFINE a == Append(m, x)
<1> DEFINE f == SubSeq(a, 1, Len(m))
<1>1. Len(m) \in Nat /\ Len(a) = Len(m) + 1 /\ m \in [1..Len(m) -> Messages]
      /\ \A i \in 1..Len(m) : a[i] = m[i]
  BY Appended, LenProperties
<1>2. \A i \in 1..Len(m) : a[i] \in Messages
  BY <1>1
<1> HIDE DEF a
<1>3. /\ f \in Seq(Messages)
      /\ Len(f) = IF 1 <= Len(m) THEN Len(m) - 1 + 1 ELSE 0
      /\ \A i \in 1..(Len(m) - 1 + 1) : f[i] = a[1 + i - 1]
  BY <1>1, <1>2, SubSeqProperties
<1>4. Len(f) = Len(m) /\ \A i \in 1..Len(m) : f[i] = m[i]
  BY <1>1, <1>3
<1>5. f = m
  <2> HIDE DEF f
  <2> QED
    BY <1>3, <1>4, SeqEqual
<1>6. Len(a) - 1 = Len(m)
  BY <1>1
<1> QED
  BY <1>5, <1>6 DEF a

\* The end of a conversation is part of it.
LEMMA LastOf ==
    ASSUME NEW m \in Seq(Messages)
    PROVE  /\ Last(m) \in Seq(Messages)
           /\ \A i \in DOMAIN Last(m) : \E j \in DOMAIN m : Last(m)[i] = m[j]
<1>1. Len(m) \in Nat /\ DOMAIN m = 1..Len(m) /\ m \in [1..Len(m) -> Messages]
  BY LenProperties
<1>2. PICK from \in Nat \ {0} : Last(m) = SubSeq(m, from, Len(m))
  <2> DEFINE first == IF Len(m) > History THEN Len(m) - History + 1 ELSE 1
  <2>1. first \in Nat \ {0}
    BY <1>1, AssistantAssumption
  <2>2. Last(m) = SubSeq(m, first, Len(m))
    BY DEF Last
  <2> HIDE DEF first
  <2> QED
    BY <2>1, <2>2
<1> DEFINE e == SubSeq(m, from, Len(m))
<1>3. \A i \in from..Len(m) : m[i] \in Messages
  BY <1>1
<1>4. /\ e \in Seq(Messages)
      /\ Len(e) = IF from <= Len(m) THEN Len(m) - from + 1 ELSE 0
      /\ \A i \in 1..(Len(m) - from + 1) : e[i] = m[from + i - 1]
  BY <1>1, <1>3, SubSeqProperties
<1> HIDE DEF e
<1>5. DOMAIN e = 1..Len(e)
  BY <1>4, LenProperties
<1>6. ASSUME NEW i \in DOMAIN e PROVE \E j \in DOMAIN m : e[i] = m[j]
  <2>1. i \in 1..(Len(m) - from + 1)
    BY <1>1, <1>4, <1>5
  <2>2. from + i - 1 \in DOMAIN m
    BY <1>1, <2>1
  <2> QED
    BY <1>4, <2>1, <2>2
<1> QED
  BY <1>2, <1>4, <1>6 DEF e

-----------------------------------------------------------------------------
(* Questions and answers.                                                  *)

\* The messages of one session; whether turns of it overlapped, and the questions
\* that failed.
Pairs(m, over, fail) ==
    \A j \in DOMAIN m :
        /\ \A i \in DOMAIN m : m[i].question = m[j].question /\ m[i].role = m[j].role => i = j
        /\ m[j].role = "ASSISTANT" =>
              \E i \in 1..(j - 1) : m[i].question = m[j].question /\ (~over => i = j - 1)
        /\ m[j].role = "USER" /\ ~over =>
              m[j].question \in fail \/ j = Len(m) \/ m[j + 1].question = m[j].question

\* AnswersFollow, one conversation at a time.
LEMMA PairsOfSessions ==
    AnswersFollow <=> \A s \in Sessions : Pairs(messages[s], s \in overlapped, failed)
  BY DEF AnswersFollow, Pairs

\* A question that is new may follow what is answered or has failed.
LEMMA QuestionAdded ==
    ASSUME NEW m \in Seq(Messages), NEW x \in Messages, NEW over \in BOOLEAN, NEW fail,
           Pairs(m, over, fail), x.role = "USER",
           \A i \in DOMAIN m : m[i].question # x.question,
           \A j \in DOMAIN m : j = Len(m) /\ m[j].role = "USER" /\ ~over =>
                m[j].question \in fail
    PROVE  Pairs(Append(m, x), over, fail)
<1> DEFINE a == Append(m, x)
<1> DEFINE n == Len(m)
<1>1. /\ n \in Nat /\ Len(a) = n + 1 /\ DOMAIN m = 1..n /\ DOMAIN a = 1..(n + 1)
      /\ \A i \in 1..n : a[i] = m[i]
      /\ a[n + 1] = x
  BY Appended
<1> HIDE DEF a, n
<1> SUFFICES ASSUME NEW j \in 1..(n + 1)
             PROVE  /\ \A i \in 1..(n + 1) :
                          a[i].question = a[j].question /\ a[i].role = a[j].role => i = j
                    /\ a[j].role = "ASSISTANT" =>
                          \E i \in 1..(j - 1) :
                              a[i].question = a[j].question /\ (~over => i = j - 1)
                    /\ a[j].role = "USER" /\ ~over =>
                          \/ a[j].question \in fail \/ j = n + 1
                          \/ a[j + 1].question = a[j].question
  BY <1>1 DEF Pairs, a
<1>2. CASE j = n + 1
  BY <1>1, <1>2
<1>3. CASE j \in 1..n
  <2>1. \A i \in 1..(n + 1) :
           a[i].question = a[j].question /\ a[i].role = a[j].role => i = j
    BY <1>1, <1>3 DEF Pairs
  <2>2. a[j].role = "ASSISTANT" =>
           \E i \in 1..(j - 1) : a[i].question = a[j].question /\ (~over => i = j - 1)
    BY <1>1, <1>3 DEF Pairs
  <2>3. a[j].role = "USER" /\ ~over =>
           a[j].question \in fail \/ a[j + 1].question = a[j].question
    <3>1. CASE j = n
      BY <1>1, <1>3, <3>1 DEF n
    <3>2. CASE j # n
      <4>1. j + 1 \in 1..n
        BY <1>1, <1>3, <3>2
      <4>2. m[j].role = "USER" /\ ~over =>
               m[j].question \in fail \/ m[j + 1].question = m[j].question
        BY <1>1, <1>3, <3>2 DEF Pairs, n
      <4> QED
        BY <1>1, <1>3, <4>1, <4>2
    <3> QED
      BY <3>1, <3>2
  <2> QED
    BY <2>1, <2>2, <2>3
<1> QED
  BY <1>1, <1>2, <1>3

\* An answer may follow its question, of which there is no other answer.
LEMMA AnswerAdded ==
    ASSUME NEW m \in Seq(Messages), NEW x \in Messages, NEW over \in BOOLEAN, NEW fail,
           Pairs(m, over, fail), x.role = "ASSISTANT",
           \A i \in DOMAIN m : m[i].question = x.question => m[i].role = "USER",
           \E i \in DOMAIN m : m[i].question = x.question,
           ~over => m[Len(m)].question = x.question
    PROVE  Pairs(Append(m, x), over, fail)
<1> DEFINE a == Append(m, x)
<1> DEFINE n == Len(m)
<1>1. /\ n \in Nat /\ Len(a) = n + 1 /\ DOMAIN m = 1..n /\ DOMAIN a = 1..(n + 1)
      /\ \A i \in 1..n : a[i] = m[i]
      /\ a[n + 1] = x
  BY Appended
<1>0. n # 0
  BY <1>1
<1> HIDE DEF a, n
<1> SUFFICES ASSUME NEW j \in 1..(n + 1)
             PROVE  /\ \A i \in 1..(n + 1) :
                          a[i].question = a[j].question /\ a[i].role = a[j].role => i = j
                    /\ a[j].role = "ASSISTANT" =>
                          \E i \in 1..(j - 1) :
                              a[i].question = a[j].question /\ (~over => i = j - 1)
                    /\ a[j].role = "USER" /\ ~over =>
                          \/ a[j].question \in fail \/ j = n + 1
                          \/ a[j + 1].question = a[j].question
  BY <1>1 DEF Pairs, a
<1>2. CASE j = n + 1
  <2>1. PICK i \in 1..n : m[i].question = x.question /\ (~over => i = n)
    <3>1. CASE over
      BY <1>1, <3>1
    <3>2. CASE ~over
      <4>1. n \in 1..n
        BY <1>0, <1>1
      <4>2. m[n].question = x.question
        BY <3>2 DEF n
      <4> QED
        BY <4>1, <4>2
    <3> QED
      BY <3>1, <3>2
  <2>2. i \in 1..(j - 1) /\ a[i].question = a[j].question /\ (~over => i = j - 1)
    BY <1>1, <1>2, <2>1
  <2> QED
    BY <1>1, <1>2, <2>2
<1>3. CASE j \in 1..n
  <2>1. \A i \in 1..(n + 1) :
           a[i].question = a[j].question /\ a[i].role = a[j].role => i = j
    BY <1>1, <1>3 DEF Pairs
  <2>2. a[j].role = "ASSISTANT" =>
           \E i \in 1..(j - 1) : a[i].question = a[j].question /\ (~over => i = j - 1)
    BY <1>1, <1>3 DEF Pairs
  <2>3. a[j].role = "USER" /\ ~over =>
           a[j].question \in fail \/ a[j + 1].question = a[j].question
    <3>1. CASE j = n
      BY <1>1, <1>3, <3>1 DEF n
    <3>2. CASE j # n
      <4>1. j + 1 \in 1..n
        BY <1>1, <1>3, <3>2
      <4>2. m[j].role = "USER" /\ ~over =>
               m[j].question \in fail \/ m[j + 1].question = m[j].question
        BY <1>1, <1>3, <3>2 DEF Pairs, n
      <4> QED
        BY <1>1, <1>3, <4>1, <4>2
    <3> QED
      BY <3>1, <3>2
  <2> QED
    BY <2>1, <2>2, <2>3
<1> QED
  BY <1>1, <1>2, <1>3

\* More overlaps and failures permit no less.
LEMMA MorePermitted ==
    ASSUME NEW m, NEW over \in BOOLEAN, NEW fail, Pairs(m, over, fail),
           NEW more \in BOOLEAN, NEW failing, over => more, fail \subseteq failing
    PROVE  Pairs(m, more, failing)
  BY DEF Pairs

-----------------------------------------------------------------------------
(* Turns.                                                                  *)

\* The invariant holds at the start.
LEMMA InitAssistant == Init => AssistantInv
<1> SUFFICES ASSUME Init PROVE AssistantInv
  OBVIOUS
<1>1. <<>> \in Seq(Messages) /\ Len(<<>>) = 0 /\ DOMAIN <<>> = {}
  BY EmptySeq
<1>2. AssistantTypeOK
  BY <1>1 DEF Init, AssistantTypeOK
<1>3. \A s \in Sessions : DOMAIN messages[s] = {} /\ messages[s] = <<>>
  BY <1>1 DEF Init
<1>4. AnswersFollow /\ ContactsAgreed /\ RemovedIsGone
  BY <1>3 DEF AnswersFollow, ContactsAgreed, RemovedIsGone, Init
<1>5. TurnsFollow
  <2>1. \A c \in Turns : turn[c] = Waiting /\ TurnAt(c, "idle")
    BY DEF Init, Waiting, TurnAt
  <2>2. TurnFits(Waiting)
    BY DEF TurnFits, Waiting, Before, After
  <2>3. \A s \in Sessions : s \notin removed
    BY DEF Init
  <2> QED
    BY <1>3, <2>1, <2>2, <2>3 DEF TurnsFollow
<1> QED
  BY <1>2, <1>4, <1>5 DEF AssistantInv

\* What a turn that is under way holds.
LEMMA TurnFacts ==
    ASSUME AssistantInv, NEW c \in Turns, NEW t, t = turn[c], t.step # "idle"
    PROVE  /\ t \in Served /\ TurnFits(t) /\ t.step \in Before \cup After
           /\ t.session \in Sessions /\ t.question \in Questions
           /\ t.history \in Seq(Messages) /\ t.found \subseteq Places
           /\ t.callable \subseteq Places /\ t.agreed \subseteq Places
           /\ t.actions \subseteq Actions
           /\ messages[t.session] \in Seq(Messages)
<1>1. t \in Served
  BY DEF AssistantInv, AssistantTypeOK, Waiting
<1>2. t.session \in Sessions /\ TurnFits(t)
  BY <1>1 DEF Served, AssistantInv, TurnsFollow
<1> QED
  BY <1>1, <1>2 DEF Served, AssistantInv, AssistantTypeOK

\* A turn that waits is in no session.
LEMMA WaitingFits ==
    /\ TurnFits(Waiting) /\ Waiting.step = "idle"
    /\ \A s : ~InSession(Waiting, s)
  BY DEF TurnFits, Waiting, Before, After, InSession

\* A turn goes on with its session and question, or ends; the messages stay.
LEMMA TurnGoes ==
    ASSUME AssistantInv, NEW c \in Turns, NEW t, t = turn[c], t.step # "idle",
           NEW r \in Served \cup {Waiting}, TurnFits(r), turn' = [turn EXCEPT ![c] = r],
           UNCHANGED <<owner, removed, messages, consent, asked, overlapped>>,
           \/ /\ r.session = t.session /\ r.question = t.question /\ failed' = failed
              /\ t.step \in After => r.step \in After
           \/ r = Waiting /\ failed' = failed \cup {t.question}
    PROVE  AssistantInv'
<1>1. /\ \A d \in Turns : turn'[d] = IF d = c THEN r ELSE turn[d]
      /\ turn' \in [Turns -> {Waiting} \cup Served]
  BY DEF AssistantInv, AssistantTypeOK
<1>2. t.question \in Questions /\ failed \subseteq failed' /\ failed' \subseteq Questions
  BY TurnFacts DEF AssistantInv, AssistantTypeOK
<1>3. AssistantTypeOK'
  BY <1>1, <1>2 DEF AssistantInv, AssistantTypeOK
<1>4. ContactsAgreed' /\ RemovedIsGone'
  BY DEF AssistantInv, ContactsAgreed, RemovedIsGone
<1>5. AnswersFollow'
  <2>1. \A s \in Sessions : Pairs(messages[s], s \in overlapped, failed)
    BY PairsOfSessions DEF AssistantInv
  <2>2. \A s \in Sessions : Pairs(messages[s], s \in overlapped, failed')
    BY <1>2, <2>1 DEF Pairs
  <2> QED
    BY <2>2 DEF AnswersFollow, Pairs
<1>6. TurnsFollow'
  <2>1. \A d \in Turns : \A s \in {turn'[d]} : TurnFits(s)'
    <3>1. \A s : TurnFits(s) => TurnFits(s)'
      BY DEF TurnFits
    <3> QED
      BY <1>1, <3>1 DEF AssistantInv, TurnsFollow
  <2>2. ASSUME NEW d \in Turns, NEW e \in Turns, d # e, turn'[d].step # "idle"
        PROVE  /\ turn'[d].question # turn'[e].question
               /\ turn'[d].session = turn'[e].session => turn'[d].session \in overlapped
    <3>1. \A x, y \in Turns : x # y /\ turn[x].step # "idle" =>
             /\ turn[x].question # turn[y].question
             /\ turn[x].session = turn[y].session => turn[x].session \in overlapped
      BY DEF AssistantInv, TurnsFollow, TurnAt
    <3>2. \A x \in Turns : turn[x].step # "idle" =>
             turn[x].question \in Questions /\ turn[x].session \in Sessions
      BY TurnFacts
    <3>3. Nobody \notin Questions /\ Nobody \notin Sessions
      BY AssistantAssumption
    <3>4. CASE d # c /\ e # c
      BY <1>1, <2>2, <3>1, <3>4
    <3>5. CASE d = c
      BY <1>1, <2>2, <3>1, <3>5, WaitingFits
    <3>6. CASE e = c
      <4>1. turn'[d] = turn[d] /\ turn'[e] = r
        BY <1>1, <2>2, <3>6
      <4>2. CASE r = Waiting
        BY <2>2, <3>2, <3>3, <4>1, <4>2 DEF Waiting
      <4>3. CASE r # Waiting
        BY <2>2, <3>1, <3>6, <4>1, <4>3
      <4> QED
        BY <4>2, <4>3
    <3> QED
      BY <3>4, <3>5, <3>6
  <2>3. ASSUME NEW s \in Sessions, NEW j \in DOMAIN messages[s]
        PROVE  LET m == messages[s][j] IN
               /\ owner[s] # Nobody /\ m.question \in asked
               /\ m.role = "USER" /\ j = Len(messages[s]) /\ s \notin overlapped =>
                     \/ m.question \in failed'
                     \/ \E d \in Turns : InSession(turn'[d], s) /\ turn'[d].question = m.question
    <3> DEFINE m == messages[s][j]
    <3>1. /\ owner[s] # Nobody /\ m.question \in asked
          /\ m.role = "USER" /\ j = Len(messages[s]) /\ s \notin overlapped =>
                \/ m.question \in failed
                \/ \E d \in Turns : InSession(turn[d], s) /\ turn[d].question = m.question
      BY <2>3 DEF AssistantInv, TurnsFollow
    <3> HIDE DEF m
    <3>2. ASSUME NEW d \in Turns, InSession(turn[d], s), turn[d].question = m.question,
                 m.question \notin failed'
          PROVE  InSession(turn'[d], s) /\ turn'[d].question = m.question
      <4>1. CASE d # c
        BY <1>1, <3>2, <4>1
      <4>2. CASE d = c
        BY <1>1, <3>2, <4>2 DEF InSession
      <4> QED
        BY <4>1, <4>2
    <3>3. m.role = "USER" /\ j = Len(messages[s]) /\ s \notin overlapped =>
                 \/ m.question \in failed'
                 \/ \E d \in Turns : InSession(turn'[d], s) /\ turn'[d].question = m.question
      BY <1>2, <3>1, <3>2
    <3> QED
      BY <3>1, <3>3 DEF m
  <2> QED
    BY <2>1, <2>2, <2>3 DEF TurnsFollow, AssistantInv, TurnAt, InSession
<1> QED
  BY <1>3, <1>4, <1>5, <1>6 DEF AssistantInv

\* The ends of a turn preserve the invariant, also in a session that was removed.
LEMMA EndingSteps ==
    ASSUME AssistantInv, NEW c \in Turns,
           \/ TurnEnds(c)
           \/ /\ turn[c].step # "idle" /\ turn[c].session \in removed
              /\ \E x, step : Add(c, x, step)
    PROVE  AssistantInv'
<1>1. PICK t : t = turn[c]
  OBVIOUS
<1>2. /\ t.step # "idle" /\ turn' = [turn EXCEPT ![c] = Waiting]
      /\ failed' = failed \cup {t.question}
      /\ UNCHANGED <<owner, removed, messages, consent, asked, overlapped>>
  BY <1>1 DEF TurnEnds, TurnAt, Add
<1> QED
  BY <1>1, <1>2, WaitingFits, TurnGoes

\* The history, the search and the model's answer.
LEMMA GoingSteps ==
    ASSUME AssistantInv, NEW c \in Turns, HistoryFor(c) \/ Retrieve(c) \/ Ask(c)
    PROVE  AssistantInv'
<1>1. PICK t : t = turn[c]
  OBVIOUS
<1>2. t.step \in {"resolved", "read", "asking"}
  BY <1>1 DEF HistoryFor, Retrieve, Ask, TurnAt
<1>3. /\ t \in Served /\ TurnFits(t)
      /\ t.session \in Sessions /\ t.question \in Questions
      /\ t.history \in Seq(Messages) /\ t.found \subseteq Places
      /\ t.callable \subseteq Places /\ t.agreed \subseteq Places
      /\ t.actions \subseteq Actions
      /\ messages[t.session] \in Seq(Messages)
  BY <1>1, <1>2, TurnFacts
<1>4. consent \subseteq Places
  BY DEF AssistantInv, AssistantTypeOK
<1>5. CASE HistoryFor(c)
  <2> DEFINE past == Last(messages[t.session])
  <2> DEFINE r == [t EXCEPT !.step = "read", !.history = past]
  <2>1. /\ t.step = "resolved" /\ turn' = [turn EXCEPT ![c] = r]
        /\ UNCHANGED <<owner, removed, messages, consent, asked, overlapped, failed>>
    BY <1>1, <1>5 DEF HistoryFor, TurnAt
  <2>2. /\ past \in Seq(Messages)
        /\ \A i \in DOMAIN past : \E j \in DOMAIN messages[t.session] :
              past[i] = messages[t.session][j]
    BY <1>3, LastOf
  <2> HIDE DEF past
  <2>3. /\ r \in Served /\ r.step = "read" /\ r.session = t.session /\ r.question = t.question
        /\ r.history = past /\ r.callable = t.callable /\ r.agreed = t.agreed
        /\ r.actions = t.actions
    BY <1>3, <2>2 DEF Served, Before
  <2> HIDE DEF r
  <2>4. /\ owner[t.session] # Nobody /\ t.question \in asked
        /\ \A j \in DOMAIN messages[t.session] :
              messages[t.session][j].question # t.question
        /\ t.callable \subseteq t.agreed /\ t.actions = {}
        /\ \A a \in t.actions : a.type = "CONTACT" => a.place \in t.agreed
    BY <1>3, <2>1 DEF TurnFits, Before
  <2>5. \A i \in DOMAIN past : past[i].question # t.question
    BY <2>2, <2>4
  <2>6. TurnFits(r)
    BY <2>3, <2>4, <2>5 DEF TurnFits, Before, After, past
  <2> QED
    BY <1>1, <2>1, <2>3, <2>6, TurnGoes DEF After
<1>6. CASE Retrieve(c)
  <2>1. PICK found \in SUBSET Places :
          turn' = [turn EXCEPT ![c] =
            [@ EXCEPT !.step = "retrieved", !.found = found,
                      !.callable = found \cap consent, !.agreed = consent]]
    BY <1>6 DEF Retrieve
  <2> DEFINE r == [t EXCEPT !.step = "retrieved", !.found = found,
                            !.callable = found \cap consent, !.agreed = consent]
  <2>2. /\ t.step = "read" /\ turn' = [turn EXCEPT ![c] = r]
        /\ UNCHANGED <<owner, removed, messages, consent, asked, overlapped, failed>>
    BY <1>1, <1>6, <2>1 DEF Retrieve, TurnAt
  <2>3. /\ r \in Served /\ r.step = "retrieved" /\ r.session = t.session
        /\ r.question = t.question /\ r.history = t.history
        /\ r.callable = found \cap consent /\ r.agreed = consent /\ r.actions = t.actions
    BY <1>3, <1>4 DEF Served, Before
  <2> HIDE DEF r
  <2>4. t.actions = {}
    BY <1>3, <2>2 DEF TurnFits, Before
  <2>5. TurnFits(r)
    BY <1>3, <2>2, <2>3, <2>4 DEF TurnFits, Before, After
  <2> QED
    BY <1>1, <2>2, <2>3, <2>5, TurnGoes DEF After
<1>7. CASE Ask(c)
  <2>1. PICK raw \in SUBSET Actions :
          turn' = [turn EXCEPT ![c] =
            [@ EXCEPT !.step = "answering", !.actions = {a \in raw : Grounded(a, c)}]]
    BY <1>7 DEF Ask
  <2> DEFINE kept == {a \in raw : Grounded(a, c)}
  <2> DEFINE r == [t EXCEPT !.step = "answering", !.actions = kept]
  <2>2. /\ t.step = "asking" /\ turn' = [turn EXCEPT ![c] = r]
        /\ UNCHANGED <<owner, removed, messages, consent, asked, overlapped, failed>>
    BY <1>1, <1>7, <2>1 DEF Ask, TurnAt
  <2>3. kept \subseteq Actions /\ \A a \in kept : a.type = "CONTACT" => a.place \in t.callable
    BY <1>1 DEF Grounded
  <2> HIDE DEF kept
  <2>4. /\ r \in Served /\ r.step = "answering" /\ r.session = t.session
        /\ r.question = t.question /\ r.history = t.history /\ r.callable = t.callable
        /\ r.agreed = t.agreed /\ r.actions = kept
    BY <1>3, <2>3 DEF Served, After
  <2> HIDE DEF r
  <2>5. TurnFits(r)
    BY <1>3, <2>2, <2>3, <2>4 DEF TurnFits, Before, After
  <2> QED
    BY <1>1, <2>2, <2>4, <2>5, TurnGoes DEF After
<1> QED
  BY <1>5, <1>6, <1>7

-----------------------------------------------------------------------------
(* Sessions and consent.                                                   *)

\* The begin of a turn preserves it.
LEMMA BeginSteps ==
    ASSUME AssistantInv, NEW c \in Turns, NEW s \in Sessions, NEW user \in {Member, Guest},
           CreateSession(c, s, user) \/ ResolveSession(c, s, user)
    PROVE  AssistantInv'
<1> USE DEF AssistantInv
<1>1. Begin(c, s)
  BY DEF CreateSession, ResolveSession
<1>2. PICK q \in Questions \ asked :
        /\ asked' = asked \cup {q}
        /\ turn' = [turn EXCEPT ![c] =
              [Waiting EXCEPT !.step = "resolved", !.session = s, !.question = q]]
  BY <1>1 DEF Begin
<1>3. /\ turn[c].step = "idle" /\ UNCHANGED <<removed, messages, consent, failed>>
      /\ overlapped' = IF Busy(s) THEN overlapped \cup {s} ELSE overlapped
  BY <1>1 DEF Begin, TurnAt
<1> DEFINE r == [Waiting EXCEPT !.step = "resolved", !.session = s, !.question = q]
<1>4. /\ r \in Served /\ r.step = "resolved" /\ r.session = s /\ r.question = q
      /\ r.callable = {} /\ r.actions = {}
  <2>1. <<>> \in Seq(Messages)
    BY EmptySeq
  <2> QED
    BY <2>1 DEF Waiting, Served, Before
<1>5. turn' = [turn EXCEPT ![c] = r]
  BY <1>2
<1> HIDE DEF r
<1>6. /\ \A d \in Turns : turn'[d] = IF d = c THEN r ELSE turn[d]
      /\ turn' \in [Turns -> {Waiting} \cup Served]
  BY <1>4, <1>5 DEF AssistantTypeOK
<1>7. /\ owner' \in [Sessions -> {Member, Guest, Nobody}] /\ owner'[s] # Nobody
      /\ \A x \in Sessions : owner[x] # Nobody => owner'[x] = owner[x]
      /\ \A x \in Sessions : x # s => owner'[x] = owner[x]
      /\ owner[s] = Nobody \/ s \notin removed
  <2>1. Nobody \notin {Member, Guest} /\ owner \in [Sessions -> {Member, Guest, Nobody}]
    BY AssistantAssumption DEF AssistantTypeOK
  <2>2. CASE CreateSession(c, s, user)
    BY <2>1, <2>2 DEF CreateSession
  <2>3. CASE ResolveSession(c, s, user)
    BY <2>1, <2>3 DEF ResolveSession, Open
  <2> QED
    BY <2>2, <2>3
<1>8. overlapped \subseteq overlapped' /\ overlapped' \subseteq Sessions
  BY <1>3 DEF AssistantTypeOK
<1>9. AssistantTypeOK'
  BY <1>2, <1>3, <1>6, <1>7, <1>8 DEF AssistantTypeOK
<1>10. ContactsAgreed' /\ RemovedIsGone'
  BY <1>3 DEF ContactsAgreed, RemovedIsGone
<1>11. AnswersFollow'
  <2>1. \A x \in Sessions : Pairs(messages[x], x \in overlapped, failed)
    BY PairsOfSessions
  <2>2. \A x \in Sessions : Pairs(messages[x], x \in overlapped', failed)
    BY <1>8, <2>1 DEF Pairs
  <2> QED
    BY <1>3, <2>2 DEF AnswersFollow, Pairs
<1>12. \A x \in Sessions : \A j \in DOMAIN messages[x] :
          owner[x] # Nobody /\ messages[x][j].question \in asked
  BY DEF TurnsFollow
<1>13. TurnFits(r)'
  <2>1. \A i \in DOMAIN messages[s] : messages[s][i].question # q
    BY <1>2, <1>12
  <2> QED
    BY <1>2, <1>3, <1>4, <1>7, <2>1 DEF TurnFits, Before, After
<1>14. ASSUME NEW d \in Turns, d # c PROVE \A t \in {turn[d]} : TurnFits(t)'
  <2> TAKE t \in {turn[d]}
  <2>1. TurnFits(t)
    BY DEF TurnsFollow
  <2>2. CASE t.step = "idle"
    BY <2>1, <2>2 DEF TurnFits, Before, After
  <2>3. CASE t.step # "idle"
    <3>1. t.session \in Sessions
      BY <2>3, TurnFacts
    <3> QED
      BY <1>2, <1>3, <1>7, <1>8, <2>1, <3>1 DEF TurnFits
  <2> QED
    BY <2>2, <2>3
<1>15. \A x, y \in Turns : x # y /\ turn[x].step # "idle" =>
          /\ turn[x].question # turn[y].question
          /\ turn[x].session = turn[y].session => turn[x].session \in overlapped
  BY DEF TurnsFollow, TurnAt
<1>16. ASSUME NEW d \in Turns, d # c
       PROVE  turn[d].question # q /\ (turn[d].session = s => s \in overlapped')
  <2>1. turn[d].question # q
    <3>1. CASE turn[d].step = "idle"
      <4>1. turn[d] = Waiting
        BY <3>1 DEF AssistantTypeOK, Served, Before, After
      <4> QED
        BY <1>2, <4>1, AssistantAssumption DEF Waiting
    <3>2. CASE turn[d].step # "idle"
      <4>1. turn[d].question \in asked
        BY <3>2 DEF TurnsFollow, TurnFits
      <4> QED
        BY <1>2, <4>1
    <3> QED
      BY <3>1, <3>2
  <2>2. turn[d].session = s => Busy(s)
    BY DEF Busy
  <2> QED
    BY <1>3, <2>1, <2>2
<1>17. ASSUME NEW d \in Turns, NEW e \in Turns, d # e, turn'[d].step # "idle"
       PROVE  /\ turn'[d].question # turn'[e].question
              /\ turn'[d].session = turn'[e].session => turn'[d].session \in overlapped'
  <2>1. CASE d # c /\ e # c
    BY <1>6, <1>8, <1>15, <1>17, <2>1
  <2>2. CASE d = c
    BY <1>4, <1>6, <1>16, <1>17, <2>2
  <2>3. CASE e = c
    BY <1>4, <1>6, <1>16, <1>17, <2>3
  <2> QED
    BY <2>1, <2>2, <2>3
<1>18. ASSUME NEW x \in Sessions, NEW j \in DOMAIN messages[x],
              messages[x][j].role = "USER", j = Len(messages[x]), x \notin overlapped'
       PROVE  \/ messages[x][j].question \in failed
              \/ \E d \in Turns : InSession(turn'[d], x)
                                  /\ turn'[d].question = messages[x][j].question
  <2>1. \/ messages[x][j].question \in failed
        \/ \E d \in Turns : InSession(turn[d], x) /\ turn[d].question = messages[x][j].question
    BY <1>8, <1>18 DEF TurnsFollow
  <2>2. \A d \in Turns : InSession(turn[d], x) => turn'[d] = turn[d]
    BY <1>3, <1>6 DEF InSession, After
  <2> QED
    BY <2>1, <2>2
<1>19. TurnsFollow'
  <2>1. \A d \in Turns : \A t \in {turn'[d]} : TurnFits(t)'
    BY <1>6, <1>13, <1>14
  <2>2. \A x \in Sessions : owner'[x] = Nobody => x \notin removed
    BY <1>7 DEF TurnsFollow
  <2>3. \A x \in Sessions : \A j \in DOMAIN messages[x] :
           owner'[x] # Nobody /\ messages[x][j].question \in asked'
    BY <1>2, <1>7, <1>12
  <2> QED
    BY <1>3, <1>17, <1>18, <2>1, <2>2, <2>3 DEF TurnsFollow, TurnAt, InSession
<1> QED
  BY <1>9, <1>10, <1>11, <1>19

\* The removal of a session preserves it.
LEMMA RemoveSteps ==
    ASSUME AssistantInv, NEW s \in Sessions, RemoveSession(s)
    PROVE  AssistantInv'
<1> USE DEF AssistantInv
<1>1. /\ owner[s] = Member /\ removed' = removed \cup {s}
      /\ messages' = [messages EXCEPT ![s] = <<>>]
      /\ UNCHANGED <<owner, consent, turn, asked, overlapped, failed>>
  BY DEF RemoveSession
<1>2. <<>> \in Seq(Messages) /\ DOMAIN <<>> = {}
  BY EmptySeq
<1>3. \A x \in Sessions : messages'[x] = IF x = s THEN <<>> ELSE messages[x]
  BY <1>1 DEF AssistantTypeOK
<1>4. AssistantTypeOK'
  BY <1>1, <1>2 DEF AssistantTypeOK
<1>5. AnswersFollow' /\ ContactsAgreed' /\ RemovedIsGone'
  <2>1. ContactsAgreed'
    BY <1>2, <1>3 DEF ContactsAgreed
  <2>2. RemovedIsGone'
    BY <1>1, <1>3, <1>4 DEF RemovedIsGone, AssistantTypeOK
  <2>3. AnswersFollow'
    <3>1. \A x \in Sessions : Pairs(messages[x], x \in overlapped, failed)
      BY PairsOfSessions
    <3>2. \A x \in Sessions : Pairs(messages'[x], x \in overlapped, failed)
      BY <1>2, <1>3, <3>1 DEF Pairs
    <3> QED
      BY <1>1, <3>2 DEF AnswersFollow, Pairs
  <2> QED
    BY <2>1, <2>2, <2>3
<1>6. ASSUME NEW d \in Turns PROVE \A t \in {turn[d]} : TurnFits(t)'
  <2> TAKE t \in {turn[d]}
  <2>1. TurnFits(t)
    BY DEF TurnsFollow
  <2>2. CASE t.step = "idle"
    BY <2>1, <2>2 DEF TurnFits, Before, After
  <2>3. CASE t.step # "idle" /\ t.session = s
    <3>1. messages'[t.session] = <<>> /\ t.session \in removed'
      BY <1>1, <1>3, <2>3
    <3> QED
      BY <1>1, <1>2, <2>1, <2>3, <3>1 DEF TurnFits
  <2>4. CASE t.step # "idle" /\ t.session # s
    <3>1. t.session \in Sessions
      BY <2>4, TurnFacts
    <3>2. messages'[t.session] = messages[t.session]
          /\ (t.session \in removed' <=> t.session \in removed)
      BY <1>1, <1>3, <2>4, <3>1
    <3> QED
      BY <1>1, <2>1, <3>2 DEF TurnFits
  <2> QED
    BY <2>2, <2>3, <2>4
<1>7. \A x \in Sessions : \A j \in DOMAIN messages'[x] :
         x # s /\ j \in DOMAIN messages[x] /\ messages'[x] = messages[x]
  BY <1>2, <1>3
<1>8. \A x \in Sessions : owner[x] = Nobody => x \notin removed'
  BY <1>1, AssistantAssumption DEF TurnsFollow
<1>9. TurnsFollow'
  BY <1>1, <1>6, <1>7, <1>8 DEF TurnsFollow, TurnAt, InSession
<1> QED
  BY <1>4, <1>5, <1>9

\* A turn that has looked for places learns who has agreed meanwhile.
LEMMA ConsentSteps ==
    ASSUME AssistantInv, NEW p \in Places, UpdateConsent(p)
    PROVE  AssistantInv'
<1> USE DEF AssistantInv
<1>1. /\ consent' \subseteq Places
      /\ turn' = [c \in Turns |-> IF turn[c].step \in {"retrieved", "asking", "answering"}
                                  THEN [turn[c] EXCEPT !.agreed = @ \cup consent']
                                  ELSE turn[c]]
      /\ UNCHANGED <<owner, removed, messages, asked, overlapped, failed>>
  BY DEF UpdateConsent, AssistantTypeOK
<1>2. ASSUME NEW d \in Turns, NEW t, t = turn[d], NEW r, r = turn'[d]
      PROVE  /\ r \in {Waiting} \cup Served /\ r.step = t.step /\ r.session = t.session
             /\ r.question = t.question /\ TurnFits(r)'
  <2>1. TurnFits(t) /\ t \in {Waiting} \cup Served
    BY <1>2 DEF TurnsFollow, AssistantTypeOK
  <2>2. CASE t.step \in {"retrieved", "asking", "answering"}
    <3>1. t \in Served
      BY <2>1, <2>2 DEF Waiting
    <3>2. r = [t EXCEPT !.agreed = @ \cup consent']
      BY <1>1, <1>2, <2>2
    <3>3. /\ r \in Served /\ r.step = t.step /\ r.session = t.session /\ r.history = t.history
          /\ r.question = t.question /\ r.callable = t.callable /\ r.actions = t.actions
          /\ t.agreed \subseteq r.agreed
      BY <1>1, <3>1, <3>2 DEF Served
    <3>4. TurnFits(r)
      BY <2>1, <3>3 DEF TurnFits
    <3> QED
      BY <1>1, <3>3, <3>4 DEF TurnFits
  <2>3. CASE t.step \notin {"retrieved", "asking", "answering"}
    <3>1. r = t
      BY <1>1, <1>2, <2>3
    <3> QED
      BY <1>1, <2>1, <3>1 DEF TurnFits
  <2> QED
    BY <2>2, <2>3
<1>3. AssistantTypeOK'
  <2>1. \A d \in Turns : turn'[d] \in {Waiting} \cup Served
    BY <1>2
  <2>2. turn' \in [Turns -> {Waiting} \cup Served]
    BY <1>1, <2>1
  <2> QED
    BY <1>1, <2>2 DEF AssistantTypeOK
<1>4. AnswersFollow' /\ ContactsAgreed' /\ RemovedIsGone'
  BY <1>1 DEF AnswersFollow, ContactsAgreed, RemovedIsGone
<1>5. \A d \in Turns : /\ turn'[d].step = turn[d].step /\ turn'[d].session = turn[d].session
                       /\ turn'[d].question = turn[d].question
  BY <1>2
<1>6. \A d \in Turns : \A t \in {turn'[d]} : TurnFits(t)'
  BY <1>2
<1>7. \A d \in Turns : \A x : InSession(turn[d], x) => InSession(turn'[d], x)
  BY <1>5 DEF InSession
<1>8. TurnsFollow'
  BY <1>1, <1>5, <1>6, <1>7 DEF TurnsFollow, TurnAt, InSession
<1> QED
  BY <1>3, <1>4, <1>8

-----------------------------------------------------------------------------
(* Saving a question or an answer.                                         *)

\* Saving a message preserves it, a question or an answer.
LEMMA MessageSaved ==
    ASSUME AssistantInv, NEW c \in Turns, NEW t, t = turn[c], t.step # "idle",
           NEW s, s = t.session, s \notin removed,
           NEW x \in Messages, x.question = t.question,
           \A a \in x.actions : a.type = "CONTACT" => a.place \in x.agreed,
           NEW r \in Served \cup {Waiting}, turn' = [turn EXCEPT ![c] = r],
           messages' = [messages EXCEPT ![s] = Append(@, x)],
           UNCHANGED <<owner, removed, consent, asked, overlapped, failed>>,
           \/ /\ t.step = "retrieved" /\ x.role = "USER"
              /\ r.step \in After /\ r.session = s /\ r.question = t.question
              /\ r.history = t.history /\ r.callable = t.callable /\ r.agreed = t.agreed
              /\ r.actions = t.actions
           \/ t.step \in After /\ x.role = "ASSISTANT" /\ r = Waiting
    PROVE  AssistantInv'
<1> USE DEF AssistantInv
<1>1. /\ TurnFits(t) /\ s \in Sessions /\ t.question \in Questions
      /\ messages[s] \in Seq(Messages)
  BY TurnFacts
<1> DEFINE m == messages[s]
<1> DEFINE a == Append(m, x)
<1> DEFINE n == Len(m)
<1>2. /\ a \in Seq(Messages) /\ n \in Nat /\ Len(a) = n + 1
      /\ DOMAIN m = 1..n /\ DOMAIN a = 1..(n + 1)
      /\ \A i \in 1..n : a[i] = m[i]
      /\ a[n + 1] = x
  BY <1>1, Appended
<1>3. SubSeq(a, 1, Len(a) - 1) = m
  BY <1>1, FrontOf
<1>4. \A y \in Sessions : messages'[y] = IF y = s THEN a ELSE messages[y]
  BY DEF AssistantTypeOK
<1>5. messages' \in [Sessions -> Seq(Messages)]
  BY <1>2, <1>4 DEF AssistantTypeOK
<1> HIDE DEF a, n
<1>6. /\ \A d \in Turns : turn'[d] = IF d = c THEN r ELSE turn[d]
      /\ turn' \in [Turns -> {Waiting} \cup Served]
  BY DEF AssistantTypeOK
<1>7. AssistantTypeOK'
  BY <1>5, <1>6 DEF AssistantTypeOK
<1>8. RemovedIsGone'
  BY <1>1, <1>4 DEF RemovedIsGone, AssistantTypeOK
<1>9. ContactsAgreed'
  <2>1. ASSUME NEW y \in Sessions, NEW j \in DOMAIN messages'[y],
               NEW b \in messages'[y][j].actions, b.type = "CONTACT"
        PROVE  b.place \in messages'[y][j].agreed
    <3>1. CASE y = s /\ j = n + 1
      BY <1>2, <1>4, <2>1, <3>1
    <3>2. CASE ~(y = s /\ j = n + 1)
      <4>1. j \in DOMAIN messages[y] /\ messages'[y][j] = messages[y][j]
        BY <1>2, <1>4, <2>1, <3>2
      <4> QED
        BY <2>1, <4>1 DEF ContactsAgreed
    <3> QED
      BY <3>1, <3>2
  <2> QED
    BY <2>1 DEF ContactsAgreed
<1>10. \A d, e \in Turns : d # e /\ turn[d].step # "idle" =>
          /\ turn[d].question # turn[e].question
          /\ turn[d].session = turn[e].session => turn[d].session \in overlapped
  BY DEF TurnsFollow, TurnAt
\* An open question at the end is nobody else's.
<1>11. \A j \in DOMAIN m :
          j = Len(m) /\ m[j].role = "USER" /\ s \notin overlapped /\ t.step = "retrieved" =>
             m[j].question \in failed
  <2> SUFFICES ASSUME NEW j \in DOMAIN m, j = Len(m), m[j].role = "USER", s \notin overlapped,
                      t.step = "retrieved", m[j].question \notin failed
               PROVE  FALSE
    OBVIOUS
  <2>1. PICK d \in Turns : InSession(turn[d], s) /\ turn[d].question = m[j].question
    BY <1>1 DEF TurnsFollow
  <2>2. d # c
    BY <2>1 DEF InSession, After
  <2> QED
    BY <1>10, <2>1, <2>2 DEF InSession
<1>12. Pairs(a, s \in overlapped, failed)
  <2>1. PICK over \in BOOLEAN : over <=> s \in overlapped
    <3>1. CASE s \in overlapped
      BY <3>1
    <3>2. CASE s \notin overlapped
      BY <3>2
    <3> QED
      BY <3>1, <3>2
  <2>2. Pairs(m, over, failed)
    BY <1>1, <2>1, PairsOfSessions
  <2>3. CASE t.step = "retrieved"
    <3>1. x.role = "USER" /\ \A i \in DOMAIN m : m[i].question # x.question
      BY <1>1, <2>3 DEF TurnFits, Before, After
    <3>2. Pairs(a, over, failed)
      BY <1>1, <1>11, <2>1, <2>2, <2>3, <3>1, QuestionAdded DEF a
    <3> QED
      BY <2>1, <3>2
  <2>4. CASE t.step \in After
    <3>1. /\ x.role = "ASSISTANT"
          /\ \A i \in DOMAIN m : m[i].question = x.question => m[i].role = "USER"
          /\ \E i \in DOMAIN m : m[i].question = x.question
          /\ ~over => m[Len(m)].question = x.question
      BY <1>1, <2>1, <2>4 DEF TurnFits, After
    <3>2. Pairs(a, over, failed)
      BY <1>1, <2>2, <3>1, AnswerAdded DEF a
    <3> QED
      BY <2>1, <3>2
  <2> QED
    BY <2>3, <2>4
<1>13. AnswersFollow'
  <2>1. \A y \in Sessions : Pairs(messages[y], y \in overlapped, failed)
    BY PairsOfSessions
  <2>2. \A y \in Sessions : Pairs(messages'[y], y \in overlapped, failed)
    BY <1>4, <1>12, <2>1
  <2>3. overlapped' = overlapped /\ failed' = failed
    OBVIOUS
  <2>4. (\A y \in Sessions : Pairs(messages'[y], y \in overlapped', failed')) => AnswersFollow'
    BY DEF AnswersFollow, Pairs
  <2> QED
    BY <2>2, <2>3, <2>4
<1>14. TurnFits(r)'
  <2>1. CASE r = Waiting
    BY <2>1 DEF TurnFits, Waiting, Before, After
  <2>2. CASE t.step = "retrieved"
    <3>1. /\ r.step \in After /\ r.session = s /\ r.question = t.question
          /\ r.history = t.history /\ r.callable = t.callable /\ r.agreed = t.agreed
          /\ r.actions = t.actions
      BY <2>2 DEF After
    <3>2. /\ \A i \in DOMAIN m : m[i].question # t.question
          /\ s \notin overlapped => t.history = Last(m)
          /\ \A i \in DOMAIN t.history : t.history[i].question # t.question
          /\ t.callable \subseteq t.agreed /\ t.actions = {}
          /\ owner[s] # Nobody /\ t.question \in asked
      BY <1>1, <2>2 DEF TurnFits, Before
    <3>3. /\ \A i \in DOMAIN a : a[i].question = t.question => a[i].role = "USER"
          /\ \E i \in DOMAIN a : a[i].question = t.question
          /\ a[Len(a)].question = t.question
      BY <1>2, <2>2, <3>2 DEF After
    <3>4. messages'[s] = a
      BY <1>1, <1>4
    <3>5. s \notin overlapped => r.history = Last(SubSeq(a, 1, Len(a) - 1))
      BY <1>3, <3>1, <3>2
    <3>6. r.step \notin Before /\ r.step \notin {"read", "retrieved"}
      BY <3>1 DEF Before, After
    <3>7. owner'[r.session] # Nobody /\ r.question \in asked' /\ messages'[r.session] = a
      BY <3>1, <3>2, <3>4
    <3>8. /\ \A i \in DOMAIN messages'[r.session] :
                messages'[r.session][i].question = r.question =>
                   messages'[r.session][i].role = "USER"
          /\ \E i \in DOMAIN messages'[r.session] :
                messages'[r.session][i].question = r.question
          /\ messages'[r.session][Len(messages'[r.session])].question = r.question
      BY <3>1, <3>3, <3>7
    <3>9. r.session \notin overlapped' \cup removed' =>
             r.history = Last(SubSeq(messages'[r.session], 1, Len(messages'[r.session]) - 1))
      BY <3>1, <3>5, <3>7
    <3>10. /\ \A i \in DOMAIN r.history : r.history[i].question # r.question
           /\ r.callable \subseteq r.agreed /\ r.actions = {}
      BY <3>1, <3>2
    <3> QED
      BY <3>6, <3>7, <3>8, <3>9, <3>10 DEF TurnFits
  <2> QED
    BY <2>1, <2>2
<1>15. ASSUME NEW d \in Turns, d # c PROVE \A u \in {turn[d]} : TurnFits(u)'
  <2> TAKE u \in {turn[d]}
  <2>1. TurnFits(u)
    BY DEF TurnsFollow
  <2>2. CASE u.step = "idle"
    BY <2>1, <2>2 DEF TurnFits, Before, After
  <2>3. CASE u.step # "idle" /\ u.session # s
    <3>1. u.session \in Sessions
      BY <2>3, TurnFacts
    <3>2. messages'[u.session] = messages[u.session]
      BY <1>4, <2>3, <3>1
    <3> QED
      BY <2>1, <3>2 DEF TurnFits
  <2>4. CASE u.step # "idle" /\ u.session = s
    <3>1. s \in overlapped /\ u.question # t.question
      BY <1>10, <1>15, <2>4
    <3>2. messages'[u.session] = a
      BY <1>1, <1>4, <2>4
    <3>3. u.step \in Before => \A i \in DOMAIN a : a[i].question # u.question
      BY <1>2, <2>1, <2>4, <3>1 DEF TurnFits
    <3>4. u.step \in After =>
             /\ \A i \in DOMAIN a : a[i].question = u.question => a[i].role = "USER"
             /\ \E i \in DOMAIN a : a[i].question = u.question
      BY <1>2, <2>1, <2>4, <3>1 DEF TurnFits
    <3> QED
      BY <2>1, <2>4, <3>1, <3>2, <3>3, <3>4 DEF TurnFits
  <2> QED
    BY <2>2, <2>3, <2>4
<1>16. ASSUME NEW d \in Turns, NEW e \in Turns, d # e, turn'[d].step # "idle"
       PROVE  /\ turn'[d].question # turn'[e].question
              /\ turn'[d].session = turn'[e].session => turn'[d].session \in overlapped
  <2>1. CASE r = Waiting
    <3>1. d # c
      BY <1>6, <1>16, <2>1, WaitingFits
    <3>2. CASE e = c
      <4>1. turn[d].question \in Questions /\ turn[d].session \in Sessions
        BY <1>6, <1>16, <3>1, TurnFacts
      <4>2. r.question = Nobody /\ r.session = Nobody
        BY <2>1 DEF Waiting
      <4> QED
        BY <1>6, <1>16, <3>1, <3>2, <4>1, <4>2, AssistantAssumption
    <3>3. CASE e # c
      BY <1>6, <1>10, <1>16, <3>1, <3>3
    <3> QED
      BY <3>2, <3>3
  <2>2. CASE r.session = t.session /\ r.question = t.question
    BY <1>6, <1>10, <1>16, <2>2
  <2> QED
    BY <2>1, <2>2
<1>17. ASSUME NEW y \in Sessions, NEW j \in DOMAIN messages'[y], NEW z, z = messages'[y][j]
       PROVE  /\ owner[y] # Nobody /\ z.question \in asked
              /\ z.role = "USER" /\ j = Len(messages'[y]) /\ y \notin overlapped =>
                    \/ z.question \in failed
                    \/ \E d \in Turns : InSession(turn'[d], y) /\ turn'[d].question = z.question
  <2>1. CASE y # s
    <3>1. messages'[y] = messages[y]
      BY <1>4, <2>1
    <3>2. /\ owner[y] # Nobody /\ z.question \in asked
          /\ z.role = "USER" /\ j = Len(messages[y]) /\ y \notin overlapped =>
                \/ z.question \in failed
                \/ \E d \in Turns : InSession(turn[d], y) /\ turn[d].question = z.question
      <4>1. j \in DOMAIN messages[y] /\ z = messages[y][j]
        BY <1>17, <3>1
      <4> QED
        BY <4>1 DEF TurnsFollow
    <3>3. \A d \in Turns : InSession(turn[d], y) => turn'[d] = turn[d]
      BY <1>6, <2>1 DEF InSession
    <3> QED
      BY <3>1, <3>2, <3>3
  <2>2. CASE y = s /\ j # n + 1
    <3>1. j \in DOMAIN m /\ z = m[j] /\ j # Len(messages'[y])
      BY <1>1, <1>2, <1>4, <1>17, <2>2
    <3>2. owner[y] # Nobody /\ z.question \in asked
      BY <1>1, <2>2, <3>1 DEF TurnsFollow
    <3> QED
      BY <3>1, <3>2
  <2>3. CASE y = s /\ j = n + 1
    <3>1. z = x
      BY <1>1, <1>2, <1>4, <1>17, <2>3
    <3>2. owner[y] # Nobody /\ z.question \in asked
      BY <1>1, <2>3, <3>1 DEF TurnFits
    <3>3. z.role = "USER" => InSession(turn'[c], y) /\ turn'[c].question = z.question
      BY <1>6, <2>3, <3>1 DEF InSession
    <3> QED
      BY <3>2, <3>3
  <2> QED
    BY <2>1, <2>2, <2>3
<1>18. TurnsFollow'
  <2>1. \A d \in Turns : \A u \in {turn'[d]} : TurnFits(u)'
    BY <1>6, <1>14, <1>15
  <2>2. \A y \in Sessions : owner[y] = Nobody => y \notin removed
    BY DEF TurnsFollow
  <2> QED
    BY <1>16, <1>17, <2>1, <2>2 DEF TurnsFollow, TurnAt, InSession
<1> QED
  BY <1>7, <1>8, <1>9, <1>13, <1>18

\* The two steps that save messages are of that kind.
LEMMA AddSteps ==
    ASSUME AssistantInv, NEW c \in Turns, AddQuestion(c) \/ AddAnswer(c)
    PROVE  AssistantInv'
<1>1. PICK t : t = turn[c]
  OBVIOUS
<1>2. t.step \in {"retrieved", "answering"}
  BY <1>1 DEF AddQuestion, AddAnswer, TurnAt
<1>3. /\ t \in Served /\ TurnFits(t)
      /\ t.session \in Sessions /\ t.question \in Questions
      /\ t.history \in Seq(Messages) /\ t.found \subseteq Places
      /\ t.callable \subseteq Places /\ t.agreed \subseteq Places
      /\ t.actions \subseteq Actions
  BY <1>1, <1>2, TurnFacts
<1>4. CASE t.session \in removed
  BY <1>1, <1>2, <1>4, EndingSteps DEF AddQuestion, AddAnswer
<1>5. CASE t.session \notin removed /\ AddQuestion(c)
  <2>1. PICK step \in After : Add(c, Asking(t.question), step)
    BY <1>1, <1>5 DEF AddQuestion, After
  <2>2. t.step = "retrieved"
    BY <1>1, <1>5 DEF AddQuestion, TurnAt
  <2> DEFINE x == Asking(t.question)
  <2>3. /\ x \in Messages /\ x.role = "USER" /\ x.question = t.question /\ x.actions = {}
    BY <1>3 DEF Asking, Messages
  <2> DEFINE r == [t EXCEPT !.step = step]
  <2>4. /\ turn' = [turn EXCEPT ![c] = r]
        /\ messages' = [messages EXCEPT ![t.session] = Append(@, x)]
        /\ UNCHANGED <<owner, removed, consent, asked, overlapped, failed>>
    BY <1>1, <1>5, <2>1 DEF Add, After
  <2>5. /\ r \in Served /\ r.step = step /\ r.session = t.session /\ r.question = t.question
        /\ r.history = t.history /\ r.callable = t.callable /\ r.agreed = t.agreed
        /\ r.actions = t.actions
    BY <1>3, <2>1 DEF Served
  <2> HIDE DEF r, x
  <2> QED
    BY <1>1, <1>5, <2>1, <2>2, <2>3, <2>4, <2>5, MessageSaved
<1>6. CASE t.session \notin removed /\ AddAnswer(c)
  <2>1. t.step = "answering" /\ Add(c, Answering(c), "idle")
    BY <1>1, <1>6 DEF AddAnswer, TurnAt
  <2> DEFINE x == Answering(c)
  <2>2. /\ x \in Messages /\ x.role = "ASSISTANT" /\ x.question = t.question
        /\ x.actions = t.actions /\ x.agreed = t.agreed
    BY <1>1, <1>3 DEF Answering, Messages
  <2>3. /\ turn' = [turn EXCEPT ![c] = Waiting]
        /\ messages' = [messages EXCEPT ![t.session] = Append(@, x)]
        /\ UNCHANGED <<owner, removed, consent, asked, overlapped, failed>>
    BY <1>1, <1>6, <2>1 DEF Add
  <2> HIDE DEF x
  <2>4. \A a \in x.actions : a.type = "CONTACT" => a.place \in x.agreed
    BY <1>3, <2>2 DEF TurnFits
  <2>5. t.step \in After /\ t.step # "idle"
    BY <2>1 DEF After
  <2> QED
    BY <1>1, <1>6, <2>2, <2>3, <2>4, <2>5, MessageSaved
<1> QED
  BY <1>4, <1>5, <1>6

\* A stutter preserves the invariant.
LEMMA NothingHappens == AssistantInv /\ UNCHANGED vars => AssistantInv'
<1> SUFFICES ASSUME AssistantInv, UNCHANGED vars PROVE AssistantInv'
  OBVIOUS
<1> USE DEF AssistantInv, vars
<1>1. AssistantTypeOK'
  BY DEF AssistantTypeOK
<1>2. AnswersFollow' /\ ContactsAgreed' /\ RemovedIsGone'
  BY DEF AnswersFollow, ContactsAgreed, RemovedIsGone
<1>3. \A t : TurnFits(t) => TurnFits(t)'
  BY DEF TurnFits
<1>4. TurnsFollow'
  BY <1>3 DEF TurnsFollow, TurnAt, InSession
<1> QED
  BY <1>1, <1>2, <1>4

-----------------------------------------------------------------------------
(* The theorems.                                                           *)

\* The invariant is inductive: what a turn holds agrees with the messages of its
\* session, no two turns share a question, and an open question at the end of a
\* session has failed or has a turn.
THEOREM AssistantHolds == Spec => []AssistantInv
<1>1. Init => AssistantInv
  BY InitAssistant
<1>2. AssistantInv /\ [Next]_vars => AssistantInv'
  <2> SUFFICES ASSUME AssistantInv, [Next]_vars PROVE AssistantInv'
    OBVIOUS
  <2>1. ASSUME NEW c \in Turns, Turn(c) PROVE AssistantInv'
    BY <2>1, BeginSteps, GoingSteps, AddSteps, EndingSteps DEF Turn
  <2>2. ASSUME NEW s \in Sessions, RemoveSession(s) PROVE AssistantInv'
    BY <2>2, RemoveSteps
  <2>3. ASSUME NEW p \in Places, UpdateConsent(p) PROVE AssistantInv'
    BY <2>3, ConsentSteps
  <2>4. CASE UNCHANGED vars
    BY <2>4, NothingHappens
  <2> QED
    BY <2>1, <2>2, <2>3, <2>4 DEF Next
<1> QED
  BY <1>1, <1>2, PTL DEF Spec

\* Every reachable state is well typed.
THEOREM AssistantTypeCorrect == Spec => []AssistantTypeOK
<1>1. AssistantInv => AssistantTypeOK
  BY DEF AssistantInv
<1> QED
  BY <1>1, AssistantHolds, PTL

\* However many turns overlap, fail or lose their session: questions and answers
\* pair up, the model is shown what came before the question, no joint is offered
\* for contact against its vendor's word, and a removed session keeps nothing
\* (runTurn(), historyFor(), toCandidateFoodJoint(), parseAction()).
THEOREM ConversationsStayCoherent == Spec => []ConversationsCohere
<1>1. AssistantInv => HistoryIsPast
  <2> SUFFICES ASSUME AssistantInv, NEW c \in Turns, NEW t, t = turn[c], t.step = "asking"
               PROVE  /\ \A i \in DOMAIN t.history : t.history[i].question # t.question
                      /\ t.session \notin overlapped \cup removed =>
                            t.history = Last(SubSeq(messages[t.session], 1,
                                                    Len(messages[t.session]) - 1))
    BY DEF HistoryIsPast, TurnAt
  <2>1. TurnFits(t)
    BY TurnFacts
  <2> QED
    BY <2>1 DEF TurnFits, After
<1>2. AssistantInv => ConversationsCohere
  BY <1>1 DEF AssistantInv, ConversationsCohere
<1> QED
  BY <1>2, AssistantHolds, PTL
=============================================================================

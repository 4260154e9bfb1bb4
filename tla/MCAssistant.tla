----------------------------- MODULE MCAssistant -----------------------------
(* One session, two turns at a time and three questions; the model is shown *)
(* the last two messages.                                                   *)
EXTENDS Assistant, TLC

CONSTANTS s1, g1, t1, t2, q1, q2, q3

SessionsMC == {s1}
PlacesMC == {g1}
TurnsMC == {t1, t2}
QuestionsMC == {q1, q2, q3}
Symmetry == Permutations(TurnsMC) \cup Permutations(QuestionsMC)
=============================================================================

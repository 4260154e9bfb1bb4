----------------------------- MODULE MCEmergency -----------------------------
(* Two alerts raised by two taps at a time, and two possible contacts.     *)
EXTENDS Emergency, TLC

CONSTANTS a1, a2, p1, p2, c1, c2

AlertsMC == {a1, a2}
ContactsMC == {p1, p2}
TapsMC == {c1, c2}
Symmetry ==
    Permutations(AlertsMC) \cup Permutations(ContactsMC) \cup Permutations(TapsMC)
=============================================================================

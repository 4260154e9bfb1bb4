SPECIFICATION Spec
CONSTANTS
    a1 = a1
    a2 = a2
    p1 = p1
    p2 = p2
    c1 = c1
    c2 = c2
    Alerts <- AlertsMC
    Contacts <- ContactsMC
    Taps <- TapsMC
    NoAlert = NoAlert
SYMMETRY Symmetry
INVARIANTS SosSentOnce

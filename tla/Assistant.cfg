SPECIFICATION Spec
CONSTANTS
    s1 = s1
    g1 = g1
    t1 = t1
    t2 = t2
    q1 = q1
    q2 = q2
    q3 = q3
    Sessions <- SessionsMC
    Places <- PlacesMC
    Turns <- TurnsMC
    Questions <- QuestionsMC
    History = 2
    Member = Member
    Guest = Guest
    Nobody = Nobody
SYMMETRY Symmetry
INVARIANTS ConversationsCohere

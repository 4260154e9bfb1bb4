CONSTANTS
    c1 = c1
    c2 = c2
    f1 = f1
    f2 = f2
    u1 = u1
    p1 = p1
    None = None
    Users = {u1}
    Calls = {c1, c2}
    RefreshIds = {f1, f2}
    ResetIds = {p1}
    Values = {1, 2}
    MaxPoints = 1
SPECIFICATION Spec
INVARIANTS AccountsTypeOK NothingLostWithoutOverlap SessionsFollowRotation ResetOnce
CHECK_DEADLOCK FALSE
SYMMETRY Symmetry

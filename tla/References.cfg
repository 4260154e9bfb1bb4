CONSTANTS
    t1 = t1
    t2 = t2
    r1 = r1
    r2 = r2
    r3 = r3
    TUR = TUR
    STY = STY
    Requests = {t1, t2, r1, r2, r3}
    Series = {TUR, STY}
    Tours = {TUR}
    SeriesOf <- MCSeriesOf
    MaxAttempts = 2
    LastYear = 1
SPECIFICATION RefSpec
INVARIANTS RefTypeOK NumbersWithoutGap FailureNeedsRivals
CHECK_DEADLOCK FALSE
SYMMETRY Symmetry

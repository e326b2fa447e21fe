SPECIFICATION FairSpec
CONSTANTS
    b = b
    s = s
    k = k
    c1 = c1
    c2 = c2
    t1 = t1
    t2 = t2
    none = none
    NoMsg = none
    Msg = {s, b, k}
    Maint = {k}
    Marks <- MCMarks
    Call = {c1, c2}
    Task = {t1, t2}
    Capacity = 1
    MaxRound = 2
    MaxCrash = 1
INVARIANTS BusyIsHeld HeldOnce SeenAsSent
PROPERTIES OwedIsSeen
CHECK_DEADLOCK FALSE

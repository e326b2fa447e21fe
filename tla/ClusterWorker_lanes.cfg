SPECIFICATION Spec
CONSTANTS
    t1 = t1
    t2 = t2
    c1 = c1
    r1 = r1
    r2 = r2
    Task = {t1, t2}
    Evidence = {t2}
    Child = {c1}
    Rpc = {r1}
    Capacity = 1
    MaxTries = 2
    MaxBack = 1
    MaxCrash = 0
INVARIANTS OutcomeIsKept RunningIsHonest
CHECK_DEADLOCK FALSE

SPECIFICATION FairSpec
CONSTANTS
    t1 = t1
    t2 = t2
    f1 = f1
    f2 = f2
    w1 = w1
    w2 = w2
    Task = {t1, t2}
    File = {f1, f2}
    Edits <- MCEdits
    Cargo <- MCCargo
    Thread = {w1, w2}
    MaxShocks = 1
INVARIANTS RepositoryIsRight
PROPERTIES DeliveryEnds
CHECK_DEADLOCK FALSE

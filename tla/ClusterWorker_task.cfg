SPECIFICATION FairSpec
CONSTANTS
    t1 = t1
    t2 = t2
    c1 = c1
    r1 = r1
    r2 = r2
    Task = {t1}
    Evidence = {}
    Child = {c1}
    Rpc = {r1, r2}
    Capacity = 2
    MaxTries = 2
    MaxBack = 2
    MaxCrash = 1
INVARIANTS PendingIsQueued InjectedOnce
PROPERTIES EveryTaskEnds CallbackNeverRevives
CHECK_DEADLOCK FALSE

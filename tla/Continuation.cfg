SPECIFICATION FairSpec
CONSTANTS
    t1 = t1
    t2 = t2
    h1 = h1
    h2 = h2
    Task = {t1, t2}
    Handler = {h1, h2}
    Result = {"done", "not found"}
    Slow = {t2}
    MaxDeliver = 2
    MaxCrash = 1
INVARIANTS ReplyOnce FirstResultWins SnapshotSurvives
PROPERTIES DeliveredIsAnswered
CHECK_DEADLOCK FALSE

SPECIFICATION FairSpec
CONSTANTS
    t1 = t1
    c1 = c1
    c2 = c2
    Task = {t1}
    Caller = {c1, c2}
    Result = {"r1", "r2"}
    Durable = TRUE
    MaxRestart = 1
INVARIANTS HeardOnce AnswersAgree
PROPERTIES SettledIsFinal SettlesOnce EveryTaskIsSettled SettledIsHeard
CHECK_DEADLOCK FALSE

SPECIFICATION FairSpec
CONSTANTS
    t1 = t1
    Task = {t1}
    MaxTries = 2
    MaxCrashA = 2
    MaxCrashB = 2
INVARIANTS FirstLearnedIsShown
PROPERTIES KeptUntilRecorded RepliedUnlessStruck CutDispatchIsReclaimed
CHECK_DEADLOCK FALSE

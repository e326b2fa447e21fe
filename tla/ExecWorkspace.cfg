SPECIFICATION FairSpec
CONSTANTS
    f1 = f1
    d = d
    File = {f1, d}
    Debug = {d}
    MaxEdit = 1
    MaxMishap = 2
INVARIANTS SentIsTrue WorkIsKept ActiveKeepsCopy
PROPERTY CopyIsHandedIn
CHECK_DEADLOCK FALSE

SPECIFICATION FairSpec
CONSTANTS
    d1 = d1
    d2 = d2
    top = top
    first = first
    second = second
    extra = extra
    none = none
    NoIssue = none
    Issue = {top, first, second, extra}
    Rework = {extra}
    Parent <- ParentOf
    Deps <- DepsOf
    Thread = {d1, d2}
    MaxHand = 1
    MaxCrash = 1
INVARIANTS CancelReachesAll
PROPERTIES StartsAfterDependencies ParentIsClosed
CHECK_DEADLOCK FALSE

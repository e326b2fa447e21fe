SPECIFICATION FairSpec
CONSTANTS
    d1 = d1
    d2 = d2
    Thread = {d1, d2}
    MaxRows = 2
    MaxSendRetries = 1
    MaxShocks = 1
    MaxRedispatch = 1
INVARIANTS OneActive
PROPERTIES ClosedStaysClosed InProgressEnds InReviewIsAttended
CHECK_DEADLOCK FALSE

SPECIFICATION FairSpec
CONSTANTS
    e1 = e1
    e2 = e2
    Chunks = 2
    MaxContent = 2
    Thread = {e1, e2}
    MaxAttempts = 2
    MaxFaults = 2
PROPERTIES TransferDelivers RecordArrives DossierIsRestored
CHECK_DEADLOCK FALSE

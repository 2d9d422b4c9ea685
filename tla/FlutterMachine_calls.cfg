SPECIFICATION Spec
CONSTANTS
    Task = {t1, t2}
    NoTask = NoTask
    Capacity = 2
    MaxRequests = 2
    MaxDropped = 1
    MaxOut = 1
    MaxCancelled = 1
INVARIANTS
    OwnAnswer
    NotStuck
    NoStray
    TailFinds
PROPERTIES
    CallsEnd
CHECK_DEADLOCK FALSE

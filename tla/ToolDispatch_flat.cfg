SPECIFICATION Spec
CONSTANTS
    t1 = t1
    t2 = t2
    plan = plan
    stop = stop
    tap = tap
    loose = loose
    k1 = k1
    Task = {t1, t2}
    Act = {plan, stop, tap, loose}
    Activating = {plan}
    Deactivating = {stop}
    AppTap = {tap, loose}
    Waved = {loose}
    Skill = {k1}
    Call <- Flat
    MaxEntries = 5
    MaxRequests = 3
    MaxNesting = 5
SYMMETRY Interchangeable
INVARIANTS
    BatchHonest
    TapsInFlight
PROPERTIES
    FlowKept
CHECK_DEADLOCK FALSE

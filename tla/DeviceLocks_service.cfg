SPECIFICATION Spec
CONSTANTS
    s1 = s1
    s2 = s2
    s3 = s3
    Session = {s1, s2}
    Device = {d1, d2}
    Survivor = {s1}
    NoOne = NoOne
    NoDevice = NoDevice
INVARIANTS
    Exclusive
    HolderOnDisk
    SelectedHeld
PROPERTIES
    ImplementsService
    StaleReclaimed
CHECK_DEADLOCK FALSE

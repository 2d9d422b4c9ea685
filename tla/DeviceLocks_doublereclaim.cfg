SPECIFICATION Unforced
CONSTANTS
    s1 = s1
    s2 = s2
    s3 = s3
    Session = {s1, s2, s3}
    Device = {d1}
    Survivor = {}
    NoOne = NoOne
    NoDevice = NoDevice
PROPERTIES
    ReclaimExclusive
CHECK_DEADLOCK FALSE

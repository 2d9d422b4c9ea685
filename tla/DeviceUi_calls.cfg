SPECIFICATION Spec
CONSTANTS
    c1 = c1
    c2 = c2
    Clients = {c1, c2}
    Tools = {"tap", "tap_and_verify", "gesture", "dump_ui", "pause", "resume"}
    Quota <- TwoAndOne
    MaxFaults = 2
    MaxEpoch = 2
    Nobody = Nobody
    IsSamsung = TRUE
    Ttl = 1
INVARIANTS
    NeverBeforeOwnAction
    SelfHeals
    PauseResume
PROPERTIES
    KeepsPromise
CHECK_DEADLOCK FALSE

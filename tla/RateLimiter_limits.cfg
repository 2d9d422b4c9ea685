SPECIFICATION Spec
CONSTANTS
    Caller = {c1, c2, c3}
    MaxPerWindow = 3
    Window = 3
    Threshold = 3
    Cooldown = 4
    MaxRaised = 1
INVARIANTS
    BurstBound
PROPERTIES
    CooldownServed

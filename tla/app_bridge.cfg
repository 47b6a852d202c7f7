SPECIFICATION MCSpec
CONSTANTS
    MaxInputs = 2
    MaxFaults = 2
    Saved = p1
    Patches = {p1, p2}
    DefaultPatch = p0
    RingCapacity = 2
    UiCapacity = 1
INVARIANTS
    TypeOK
    InStep
PROPERTIES
    CallsReturn
CHECK_DEADLOCK FALSE

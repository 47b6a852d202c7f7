SPECIFICATION MCSpec
CONSTANTS
    MaxInputs = 1
    MaxFaults = 2
    Saved = p1
    Patches = {p1}
    DefaultPatch = p0
    RingCapacity = 2
    UiCapacity = 1
PROPERTIES
    ChangesEnd
CHECK_DEADLOCK FALSE

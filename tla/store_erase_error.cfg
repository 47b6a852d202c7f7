SPECIFICATION MCSpec
CONSTANTS
    NSlots = 2
    JournalCap = 2
    Mod = 4
    DefaultPatch = p0
    Patches = {p0, p1}
    EraseErrors = TRUE
    MaxCalls = 3
    MaxCuts = 2
    MaxFaults = 2
INVARIANT
    SpareIsNotLive

SPECIFICATION MCSpec
CONSTANTS
    NSlots = 2
    JournalCap = 2
    Mod = 4
    DefaultPatch = p0
    Patches = {p0, p1}
    EraseErrors = FALSE
    MaxCalls = 3
    MaxCuts = 2
    MaxFaults = 2
INVARIANTS
    LiveBlocksIntact
    RamAndFlashAgree
PROPERTIES
    FaultsAreContained
    FailedCallsAreKnown

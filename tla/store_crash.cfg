SPECIFICATION MCSpec
CONSTANTS
    MaxCalls = 4
    MaxCuts = 2
    NSlots = 2
    JournalCap = 2
    Mod = 4
    DefaultPatch = p0
    Patches = {p0, p1}
INVARIANTS
    TypeOK
    LiveBlocksIntact
    RamMatchesFlash
PROPERTIES
    SavesAreAtomic
    StoreComesReady

SPECIFICATION MCSpec
CONSTANTS
    MaxMessages = 4
    MaxErrors = 1
    MaxCuts = 1
    Banks = {0, 1}
    Programs = {0}
    Patches = {p1, p2}
    DefaultPatch = p0
    Nothing = Nothing
    StorageCapacity = 2
    PatchCapacity = 1
INVARIANTS
    TypeOK
    HostsBankIsRequested
    LoadsFollowSaves
    RebootPlaysLastLoad
PROPERTIES
    RequestsAreServed
CHECK_DEADLOCK FALSE

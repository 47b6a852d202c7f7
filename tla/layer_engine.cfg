SPECIFICATION MCSpec
CONSTANTS
    VoiceCount = 2
    Notes = {1, 2}
    LaneCount = 1
    StepNotes = {1}
    Patches <- MCPatches
INVARIANTS
    TypeOK
    NoOrphanVoices
    VoicesAreOwned
    SustainFollowsPedal
    ArpPlaysHeldKeys
PROPERTIES
    KeysKeepSounding
    SilenceFollows

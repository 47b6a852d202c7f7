SPECIFICATION MCSpec
CONSTANTS
    LAYERS = 2
    Notes = {1, 2}
    Splits = {2, 3}
    Programs = {p0, p1}
    Values = {v0, v1}
    FadeBlocks = 2
    MaxControls = 4
INVARIANTS
    TypeOK
    KeysFollowTopology
    SettledTopology
    LoadedProgramPlaysUnlessCancelled
PROPERTIES
    SilentRebuild
    TransitionsEnd

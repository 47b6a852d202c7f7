SPECIFICATION MCSpec
CONSTANTS
    LAYERS = 1
    Notes = {1}
    Splits = {2, 3}
    Programs = {p0, p1}
    Values = {v0}
    FadeBlocks = 2
    MaxControls = 4
INVARIANT
    LoadedProgramPlays

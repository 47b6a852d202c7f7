SPECIFICATION MCSpec
CONSTANTS
    Notes = {n1, n2}
    Capacity = 2
    MaxCommands = 6
    MaxPanics = 0
INVARIANT
    QuietKeysAreSilent

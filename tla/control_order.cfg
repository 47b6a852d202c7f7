SPECIFICATION MCSpec
CONSTANTS
    Layers = {"A", "B"}
    Params = {p, q}
    Values = {1, 2}
    Modes = {m1, m2}
    Splits = {1}
    Capacity = 3
    MaxSent = 6
    Sets = {"edit", "mode", "split", "param"}
    Names = {"edited", "B"}
CHECK_DEADLOCK FALSE
INVARIANTS
    TypeOK
    QueueKeepsOrder
    ModeAndSplitStand

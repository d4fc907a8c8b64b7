SPECIFICATION Spec
CONSTANTS
    merged = merged
    source = source
    single = single
    w1 = w1
    w2 = w2
    Processes = {p1}
    Items <- MCItems
    Windows <- MCWindows
    WindowOf <- MCWindowOf
    GroupOf <- MCGroupOf
    Unsound = {source}
    BatchLimit = 64
    MaxForeignMoves = 0
    MaxCrashes = 1
INVARIANTS
    MergesWhole
CHECK_DEADLOCK FALSE

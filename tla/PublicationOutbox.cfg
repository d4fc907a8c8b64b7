SPECIFICATION Spec
CONSTANTS
    merged = merged
    source = source
    single = single
    w1 = w1
    w2 = w2
    Processes = {p1, p2}
    Items <- MCItems
    Windows <- MCWindows
    WindowOf <- MCWindowOf
    GroupOf <- MCGroupOf
    Unsound = {single}
    BatchLimit = 1
    MaxForeignMoves = 1
    MaxCrashes = 1
SYMMETRY ProcessSymmetry
INVARIANTS
    DoneMeansPublished
    ForeignCommitsKept
    MergesWhole
PROPERTIES
    ImplementsDelivery
CHECK_DEADLOCK FALSE

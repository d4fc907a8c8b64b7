SPECIFICATION FairSpec
CONSTANTS
    merged = merged
    source = source
    single = single
    w1 = w1
    w2 = w2
    Processes = {p1}
    Items <- MCItems
    Windows <- MCWindows
    WindowOf <- MCWindowOf
    GroupOf <- MCGroupOf
    Unsound = {single}
    BatchLimit = 1
    MaxForeignMoves = 1
    MaxCrashes = 1
PROPERTIES
    EventuallyDelivered
CHECK_DEADLOCK FALSE

CONSTANTS
    p1 = p1
    p2 = p2
    plain = plain
    bounded1 = bounded1
    bounded2 = bounded2
    oneShot = oneShot
    remote = remote
    Nobody = Nobody
    Processes <- MCProcesses
    Calls <- MCCalls
    HomeOf <- MCHomeOf
    Bounded <- MCBounded
    Trying <- MCTrying
    MaxCrashes = 1
SPECIFICATION FairSpec
INVARIANTS
    BusyNeverRuns
PROPERTIES
    ImplementsSection
    EveryCallAnswered
CHECK_DEADLOCK FALSE

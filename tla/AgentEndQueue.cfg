\* Submissions are bounded, so the drained queue stops.
CHECK_DEADLOCK FALSE
SPECIFICATION FairSpec
CONSTANTS
    k1 = k1
    k2 = k2
    k3 = k3
    Keys <- MCKeys
    Waiters = {x1}
    MaxGlobalConcurrent = 2
    MaxEnqueues <- MCMaxEnqueues
    MaxImmediates = 2
INVARIANTS
    SerialPerKeyUnderCap
    NoLostWakeup
    LatestNeverDropped
PROPERTIES
    ImplementsCoalescing
    EveryKeyServed
    WaitersReleased

CONSTANTS
    p1 = p1
    p2 = p2
    c1 = c1
    c2 = c2
    Procs <- MCProcs
    Contents <- MCContents
    Budget = 2
    MaxFaults = 2
    MaxForeign = 1
SPECIFICATION FairSpec
INVARIANTS
    JournalSound
    PublishedStays
    IndexAgrees
PROPERTIES
    ReportTruthful
    EventuallyDurable
CHECK_DEADLOCK FALSE

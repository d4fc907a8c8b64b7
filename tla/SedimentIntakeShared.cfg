SPECIFICATION Spec
CONSTANTS
    Processes = {p1, p2}
    MaxWindowEntries = 1
    LongEntries = {}
    MaxBranchEntryIds = 1
    Drafts = {1}
    LegacyEntries = 0
    MaxDrains = 0
    MaxEntries = 2
    MaxCrashes = 1
SYMMETRY ProcessSymmetry
INVARIANTS
    TypeOK
    AckedMeansEvaluated
    WatermarkMeansEvaluated
    CoveredDraftsWritten
    UnhealthyTurnsWait
CHECK_DEADLOCK FALSE
PROPERTIES
    QueuesAsCoalescing

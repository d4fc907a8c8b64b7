SPECIFICATION FairSpec
CONSTANTS
    Processes = {p1}
    MaxWindowEntries = 1
    LongEntries = {}
    MaxBranchEntryIds = 3
    Drafts = {}
    LegacyEntries = 0
    MaxDrains = 1
    MaxEntries = 2
    MaxCrashes = 1
INVARIANTS
    LoopDecidesSubsequence
PROPERTIES
    EveryTurnAcked
    Quiesces
CHECK_DEADLOCK FALSE

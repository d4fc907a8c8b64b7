SPECIFICATION Spec
CONSTANTS
    Processes = {p1}
    MaxWindowEntries = 3
    LongEntries = {}
    MaxBranchEntryIds = 3
    Drafts = {1, 2}
    LegacyEntries = 0
    MaxDrains = 0
    MaxEntries = 3
    MaxCrashes = 0
PROPERTIES
    RetriesSkipApplied
CHECK_DEADLOCK FALSE

SPECIFICATION Spec
CONSTANTS
    Processes = {p1}
    MaxWindowEntries = 2
    LongEntries = {}
    MaxBranchEntryIds = 3
    Drafts = {}
    LegacyEntries = 0
    MaxDrains = 0
    MaxEntries = 3
    MaxCrashes = 0
PROPERTIES
    CompactionRetainsSuffix
CHECK_DEADLOCK FALSE

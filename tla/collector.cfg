SPECIFICATION CollectorSpec
CONSTANTS
    i1 = i1
    i2 = i2
    u1 = u1
    u2 = u2
    Inodes = {i1, i2}
    SystemInodes = {i2}
    Uids = {u1, u2}
    MaxFaults = 1
    NoCgroup = NoCgroup
    System = System
    Rows = 2
    MaxWindows = 3
    MaxErrors = 2
    MaxCrashes = 1
CHECK_DEADLOCK FALSE
INVARIANTS CacheFresh ScoredOnce ScoredIsOnDisk CsvInOrder
PROPERTIES AttributionHeals EmitEnds

SPECIFICATION Spec
CONSTANTS
    t1 = t1
    t2 = t2
    Threads = {t1, t2}
    MaxDay = 2
    MaxAppends = 2
    MaxRows = 2
    MaxErrors = 0
    MaxCrashes = 0
    Free = Free
CHECK_DEADLOCK FALSE
INVARIANT OneHeader

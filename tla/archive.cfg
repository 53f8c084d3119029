SPECIFICATION FairSpec
CONSTANTS
    t1 = t1
    t2 = t2
    Threads = {t1, t2}
    MaxDay = 2
    MaxAppends = 3
    MaxRows = 2
    MaxErrors = 1
    MaxCrashes = 1
    Free = Free
CHECK_DEADLOCK FALSE
INVARIANT HeadersUnlessFault
PROPERTIES  LockReleased

SPECIFICATION Spec
CONSTANTS
    t1 = t1
    t2 = t2
    Threads = {t1, t2}
    Scores = {1}
    Threshold = 1
    Baked = {"model", "noise_model", "noise_baseline", "policy", "triage"}
    MaxBatch = 1
    MaxRequests = 2
    MaxWrites = 1
    MaxRestarts = 0
    Serialized = FALSE
    None = None
    Absent = Absent
    Torn = Torn
SYMMETRY Symmetry
CHECK_DEADLOCK FALSE
INVARIANT EveryScoredRowArchived

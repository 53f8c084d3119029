SPECIFICATION LabelerSpec
CONSTANTS
    m1 = m1
    m2 = m2
    q1 = q1
    q2 = q2
    Voters = {m1, m2}
    Groups = {q1, q2}
    Batches <- MCBatches
CHECK_DEADLOCK FALSE
INVARIANT EveryModelAgrees

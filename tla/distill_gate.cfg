SPECIFICATION DistillSpec
CONSTANTS
    r1 = r1
    r2 = r2
    Replicas = {r1, r2}
    MaxTrainings = 2
    MaxTrainerFaults = 1
    MaxExecFaults = 0
    NoFile = NoFile
    Cut = Cut
CHECK_DEADLOCK FALSE
INVARIANT GateHolds

SPECIFICATION Spec
CONSTANTS
    Callers = {c1, c2}
    Messages = {1, 2, 3}
    MaxBatch = 2
    Capacity = 2
    Batches <- MCBatches
INVARIANT AckedNeverLost
CHECK_DEADLOCK FALSE

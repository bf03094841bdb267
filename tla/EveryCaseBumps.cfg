SPECIFICATION Spec
CONSTANTS
    Callers = {1, 2, 3}
    Areas <- MCAreas
    MaxFailures = 1
INVARIANTS
    EveryCaseBumps
CHECK_DEADLOCK FALSE

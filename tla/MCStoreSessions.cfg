SPECIFICATION FairSpec
CONSTANTS
    Callers = {1, 2, 3}
    Areas <- MCAreas
    MaxFailures = 1
INVARIANTS
    KeysSafe
    AuditTellsTruth
    ServedRightly
    NothingLostOrTorn
PROPERTIES
    EveryCallEnds
CHECK_DEADLOCK FALSE

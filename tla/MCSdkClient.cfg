SPECIFICATION FairSpec
CONSTANTS
    maxBatch = 2
    maxBuffered = 3
    maxRetries = 1
    Malformed = {2}
    MaxEvents = 4
    MaxChain = 1
INVARIANTS
    TypeOK
    Accounted
    SentInOrder
    RetriesBounded
    ShutdownDrains
PROPERTIES
    EverythingSettles
CHECK_DEADLOCK FALSE

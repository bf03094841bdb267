SPECIFICATION FairSpec
CONSTANTS
    Callers = {c1, c2}
    Messages = {1, 2, 3}
    MaxBatch = 2
    Capacity = 2
    Batches <- MCBatches
INVARIANTS
    BufferBounded
    BacklogIsAcked
    SoleOwner
    DuplicatesHadLostAck
    AckedSafeWhenSerial
    HealthTruthfulWhenSerial
PROPERTIES
    DrainsOnceConnected

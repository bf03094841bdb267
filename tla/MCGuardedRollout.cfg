SPECIFICATION FairSpec
CONSTANTS
    Rollouts = {r1, r2}
    MaxConcurrent = 1
    MaxChecks = 2
    MaxGrants = 2
INVARIANTS
    PromotionHasEvidence
    AuditTellsExposure
    CapHoldsForSpacedStarts
PROPERTIES
    ExposureNeedsGrantSeen
    RolloutsEnd
CHECK_DEADLOCK FALSE

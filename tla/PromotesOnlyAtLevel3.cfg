SPECIFICATION Spec
CONSTANTS
    Rollouts = {r1, r2}
    MaxConcurrent = 1
    MaxChecks = 2
    MaxGrants = 2
PROPERTY PromotesOnlyAtLevel3
CHECK_DEADLOCK FALSE

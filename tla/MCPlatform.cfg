CONSTANTS
    MaxCrashes = 1
    MaxInserts = 1
    MaxStops = 2
    MaxDeliveries = 2
    MaxMoves = 1
    MaxRuns = 2
    MaxPosts = 2
    MaxDays = 8
    MaxRepeats = 1
    MaxWraps = 2
    MaxSteps = 1
    Services = {"api", "worker"}
    Customers = {"t1"}
    Releases = {0, 12, 20}
    Consumers = {"c1", "c2"}
    Events = {"e1", "e3"}
    Frameworks = {"express", "anthropic-sdk"}
    Scripts = {"typecheck"}
    Registered = {"task_started", "task_completed", "step_executed", "handoff_to_human"}
    NoData = 99
    Levels = {0, 2}
    Contexts = {"k1", "k2"}
    RunIds = {"r1"}
    Included = 1
    Values = {0, 3}
    Gap = 99
    TenantOf <- MCTenantOf
    SessionOf <- MCSessionOf
    Repo <- MCRepo
    Proposals <- MCProposals
    CardNumbers <- MCCardNumbers
    Bodies <- MCBodies
    Traces <- MCTraces
    IngestSettings <- MCIngestSettings
    Jobs <- MCJobs
    Readings <- MCReadings
    Together <- MCTogether
    Calls <- MCCalls
    Rows <- MCRows
    Limits <- MCLimits
    Radius <- MCRadius
SPECIFICATION Spec
INVARIANTS
    DatabasesMigrateSafely
    DataPlaneSafe
    
    IngestRight
    AnalyticsRight
    StatisticsRight
CHECK_DEADLOCK FALSE

SPECIFICATION FairSpec
CONSTANTS
    Events = {"e1", "e2", "e3", "e4", "e5"}
    Regions = {"us", "eu"}
    Entries <- MCEntries
    MaxLog = 2
    MaxCrashes = 1
INVARIANTS
    TypeOK
    NeverSkips
    RollupExactWithoutReplay
PROPERTIES
    ImplementsCommittedLog
    EveryMessageSettles
CHECK_DEADLOCK FALSE

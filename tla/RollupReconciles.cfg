SPECIFICATION Spec
CONSTANTS
    Events = {"e1", "e2", "e3", "e4", "e5"}
    Regions = {"us", "eu"}
    Entries <- MCEntries
    MaxLog = 2
    MaxCrashes = 1
INVARIANT RollupReconciles
CHECK_DEADLOCK FALSE

SPECIFICATION FairSpec
CONSTANTS
    Replicas = {r1}
    None = None
    ConfigTtl = 1
    RefreshFloor = 1
    CacheLife = 3
    Threshold = 2
    MaxOpTicks = 0
    MaxNow = 4
    MaxEdits = 1
    MaxFaults = 2
    Faults <- AllFaults
    Edits <- OneWindow
    Uses <- AllUses
INVARIANTS TypeOK StaleCopyBounded FreshMeansCached OneRefreshAtATime MaintenanceEnforced
PROPERTIES AvailableAgain

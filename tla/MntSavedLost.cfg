SPECIFICATION Spec
CONSTANTS
    Replicas = {r1}
    None = None
    ConfigTtl = 1
    RefreshFloor = 1
    CacheLife = 3
    Threshold = 2
    MaxOpTicks = 0
    MaxNow = 4
    MaxEdits = 1
    MaxFaults = 1
    Faults <- NoFaults
    Edits <- OneWindow
    Uses <- AllUses
INVARIANTS SavedIsEnforced

SPECIFICATION Spec
CONSTANTS
    Replicas = {r1, r2}
    Rotators = {r1, r2}
    None = None
    CacheTtl = 1
    OverlapWindow = 2
    Skew = 0
    RotationDuration = 2
    CheckInterval = 1
    MaxOpTicks = 0
    LegacyStore = FALSE
    MaxNow = 4
    MaxMinted = 2
    MaxFaults = 1
    Faults <- AllFaults
INVARIANTS TypeOK KidsMatchKeys
SYMMETRY ReplicaSymmetry

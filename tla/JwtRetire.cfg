SPECIFICATION Spec
CONSTANTS
    Replicas = {r1, r2}
    Rotators = {r1, r2}
    None = None
    CacheTtl = 2
    OverlapWindow = 3
    Skew = 0
    RotationDuration = 2
    CheckInterval = 1
    MaxOpTicks = 0
    LegacyStore = TRUE
    MaxNow = 6
    MaxMinted = 2
    MaxFaults = 1
    Faults <- LossyReads
INVARIANTS RetiredKeyStopsVerifying RetiredKeyStopsSigning
SYMMETRY ReplicaSymmetry

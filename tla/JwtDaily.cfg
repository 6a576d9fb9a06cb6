SPECIFICATION TokenSpec
CONSTANTS
    Replicas = {r1, r2}
    Rotators = {r1}
    None = None
    CacheTtl = 1
    OverlapWindow = 3
    Skew = 0
    RotationDuration = 8
    CheckInterval = 2
    MaxOpTicks = 0
    LegacyStore = FALSE
    MaxNow = 22
    MaxMinted = 2
    MaxFaults = 1
    Faults <- NoFaults
INVARIANTS TokenTypeOK TokenGuarantee KeyAgeBounded
PROPERTIES ReplacedKeyKept CleanUpOnlyExpired BootstrapOnlyOnFirstRun

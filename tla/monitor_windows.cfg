SPECIFICATION Spec
CONSTANTS
    MaxTime = 6
    Stride = 1
    Steps = 2
    MaxAge = 1
    ScanMaxAge = 1
    ScanTimes = {3}
    Required = 1
    Considered = 2
    Cooldown = 2
    SnapshotEvery = 2
    AssetCases <- FrozenOrTampered
INVARIANTS WindowExact AlarmsExact SidecarCovers
CHECK_DEADLOCK FALSE

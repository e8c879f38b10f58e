SPECIFICATION Spec
CONSTANTS
    MaxTime = 5
    Stride = 1
    Steps = 2
    MaxAge = 1
    ScanMaxAge = 1
    ScanTimes = {1}
    Required = 1
    Considered = 2
    Cooldown = 2
    SnapshotEvery = 2
    AssetCases <- FrozenOrTampered
INVARIANT RowsMatchOffline
CHECK_DEADLOCK FALSE

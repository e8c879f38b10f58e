SPECIFICATION Spec
CONSTANTS
    Families = {"none", "signal", "pose", "semantic", "blockage", "oscillation"}
    CleanPrefix = 1
    Onset = 2
    Duration = 1
    MaxWait = 1
    MaxTime = 4
    MaxLag = 1
    MaxLost = 1
INVARIANT AcceptedInTime
CHECK_DEADLOCK FALSE

SPECIFICATION Spec
CONSTANTS
    MaxRecoveries = 1
    MaxAlarms = 1
    QueueDepth = 1
    MaxRedelivered = 0
    Gates <- Live
    PoliciesUsed <- ForcedBackup
    Nearby <- Open
    Groups <- AnyGroup
    Costs <- SomeCosts
INVARIANTS GuardSeesMeasuredStop StepsWait

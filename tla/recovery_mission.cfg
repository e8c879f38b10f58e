SPECIFICATION FairSpec
CONSTANTS
    MaxRecoveries = 1
    MaxAlarms = 2
    QueueDepth = 1
    MaxRedelivered = 1
    Gates <- LiveOrLocked
    PoliciesUsed <- Learned
    Nearby <- Open
    Groups <- AnyGroup
    Costs <- SomeCosts
INVARIANTS MotionExclusive TerminalHonest
PROPERTIES HandedOver NoSuccessAfterCollision CancelledResumesOrEnds

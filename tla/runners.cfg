SPECIFICATION FairSpec
CONSTANTS
    d1 = d1
    d2 = d2
    d3 = d3
    s1 = s1
    s2 = s2
    NumCampaigns = 2
    NumKeys = 2
    Runners <- Mixed
    Parallel <- TwoDispatchers
    Target <- Crossed
    Workers = 1
    WaveSize = 2
    MaxCrashes = 1
    Monitor = monitor
INVARIANTS OneRunnerPerCampaign OneDispatcher AttemptsAccounted
PROPERTIES InvocationsEnd
CHECK_DEADLOCK FALSE

SPECIFICATION Spec
CONSTANTS
    d1 = d1
    d2 = d2
    d3 = d3
    s1 = s1
    s2 = s2
    NumCampaigns = 2
    NumKeys = 2
    Runners <- TwoSequential
    Parallel <- NoRunners
    Target <- SameCampaign
    Workers = 2
    WaveSize = 2
    MaxCrashes = 0
    Monitor = off
INVARIANTS LedgerExactOnce
CHECK_DEADLOCK FALSE

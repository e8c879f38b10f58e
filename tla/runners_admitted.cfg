SPECIFICATION FairSpec
CONSTANTS
    d1 = d1
    d2 = d2
    d3 = d3
    s1 = s1
    s2 = s2
    NumCampaigns = 2
    NumKeys = 1
    Runners <- OneOfEach
    Parallel <- OneDispatcherOnly
    Target <- Crossed
    Workers = 1
    WaveSize = 2
    MaxCrashes = 0
    Monitor = off
PROPERTIES AdmittedAlone
CHECK_DEADLOCK FALSE

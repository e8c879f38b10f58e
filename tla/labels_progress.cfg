SPECIFICATION TuningSpec
CONSTANTS
    Cases <- Stuck
    Error = 1
    LossSeconds = 2
    LossGap = 2
    Progress = 2
    StuckSeconds = 2
    StuckGap = 1
    Fresh = 1
    History = 1
    Horizon = 3
    TooLate = 1
    Guard = 4
    Stride = 1
    Grid <- MCGrid
    Unit <- MCUnit
    Required = 1
    Considered = 2
    Cooldown = 2
    BudgetPercent = 100
    MaximumCandidates = 5
    Bins = 4
    MaxDropPercent = 2
    TemperatureMaps <- Sharper
    PlattMaps <- Logistic
INVARIANT ImmobilisedByThen
CHECK_DEADLOCK FALSE

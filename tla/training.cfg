SPECIFICATION Spec
CONSTANTS
    Pools <- MCPools
    Selections <- MCSelections
    Families <- MCFamilies
    Clean = "none"
    Kinds <- MCKinds
    Cap = 3
    PhaseBins = 2
    Patience = 2
    MinimumDelta = 1
    MaxEpochs = 4
    Auprcs = {0, 1, 2, 3}
INVARIANTS NothingLeaks CapExact RecordIsComplete
CHECK_DEADLOCK FALSE

SPECIFICATION Spec
CONSTANTS
    WaveSize = 2
    Waves = 1
    MaxKills = 1
    MaxRepairs = 1
INVARIANTS LoggedOnceApart LoggedResolved CompleteIsComplete
CHECK_DEADLOCK FALSE

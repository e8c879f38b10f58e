SPECIFICATION Spec
CONSTANTS
    WaveSize = 2
    Waves = 2
    MaxKills = 1
    MaxRepairs = 0
INVARIANT LoggedOnceApart
CHECK_DEADLOCK FALSE

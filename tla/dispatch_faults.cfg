SPECIFICATION Spec
CONSTANTS
    NumEpisodes = 5
    Systems <- MCSystems
    System <- LastOfS3
    Slots = {w1, w2, w3}
    Cap <- MCCap
    Phase <- OnlyS0
    MaxClaims = 9
    WaveSize = 2
    StopOnFirstInvalid = FALSE
    Interrupts <- Drain
    PriorLedgers <- KilledPrior
    IoFaults <- AllFaults
    FinalizeMayFail = TRUE
INVARIANT ReportsMatchLedger
PROPERTY ImplementsQueue

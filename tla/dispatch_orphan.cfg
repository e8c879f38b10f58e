SPECIFICATION Spec
CONSTANTS
    NumEpisodes = 3
    Systems <- MCSystems
    System <- MCSystem
    Slots = {w1, w2}
    Cap <- MCCap
    Phase <- MCSystems
    MaxClaims = 9
    WaveSize = 2
    StopOnFirstInvalid = TRUE
    Interrupts <- NoInterrupts
    PriorLedgers <- Fresh
    IoFaults <- NoFaults
    FinalizeMayFail = TRUE
INVARIANT NoOrphans

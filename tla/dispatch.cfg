SPECIFICATION FairSpec
CONSTANTS
    NumEpisodes = 5
    Systems <- MCSystems
    System <- MCSystem
    Slots = {w1, w2, w3}
    Cap <- MCCap
    Phase <- MCSystems
    MaxClaims = 4
    WaveSize = 2
    StopOnFirstInvalid = TRUE
    Interrupts <- NoSpace
    PriorLedgers <- SomePrior
    IoFaults <- NoFaults
    FinalizeMayFail = TRUE
INVARIANTS AttemptedOnce CapWaitJustified ResultHonest
PROPERTY Termination

CONSTANTS
  Families <- MCFamilies
  Deficit <- MCDeficit
  Alphabet <- MCAlphabet
  Splits <- MCSplits
  Amendments <- MCAmendments
  Drafts <- MCDrafts
  CliCaps <- MCCliCaps
  TargetedSize = 12
  MinimumPairs = 16
  PilotMaps = 2
  PilotRoutes = 3
  Target = 110
  BalancedSize = 48
  MinimumSupplement = 24
  PerBlock = 6
  Audited = {10, 50}
  HeldMinimum = 24
  SeverityMinimum = 24
  SeedArguments = {0, 1}
  PairedSeeds = 1
  ReplicateOffset = 10
  Workers = {1, 3}
SPECIFICATION DesignSpec
INVARIANTS SeedsApart PlannedIsRunnable WavesWhole CapsHonoured
CHECK_DEADLOCK FALSE

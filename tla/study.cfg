SPECIFICATION Spec
CONSTANTS
    Scenes <- AllScenes
    MaxKills <- KillsOf
    MaxIncomplete = 1
INVARIANTS ProtectedAfterFreeze FrozenStays NoShortReport FoldsAlike
PROPERTIES PlansFinish
CHECK_DEADLOCK FALSE

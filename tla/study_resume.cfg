SPECIFICATION Spec
CONSTANTS
    Scenes <- AllScenes
    MaxKills <- KillsOf
    MaxIncomplete = 1
INVARIANT Resumable
CHECK_DEADLOCK FALSE

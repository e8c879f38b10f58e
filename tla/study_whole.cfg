SPECIFICATION Spec
CONSTANTS
    Scenes <- AllScenes
    MaxKills <- KillsOf
    MaxIncomplete = 1
\* Each of the two is violated; leave one in.
INVARIANT FoldsWhole
INVARIANT EvaluatedWhole
CHECK_DEADLOCK FALSE

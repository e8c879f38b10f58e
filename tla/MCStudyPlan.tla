----------------------------- MODULE MCStudyPlan -----------------------------
EXTENDS StudyPlan
Development == {"targeted", "night", "day"}
Prepared == Development \union {"packet"}
AllScenes ==
    {[before |-> {}, now |-> Development],
     [before |-> Development, now |-> {"packet", "main"}],
     [before |-> Prepared, now |-> {"main"}],
     [before |-> Prepared, now |-> {"main", "severity"}],
     [before |-> Prepared, now |-> {"main", "ablations"}],
     [before |-> Prepared \union {"main", "severity"}, now |-> {"recovery"}]}
\* The main plan alone is killed twice: once in each of two tables of a fold.
KillsOf == [now \in SUBSET PlanNames |-> IF now = {"main"} THEN 2 ELSE 1]
=============================================================================

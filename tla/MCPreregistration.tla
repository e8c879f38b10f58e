-------------------------- MODULE MCPreregistration --------------------------
(* Two fault families, three maps of two routes, and the drafts of an author. *)
EXTENDS Preregistration

MCFamilies == <<[id |-> "camera", family |-> "camera_occlusion", system |-> "s3"],
                [id |-> "oscillation", family |-> "planner_oscillation", system |-> "s0"]>>
MCDeficit == {"camera_occlusion"}
MCAlphabet == <<"camera", "camera_high", "camera_low", "camera_medium", "clean_s0", "clean_s3",
                "dev_0", "dev_1", "dev_2", "oscillation", "oscillation_high", "oscillation_low",
                "oscillation_medium", "test_0", "test_1", "val_0", "val_1">>
MCSplits == [development |-> [maps |-> <<"dev_0", "dev_1", "dev_2">>,
                              routes |-> [m \in {"dev_0", "dev_1", "dev_2"} |-> 3]],
             validation |-> [maps |-> <<"val_0", "val_1">>, routes |-> [m \in {"val_0", "val_1"} |-> 3]],
             held_out_map_test |-> [maps |-> <<"test_0", "test_1">>,
                                    routes |-> [m \in {"test_0", "test_1"} |-> 2]]]
MCAmendments == [PA |-> [approved |-> TRUE,
                         campaigns |-> {"targeted", "held_out", "severity", "paired_v2"},
                         workers |-> 3, report |-> "passed",
                         caps |-> [s \in {"s3"} |-> 2],
                         phases |-> [s \in {"s0", "s3"} |-> IF s = "s0" THEN 3 ELSE 1]]]

DevRoutes == MapRoutes("development", [m \in {"dev_0", "dev_1", "dev_2"} |-> 2])
GoodBalanced ==
  [Manifest("balanced", "", "development", 800000, DevRoutes, Controls \o Faults)
     EXCEPT !.layout = "narrow", !.replicates = <<0, 1>>, !.expected = 48, !.perCondition = 12,
            !.wave = 8, !.planned = FALSE]
BalancedDrafts ==
  {GoodBalanced,
   [GoodBalanced EXCEPT !.replicates = <<0, 10>>],              \* narrow seeds overlap
   [GoodBalanced EXCEPT !.conditions[1].reps = <<0>>]}          \* a condition short of a replicate

GoodTargeted ==
  [Manifest("targeted", "targeted_event_floor", "development", 1000000, DevRoutes,
            WithReps(<<Faults[1]>>, <<10, 11>>)) EXCEPT !.planned = FALSE]
TargetedDrafts ==
  {GoodTargeted,
   [GoodTargeted EXCEPT !.wave = 4],
   [GoodTargeted EXCEPT !.conditions[1].reps = <<10, 10>>]}      \* a replicate named twice
(* The author errs in one of the two at most. *)
MCDrafts ==
  {[id \in {"balanced", "targeted"} |-> IF id = "balanced" THEN d[1] ELSE d[2]] :
     d \in (BalancedDrafts \X {GoodTargeted}) \cup ({GoodBalanced} \X TargetedDrafts)}
MCCliCaps == {<<>>, [s \in {"s3"} |-> 1], [s \in {"s3"} |-> 3]}
=============================================================================

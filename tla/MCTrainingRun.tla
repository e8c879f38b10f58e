--------------------------- MODULE MCTrainingRun ---------------------------
(* Values for the constants of TrainingRun: small pools, some of which hold *)
(* an episode that must not be used.                                        *)
EXTENDS TrainingRun

Good(run, family, labels) ==
    [run |-> run, split |-> "development", protected |-> FALSE, family |-> family,
     labels |-> labels, intact |-> TRUE, decisions |-> "absent"]
Manifest(records) == [published |-> TRUE, records |-> records]

MCFamilies == {"none", "scan", "planner"}

LongClean == Good(1, "none", <<0, 0, 0, 0, 0>>)
Scan == Good(2, "scan", <<0, 0, 0, 0, 1>>)
Planner == Good(3, "planner", <<0, 1>>)
Protected == [Planner EXCEPT !.protected = TRUE]
Selected == [Good(4, "scan", <<0, 1>>) EXCEPT !.split = "validation", !.decisions = "good"]
Quiet == [Selected EXCEPT !.labels = <<0, 0>>]

MCPools == {<<Manifest(<<Scan, LongClean>>), Manifest(<<Planner>>)>>,
            <<Manifest(<<LongClean>>), Manifest(<<Protected>>)>>,
            <<Manifest(<<LongClean, Selected>>)>>,
            <<Manifest(<<Scan>>), Manifest(<<[LongClean EXCEPT !.intact = FALSE]>>)>>,
            <<Manifest(<<Scan, Scan>>)>>, <<Manifest(<<>>)>>, <<[published |-> FALSE, records |-> <<Scan>>]>>,
            <<Manifest(<<Scan>>)>>}
Clear == [Selected EXCEPT !.run = 5, !.family = "none"]
MCSelections == {Manifest(<<Selected, Clear>>), Manifest(<<Quiet>>),
                 Manifest(<<[Selected EXCEPT !.decisions = "bad"], Clear>>)}
MCKinds == {"learned", "autoencoder", "oracle"}
=============================================================================

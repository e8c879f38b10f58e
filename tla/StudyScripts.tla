---------------------------- MODULE StudyScripts ----------------------------
(***************************************************************************)
(* The scripts of the study, as what each does to the files it shares with *)
(* the others: what makes it refuse, what it reads, what it publishes and  *)
(* in which order.  A file is <<kind, owner>> or, for the tables of a      *)
(* predictor, <<kind, predictor, owner>>: the owner is a dataset, a        *)
(* predictor, a part of the study or the study itself.                     *)
(***************************************************************************)
EXTENDS Sequences

File == (STRING \X STRING) \union (STRING \X STRING \X STRING)
Script == [refuse : SUBSET File,   \* refused when one of these exists,
           need : SUBSET File,     \* or one of these does not,
           whole : SUBSET File,    \* or one of these is not complete,
           paired : SUBSET File,   \* or one of these lacks an episode,
           gate : {"none", "ablations", "confirmatory"},
           from : SUBSET File,     \* the outputs are no better than these
           writes : Seq(File),     \* published one after the other
           streams : SUBSET File,  \* of those: written row by row
           inplace : SUBSET File,  \* of those: replaced, not published
           aside : SUBSET File,    \* moved away before the script starts
           chance : BOOLEAN]       \* may publish an incomplete record

Bare == [refuse |-> {}, need |-> {}, whole |-> {}, paired |-> {}, gate |-> "none",
         from |-> {}, writes |-> <<>>, streams |-> {}, inplace |-> {}, aside |-> {},
         chance |-> FALSE]

(* A script, or a stage, with other values of some fields.                 *)
With(r, fields) == [x \in DOMAIN r |-> IF x \in DOMAIN fields THEN fields[x] ELSE r[x]]
Does(fields) == With(Bare, fields)

Freeze == <<"freeze", "study">>
Alarm == <<"alarm", "study">>            \* the threshold in alarm_policy.yaml
Rules == <<"rules", "study">>            \* baseline_rules.yaml, frozen
Secondary == <<"secondary", "study">>
Assignment == <<"assignment", "study">>  \* the record of the protected split
Splits == <<"splits", "study">>          \* its maps in the split manifest
Learned == {"p3", "p4"}
Raw(m, d) == <<"raw", m, d>>
Calibrated(m, d) == <<"calibrated", m, d>>
Alarmed(m, d) == <<"alarmed", m, d>>
Kept(m, d) == <<"kept", m, d>>
Report(name) == <<"report", name>>
Model(m) == {<<"checkpoint", m>>, <<"record", m>>}

----------------------------------------------------------------------------
(* Datasets: from a campaign to the decisions the predictors score.        *)

(* A completion record, or a cumulative report: what the summaries and the *)
(* ledger show when it is written, complete or not.                        *)
FinalizeCampaign(d, aside) ==
    Does([need |-> {<<"manifest", d>>}, refuse |-> {<<"completion", d>>} \ aside, aside |-> aside,
          writes |-> <<<<"completion", d>>>>, chance |-> TRUE])

BuildCampaignInventory(d, gate) ==
    Does([refuse |-> {<<"inventory", d>>, <<"dataset", d>>}, whole |-> {<<"completion", d>>},
          gate |-> gate, writes |-> <<<<"inventory", d>>, <<"dataset", d>>>>])

ExtractSequences(d, gate) ==
    Does([need |-> {<<"inventory", d>>}, refuse |-> {<<"extraction", d>>, <<"sequences", d>>},
          gate |-> gate, writes |-> <<<<"extraction", d>>, <<"sequences", d>>>>])

AssembleDecisions(d, gate) ==
    Does([need |-> {<<"extraction", d>>}, refuse |-> {<<"decisions_manifest", d>>}, gate |-> gate,
          writes |-> <<<<"decisions_manifest", d>>, <<"decisions", d>>>>])

----------------------------------------------------------------------------
(* Prediction tables.                                                      *)

(* The validation rows are those of the supplementary dataset.             *)
Dataset(d) == IF d = "validation" THEN "supplement" ELSE d

PredictDecisions(m, d, gate) ==
    Does([need |-> Model(m) \union {<<"decisions_manifest", Dataset(d)>>}, gate |-> gate,
          refuse |-> {Raw(m, d), <<"provenance", m, d>>},
          writes |-> <<Raw(m, d), <<"provenance", m, d>>>>])

(* P1 is written row by row into the table itself.                         *)
PredictThresholdRules(rules, d, gate) ==
    Does([need |-> {<<"extraction", d>>}, whole |-> {rules}, refuse |-> {Raw("p1", d)},
          gate |-> gate, writes |-> <<Raw("p1", d)>>, streams |-> {Raw("p1", d)}])

ApplyCalibration(m, source, calibrator, d, gate) ==
    Does([need |-> {source, calibrator}, refuse |-> {Calibrated(m, d)}, from |-> {source},
          gate |-> gate, writes |-> <<Calibrated(m, d)>>])

ApplyAlarmPolicy(m, source, d, gate) ==
    Does([need |-> {source, Alarm} \union (IF m \in Learned \ {"p3"} THEN {Secondary} ELSE {}),
          refuse |-> {Alarmed(m, d)}, from |-> {source}, gate |-> gate,
          writes |-> <<Alarmed(m, d)>>])

----------------------------------------------------------------------------
(* Model development: everything is selected on the validation dataset.    *)

TuneThresholdRules(record, table, rules) ==
    Does([need |-> {<<"decisions", "supplement">>}, refuse |-> {table, record} \union rules,
          writes |-> <<table, record>> \o (IF rules = {} THEN <<>> ELSE <<CHOOSE r \in rules : TRUE>>),
          streams |-> {table}])

(* The directory is made first, and no run may find it.                    *)
TrainPredictor(m) ==
    Does([need |-> {<<"decisions", "supplement">>}, refuse |-> {<<"directory", m>>},
          writes |-> <<<<"directory", m>>, <<"checkpoint", m>>, <<"record", m>>>>])

MeasureLatency(m) ==
    Does([need |-> Model(m), refuse |-> {<<"latency", m>>}, writes |-> <<<<"latency", m>>>>])

SelectCalibration(m, source) ==
    Does([need |-> {source}, refuse |-> {<<"calibration", m>>, <<"calibrator", m>>},
          writes |-> <<<<"calibrator", m>>, <<"calibration", m>>>>])

SelectAlarmThreshold(m, source) ==
    Does([need |-> {source}, refuse |-> {<<"threshold", m>>}, writes |-> <<<<"threshold", m>>>>])

ComparePredictors ==
    Does([need |-> {Raw("p1", "validation")} \union {Calibrated(m, "validation") : m \in Learned}
                   \union {<<"latency", m>> : m \in Learned},
          refuse |-> {Report("comparison")}, writes |-> <<Report("comparison")>>])

ValidateAlarmPolicy ==
    Does([need |-> {Calibrated("p3", "validation")}, refuse |-> {Report("alarm_policy")},
          writes |-> <<Report("alarm_policy")>>])

SelectSeed ==
    Does([need |-> {Report("comparison")}, refuse |-> {Report("seeds")},
          writes |-> <<Report("seeds")>>])

----------------------------------------------------------------------------
(* The freeze, the protected split and the designs that need it.           *)

FreezeRules ==
    Does([need |-> {Report("seeds"), <<"tuning", "study">>}, writes |-> <<Rules>>,
          inplace |-> {Rules}])

FreezeSecondary ==
    Does([need |-> {Report("seeds")} \union Model("p4")
                   \union {<<"calibrator", "p4">>, <<"threshold", "p4">>},
          refuse |-> {Secondary}, writes |-> <<Secondary>>])

FreezeModelAgain ==
    Does([need |-> {<<"calibration", "p3">>, <<"calibrator", "p3">>, <<"threshold", "p3">>,
                    Calibrated("p3", "validation")} \union Model("p3"),
          writes |-> <<Freeze, Alarm>>, inplace |-> {Freeze, Alarm}])

FreezeModel ==
    Does([need |-> {<<"calibration", "p3">>, <<"calibrator", "p3">>, <<"threshold", "p3">>,
                    Calibrated("p3", "validation")} \union Model("p3"),
          refuse |-> {Freeze, Alarm}, writes |-> <<Freeze, Alarm>>, inplace |-> {Alarm}])

AssignProtectedSplit ==
    Does([need |-> {Freeze, Alarm}, refuse |-> {Splits, Assignment},
          writes |-> <<Assignment, Splits>>, inplace |-> {Splits}])

BuildConfirmatoryManifests ==
    Does([need |-> {Splits, Assignment, Freeze}, refuse |-> {<<"manifest", "held">>, <<"manifest", "severity">>},
          writes |-> <<<<"manifest", "held">>, <<"manifest", "severity">>>>])

BuildRecoveryPilot ==
    Does([refuse |-> {<<"manifest", "pilot">>}, writes |-> <<<<"manifest", "pilot">>>>])

BuildPairedRecovery ==
    Does([need |-> {Freeze, Splits}, refuse |-> {<<"manifest", "paired">>},
          writes |-> <<<<"manifest", "paired">>>>])

CheckReadiness == Does([gate |-> "confirmatory"])

----------------------------------------------------------------------------
(* Confirmatory analyses.                                                  *)

EvaluateConfirmatory ==
    LET tables == {Alarmed(m, "held") : m \in Learned \union {"p1"}} IN
    Does([need |-> tables \union {Freeze, Alarm, Calibrated("p3", "validation")}, paired |-> tables,
          gate |-> "confirmatory", refuse |-> {Report("held")}, from |-> tables,
          writes |-> <<Report("held")>>])

EvaluateConcurrencyShift(d) ==
    Does([need |-> {Calibrated("p3", d), <<"decisions", d>>}, refuse |-> {Report(d)},
          writes |-> <<Report(d)>>])

(* The folds of an unseen fault family, one family standing for the seven. *)
FilterRows(m, source, target) ==
    Does([need |-> {source}, refuse |-> {target}, from |-> {source}, writes |-> <<target>>,
          streams |-> {target}])

FoldThreshold ==
    Does([need |-> {<<"rules", "fold">>, <<"tuning", "fold">>}, refuse |-> {<<"p1.threshold", "fold">>},
          writes |-> <<<<"p1.threshold", "fold">>>>])

FoldPolicy(m, source, threshold) ==
    Does([need |-> {source, threshold}, refuse |-> {Alarmed(m, "fold")}, from |-> {source},
          writes |-> <<Alarmed(m, "fold")>>, streams |-> {Alarmed(m, "fold")}])

EvaluateFolds ==
    LET tables == {Alarmed("p3", "fold"), Alarmed("p1", "fold")} IN
    Does([paired |-> tables, gate |-> "confirmatory", refuse |-> {Report("folds")}, from |-> tables,
          writes |-> <<Report("folds")>>])

AuditNaturalFailures ==
    Does([need |-> {<<"extraction", "supplement">>, Calibrated("p3", "validation")},
          refuse |-> {Report("natural")}, writes |-> <<Report("natural")>>])

AnalyzeHypotheses(need, name) ==
    Does([need |-> need, refuse |-> {Report(name), <<"text", name>>},
          writes |-> <<Report(name), <<"text", name>>>>])

(* Ablations: the fit and its predictions are reused, the calibrated table *)
(* is written again.                                                       *)
ReportAblations ==
    Does([need |-> {Raw("ablation", "validation")}, refuse |-> {Report("ablations")}, gate |-> "ablations",
          aside |-> {Calibrated("ablation", "validation")},
          writes |-> <<Calibrated("ablation", "validation"), Report("ablations")>>])

ScoreAblations ==
    Does([need |-> {Report("ablations"), Calibrated("p3", "held"), Alarmed("p3", "held"),
                    Raw("ablation", "held")},
          gate |-> "confirmatory", writes |-> <<Report("held_ablations")>>,
          streams |-> {Report("held_ablations")}])

----------------------------------------------------------------------------
(* Recovery.                                                               *)

BuildOutcomeTable(d) ==
    Does([need |-> {<<"manifest", d>>}, refuse |-> {<<"outcomes", d>>},
          writes |-> <<<<"outcomes", d>>, <<"outcomes_provenance", d>>>>])

BuildCostTable ==
    Does([need |-> {<<"outcomes", "pilot">>, <<"manifest", "pilot">>}, refuse |-> {<<"costs", "pilot">>},
          writes |-> <<<<"costs", "pilot">>, <<"costs_provenance", "pilot">>>>])

TrainSelector ==
    Does([need |-> {<<"costs", "pilot">>}, refuse |-> {<<"selector", "study">>},
          writes |-> <<<<"selector", "study">>>>])

AnalyzePairedRecovery ==
    Does([need |-> {<<"outcomes", "paired">>, Freeze}, refuse |-> {Report("paired")},
          writes |-> <<Report("paired")>>])
=============================================================================

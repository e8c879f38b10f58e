------------------------------ MODULE StudyPlan ------------------------------
(***************************************************************************)
(* The plans of the study and the files they share.  A plan is a list of   *)
(* stages; it skips a stage whose output exists and runs its script        *)
(* otherwise.  A plan may be killed at any step, with the script it runs,  *)
(* and is started again from its first stage.                              *)
(*                                                                         *)
(* Nothing but the files is kept over a restart.  What a kill leaves of a  *)
(* table that is written row by row is "part" (episodes are missing) or    *)
(* "cut" (the last episode lacks rows); a completion record that is        *)
(* written before its campaign is finished is "part" too.                  *)
(***************************************************************************)
EXTENDS StudyScripts, Integers, SequencesExt, FiniteSetsExt

CONSTANTS
    Scenes,         \* the instances: plans that ended before, and plans that run
    MaxKills,       \* bound: kills, by the plans that run
    MaxIncomplete   \* bound: campaigns found incomplete or not passed

PlanNames == {"targeted", "night", "day", "packet", "main", "severity", "recovery", "ablations"}

----------------------------------------------------------------------------
(* Plans.  await: polled until complete; skip: the stage is skipped when   *)
(* one exists; done: or when all are complete; must: its failure ends the  *)
(* plan; after: what must be complete once it ran.                         *)

Stage(script, skip) ==
    [do |-> script, await |-> {}, skip |-> skip, done |-> {}, must |-> TRUE, after |-> {}]
Optional(stage) == [stage EXCEPT !.must = FALSE]
Optionals(stages) == [i \in DOMAIN stages |-> Optional(stages[i])]
Unless(skip, stages) == [i \in DOMAIN stages |-> [stages[i] EXCEPT !.skip = @ \union skip]]
Await(files) == [Stage(Bare, {}) EXCEPT !.await = files]

Campaign(d, aside) ==
    [Stage(FinalizeCampaign(d, aside), {}) EXCEPT !.done = {<<"completion", d>>},
                                                  !.after = {<<"completion", d>>}]
PhasedCampaignInPlace(d) == Campaign(d, {})
(* An earlier, incomplete completion record makes way for the next one.    *)
PhasedCampaign(d) == Campaign(d, {<<"completion", d>>})

Derive(d, gate) ==
    <<Stage(BuildCampaignInventory(d, gate), {<<"inventory", d>>}),
      Stage(ExtractSequences(d, gate), {<<"sequences", d>>}),
      Stage(AssembleDecisions(d, gate), {<<"decisions", d>>})>>

(* finalize_nonmodel_collection refuses half an inventory.                 *)
AwaitAndDerive(d) ==
    <<Await({<<"completion", d>>}), Stage(BuildCampaignInventory(d, "none"), {<<"dataset", d>>})>>
        \o Tail(Derive(d, "none"))

ScoreLearned(m, d) ==
    <<Stage(PredictDecisions(m, d, "confirmatory"), {Raw(m, d)}),
      Stage(ApplyCalibration(m, Raw(m, d), <<"calibrator", m>>, d, "confirmatory"),
            {Calibrated(m, d)}),
      Stage(ApplyAlarmPolicy(m, Calibrated(m, d), d, "confirmatory"), {Alarmed(m, d)})>>

Score(d) ==
    ScoreLearned("p3", d) \o ScoreLearned("p4", d) \o
    <<Stage(PredictThresholdRules(Rules, d, "confirmatory"), {Raw("p1", d)}),
      Stage(ApplyAlarmPolicy("p1", Raw("p1", d), d, "confirmatory"), {Alarmed("p1", d)})>>

DevelopLearned(m) ==
    LET raw == Raw(m, "validation") IN
    <<Stage(TrainPredictor(m), {<<"record", m>>}),
      Stage(PredictDecisions(m, "validation", "none"), {raw}),
      Stage(MeasureLatency(m), {<<"latency", m>>}),
      Stage(SelectCalibration(m, raw), {<<"calibration", m>>}),
      Stage(ApplyCalibration(m, raw, <<"calibrator", m>>, "validation", "none"),
            {Calibrated(m, "validation")}),
      Stage(SelectAlarmThreshold(m, Calibrated(m, "validation")), {<<"threshold", m>>})>>

ModelDevelopment ==
    <<Stage(TuneThresholdRules(<<"tuning", "study">>, Raw("p1", "validation"), {}),
            {<<"tuning", "study">>})>>
    \o DevelopLearned("p3") \o DevelopLearned("p4")
    \o <<Stage(ComparePredictors, {Report("comparison")}),
         Stage(ValidateAlarmPolicy, {Report("alarm_policy")})>>

(* The shift check of the night plan: what fails is logged, not raised.    *)
ShiftCheck ==
    Unless({Report("check")},
        Derive("check", "none")
        \o <<Stage(PredictDecisions("proxy", "check", "none"), {Raw("proxy", "check")}),
             Stage(ApplyCalibration("p3", Raw("proxy", "check"), <<"calibrator", "proxy">>, "check",
                                    "none"), {Calibrated("p3", "check")}),
             Stage(EvaluateConcurrencyShift("check"), {})>>)

(* The predictions of a fold go into a table of its own.                   *)
PredictInto(raw, script) ==
    With(script, [writes |-> <<raw, script.writes[2]>>, refuse |-> {raw}])

FitFold ==
    LET raw == Raw("p3", "fold_validation")
        kept == Kept("p3", "fold_validation")
        cal == Calibrated("p3", "fold_validation") IN
    <<Stage(TrainPredictor("fold"), {<<"record", "fold">>}),
      Stage(PredictInto(raw, PredictDecisions("fold", "validation", "none")), {raw}),
      Stage(FilterRows("p3", raw, kept), {kept}),
      Stage(SelectCalibration("fold", kept), {<<"calibrator", "fold">>}),
      Stage(ApplyCalibration("p3", kept, <<"calibrator", "fold">>, "fold_validation", "none"), {cal}),
      Stage(SelectAlarmThreshold("fold", cal), {<<"threshold", "fold">>}),
      Stage(TuneThresholdRules(<<"tuning", "fold">>, Raw("p1", "fold_validation"),
                               {<<"rules", "fold">>}), {<<"rules", "fold">>}),
      Stage(FoldThreshold, {<<"p1.threshold", "fold">>})>>

EvaluateFold ==
    LET raw == Raw("p3", "fold")
        kept(m) == Kept(m, "fold") IN
    <<Stage(CheckReadiness, {}),
      Stage(PredictInto(raw, PredictDecisions("fold", "held", "confirmatory")), {raw}),
      Stage(With(PredictThresholdRules(<<"rules", "fold">>, "held", "confirmatory"),
                 [writes |-> <<Raw("p1", "fold")>>, streams |-> {Raw("p1", "fold")},
                  refuse |-> {Raw("p1", "fold")}]), {Raw("p1", "fold")}),
      Stage(FilterRows("p3", raw, kept("p3")), {kept("p3")}),
      Stage(FilterRows("p1", Raw("p1", "fold"), kept("p1")), {kept("p1")}),
      Stage(ApplyCalibration("p3", kept("p3"), <<"calibrator", "fold">>, "fold", "confirmatory"),
            {Calibrated("p3", "fold")}),
      Stage(FoldPolicy("p3", Calibrated("p3", "fold"), <<"threshold", "fold">>), {Alarmed("p3", "fold")}),
      Stage(FoldPolicy("p1", kept("p1"), <<"p1.threshold", "fold">>), {Alarmed("p1", "fold")}),
      Stage(EvaluateFolds, {})>>

ProtectedSplit ==
    <<Await({Freeze}), Stage(AssignProtectedSplit, {Splits}),
      Stage(BuildConfirmatoryManifests, {<<"manifest", "held">>}), Stage(CheckReadiness, {})>>

MainPlan ==
    ProtectedSplit \o <<PhasedCampaign("held")>> \o Derive("held", "confirmatory") \o Score("held")
    \o <<Stage(EvaluateConfirmatory, {Report("held")})>>
    \o Unless({Report("folds")}, FitFold \o EvaluateFold)
    \o <<Optional(Stage(AuditNaturalFailures, {Report("natural")})),
         Optional(Stage(AnalyzeHypotheses({Report("held")}, "hypotheses"), {}))>>

(* resume_after_reboot starts it once its manifest exists.                 *)
SeverityPlan ==
    <<Await({<<"manifest", "severity">>})>> \o ProtectedSplit \o <<PhasedCampaign("severity")>>
    \o Derive("severity", "confirmatory") \o Score("severity")

(* The wave finaliser's snapshot of the pilot is moved aside once.         *)
RecoveryPlan ==
    <<Stage(BuildRecoveryPilot, {<<"manifest", "pilot">>}), Await({<<"completion", "severity">>}),
      Campaign("pilot", {}),
      Stage(BuildOutcomeTable("pilot"), {<<"outcomes", "pilot">>}),
      Stage(BuildCostTable, {<<"costs", "pilot">>}),
      Stage(TrainSelector, {<<"selector", "study">>}),
      Stage(BuildPairedRecovery, {<<"manifest", "paired">>}),
      Stage(With(CheckReadiness, [need |-> {<<"selector", "study">>}]), {}),
      PhasedCampaign("paired"),
      Stage(BuildOutcomeTable("paired"), {<<"outcomes", "paired">>}),
      Stage(AnalyzePairedRecovery, {Report("paired")}),
      Stage(With(AnalyzeHypotheses({Report("paired")}, "final"),
                 [aside |-> {Report("final"), <<"text", "final">>}, refuse |-> {}]), {})>>

AblationPlan ==
    <<Await({Freeze, Alarm})>>
    \o Unless({Report("ablations")},
        <<Stage(TrainPredictor("ablation"), {<<"record", "ablation">>}),
          Stage(PredictDecisions("ablation", "validation", "none"), {Raw("ablation", "validation")}),
          Stage(ReportAblations, {})>>)
    \o <<Await({Alarmed("p3", "held")}), Stage(CheckReadiness, {}),
         Stage(PredictDecisions("ablation", "held", "confirmatory"), {Raw("ablation", "held")}),
         Stage(ScoreAblations, {Report("held_ablations")})>>

PacketPlanModelFirst ==
    <<Await({Report("alarm_policy")}), Stage(SelectSeed, {Report("seeds")}),
      Stage(FreezeModel, {}), Stage(FreezeRules, {Rules}), Stage(FreezeSecondary, {Secondary})>>

(* The researcher's: the packet is prepared, then the model is frozen.     *)
PacketPlan ==
    <<Await({Report("alarm_policy")}), Stage(SelectSeed, {Report("seeds")}),
      Stage(FreezeRules, {Rules}), Stage(FreezeSecondary, {Secondary}), Stage(FreezeModel, {})>>

StagesOf ==
    [targeted |-> <<Campaign("targeted", {})>> \o AwaitAndDerive("targeted"),
     night |-> <<Await({<<"decisions", "targeted">>}), Optional(Campaign("check", {}))>>
               \o Optionals(ShiftCheck)
               \o <<Optional(Campaign("supplement", {}))>> \o AwaitAndDerive("supplement"),
     day |-> <<Await({<<"decisions", "supplement">>})>> \o ModelDevelopment,
     packet |-> PacketPlan,
     main |-> MainPlan, severity |-> SeverityPlan, recovery |-> RecoveryPlan,
     ablations |-> AblationPlan]

Scripts == UNION {{StagesOf[p][i].do : i \in DOMAIN StagesOf[p]} : p \in PlanNames}
Given == {<<"manifest", d>> : d \in {"targeted", "check", "supplement"}}
         \union Model("proxy") \union {<<"calibrator", "proxy">>}
Files == Given \union UNION {Range(s.writes) \union s.need \union s.whole \union s.refuse : s \in Scripts}
         \union UNION {UNION {stage.await : stage \in Range(StagesOf[p])} : p \in PlanNames}
OutputsOf(p) == UNION {Range(stage.do.writes) : stage \in Range(StagesOf[p])}

(* held_out_campaign_gate and check_readiness --stage confirmatory, and    *)
(* what run_ablations asks of the freeze: the files each of them reads.    *)
Gate(gate) ==
    CASE gate = "none" -> {}
      [] gate = "ablations" -> {Freeze, Alarm}
      [] gate = "confirmatory" -> {Freeze, Alarm, Splits}

(* Plans that have ended found all their stages wait for and ask for.      *)
Left(before) == Given \union UNION {OutputsOf(p) : p \in before}
Ended(before) ==
    \A p \in before : \A stage \in Range(StagesOf[p]) :
        stage.await \union stage.do.need \union stage.do.whole \union Gate(stage.do.gate) \subseteq Left(before)

ASSUME ScenesOK ==
    /\ Scenes \subseteq [before : SUBSET PlanNames, now : SUBSET PlanNames]
    /\ \A scene \in Scenes : Ended(scene.before)
    /\ MaxKills \in [SUBSET PlanNames -> Nat] /\ MaxIncomplete \in Nat

----------------------------------------------------------------------------
VARIABLES
    plans,       \* the plans of the chosen instance
    file,        \* per file: "no", "part", "cut" or "full"
    st,          \* per plan: "down", "idle", "busy", "done", "held"
    at,          \* per plan: the stage it is at
    todo,        \* per plan: what its script has still to publish
    kills, incomplete   \* bounded by MaxKills, MaxIncomplete

vars == <<plans, file, st, at, todo, kills, incomplete>>

Exists(f) == file[f] # "no"
Full(f) == file[f] = "full"
Torn == {"part", "cut"}

Init ==
    \E scene \in Scenes :
        /\ plans = scene.now
        /\ file = [f \in Files |-> IF f \in Left(scene.before) THEN "full" ELSE "no"]
        /\ st = [p \in scene.now |-> "down"] /\ at = [p \in scene.now |-> 1]
        /\ todo = [p \in scene.now |-> <<>>]
        /\ kills = 0 /\ incomplete = 0

Current(p) == StagesOf[p][at[p]]
Worst(fs) == CASE \A f \in fs : Full(f) -> "full"
               [] \E f \in fs : file[f] \in {"no", "part"} -> "part"
               [] OTHER -> "cut"

GatePasses(gate) == \A f \in Gate(gate) : Exists(f)

AcceptsShort(script) ==
    /\ \A f \in script.refuse : ~Exists(f)
    /\ \A f \in script.need : Exists(f)
    /\ \A f \in script.whole : Full(f)
    /\ GatePasses(script.gate)

(* The tables of a paired evaluation are compared with each other: when all *)
(* of them lack episodes, they may lack the same.                          *)
Short(f) == file[f] = "part"
Alike(fs) == \A f, g \in fs : Short(f) => Short(g)
MayDiffer(fs) == \E f \in fs : Short(f)

Accepts(script) ==
    /\ \A f \in script.refuse : ~Exists(f)
    /\ \A f \in script.need : Exists(f)
    /\ \A f \in script.whole : Full(f)
    /\ Alike(script.paired)
    /\ GatePasses(script.gate)

Skipped(stage, f) ==
    \/ \E x \in stage.skip : f[x] # "no"
    \/ stage.done # {} /\ \A x \in stage.done : f[x] = "full"

(* The plan goes to its first stage from i on that it does not skip.       *)
Goto(p, i) ==
    LET left == {k \in i..Len(StagesOf[p]) : ~Skipped(StagesOf[p][k], file')} IN
    IF left = {} THEN st' = [st EXCEPT ![p] = "done"] /\ UNCHANGED at
    ELSE st' = [st EXCEPT ![p] = "idle"] /\ at' = [at EXCEPT ![p] = Min(left)]
Onward(p) == Goto(p, at[p] + 1)
(* A stage that fails ends its plan, unless the plan does not care.        *)
Fails(p) ==
    IF Current(p).must THEN st' = [st EXCEPT ![p] = "down"] /\ UNCHANGED at ELSE Onward(p)

(* The main plan first moves aside the model directories of folds and      *)
(* ablations that have no checkpoint, those of a running fit included.     *)
Swept == {<<"directory", m>> : m \in {m \in {"fold", "ablation"} : ~Exists(<<"checkpoint", m>>)}}
Start(p) ==
    /\ st[p] = "down"
    /\ file' = [f \in Files |-> IF p = "main" /\ f \in Swept THEN "no" ELSE file[f]]
    /\ Goto(p, 1) /\ UNCHANGED <<todo, kills, incomplete>>

Ready(p) == st[p] = "idle" /\ \A f \in Current(p).await : Full(f)

(* A script refuses before it has written anything.                        *)
Refuse(p) ==
    /\ Ready(p) /\ (~Accepts(Current(p).do) \/ MayDiffer(Current(p).do.paired))
    /\ UNCHANGED <<file, todo, kills, incomplete>> /\ Fails(p)

Launch(p) ==
    /\ Ready(p) /\ Accepts(Current(p).do)
    /\ file' = [f \in Files |-> IF f \in Current(p).do.aside THEN "no" ELSE file[f]]
    /\ IF Current(p).do.writes = <<>> THEN Onward(p) /\ UNCHANGED todo
       ELSE /\ st' = [st EXCEPT ![p] = "busy"]
            /\ todo' = [todo EXCEPT ![p] = Current(p).do.writes]
            /\ UNCHANGED at
    /\ UNCHANGED <<kills, incomplete>>

(* A drain marker, a wedged GPU or an invalid attempt nobody may declare   *)
(* ends the plan in the middle of a campaign; it is not restarted.         *)
Hold(p) ==
    /\ Ready(p) /\ Current(p).after # {} /\ incomplete < MaxIncomplete
    /\ incomplete' = incomplete + 1
    /\ st' = [st EXCEPT ![p] = "held"]
    /\ UNCHANGED <<file, at, todo, kills>>

(* Rows go into a streamed table until it is closed.                       *)
Open(p) ==
    /\ st[p] = "busy" /\ Head(todo[p]) \in Current(p).do.streams /\ ~Exists(Head(todo[p]))
    /\ \E q \in Torn : file' = [file EXCEPT ![Head(todo[p])] = q]
    /\ UNCHANGED <<st, at, todo, kills, incomplete>>

(* A checkpoint that is published makes its directory, if that is gone.    *)
MadeWith(f) == {f} \union (IF f[1] = "checkpoint" THEN {<<"directory", f[2]>>} \intersect Files ELSE {})

Publish(p) ==
    LET script == Current(p).do
        f == Head(todo[p])
        failed == \E g \in Current(p).after : file'[g] # "full" IN
    /\ st[p] = "busy"
    /\ IF f \in script.streams THEN Exists(f) ELSE f \in script.inplace \/ ~Exists(f)
    /\ \/ /\ file' = [g \in Files |-> IF g \in MadeWith(f) THEN Worst(script.from) ELSE file[g]]
          /\ UNCHANGED incomplete
       \/ /\ script.chance /\ incomplete < MaxIncomplete
          /\ file' = [file EXCEPT ![f] = "part"] /\ incomplete' = incomplete + 1
    /\ todo' = [todo EXCEPT ![p] = Tail(@)]
    /\ IF Len(todo[p]) > 1 THEN UNCHANGED <<st, at>>
       ELSE IF failed THEN Fails(p) ELSE Onward(p)
    /\ UNCHANGED kills

(* Another plan published it first: the script fails, and what it had      *)
(* published stays.                                                        *)
Lose(p) ==
    /\ st[p] = "busy" /\ Exists(Head(todo[p]))
    /\ Head(todo[p]) \notin Current(p).do.streams \union Current(p).do.inplace
    /\ todo' = [todo EXCEPT ![p] = <<>>] /\ UNCHANGED <<file, kills, incomplete>> /\ Fails(p)

Kill(p) ==
    /\ st[p] \in {"idle", "busy"} /\ kills < MaxKills[plans]
    /\ kills' = kills + 1
    /\ st' = [st EXCEPT ![p] = "down"] /\ todo' = [todo EXCEPT ![p] = <<>>]
    /\ UNCHANGED <<file, at, incomplete>>

Step(p) == Start(p) \/ Refuse(p) \/ Launch(p) \/ Open(p) \/ Publish(p) \/ Lose(p)
Next == UNCHANGED plans /\ \E p \in plans : Step(p) \/ Hold(p) \/ Kill(p)
Spec == Init /\ [][Next]_vars /\ \A p \in PlanNames : WF_vars(p \in plans /\ UNCHANGED plans /\ Step(p))

----------------------------------------------------------------------------
(* No protected episode is derived or scored before everything its scoring *)
(* uses is frozen: the model freeze, the alarm threshold, the P1 rules and *)
(* the secondary predictors, and the split itself assigned.                *)
Protected == {"held", "severity", "paired", "fold"}
ProtectedFiles ==
    {<<kind, d>> : kind \in {"inventory", "extraction", "decisions", "outcomes"}, d \in Protected}
    \union {Raw(m, d) : m \in {"p1", "p3", "p4", "ablation"}, d \in Protected}
ProtectedAfterFreeze ==
    (\E f \in Files \intersect ProtectedFiles : Exists(f))
    => \A f \in {Freeze, Alarm, Rules, Secondary, Splits, Assignment} : Full(f)

(* Once the freeze exists no script is about to publish again what it      *)
(* names, whatever was killed and is run once more.                        *)
Frozen == {Freeze, Rules, Secondary, <<"calibrator", "p3">>, <<"calibration", "p3">>,
           <<"threshold", "p3">>, Calibrated("p3", "validation")} \union Model("p3") \union Model("p4")
FrozenStays == Exists(Freeze) => \A p \in plans : Range(todo[p]) \intersect Frozen = {}

(* What lacks episodes goes no further unnoticed: not into the main report, *)
(* as of its tables only P1's can and all are compared, and no incomplete  *)
(* campaign gets an inventory.                                             *)
NoShortReport ==
    /\ ~Short(Report("held"))
    /\ \A d \in {"targeted", "check", "supplement", "held", "severity"} :
         Exists(<<"inventory", d>>) => Full(<<"completion", d>>)

(* The report of the folds lacks episodes only when the tables of both     *)
(* predictors do: one table that a kill left behind is always found.       *)
FoldsAlike == Short(Report("folds")) => \A m \in {"p1", "p3"} : Short(Alarmed(m, "fold"))

(* With nothing killed or held, and no campaign without a second record    *)
(* found incomplete, every plan ends: the stages produce all they need.    *)
Undisturbed ==
    /\ kills = 0 /\ \A p \in plans : st[p] # "held"
    /\ \A d \in {"targeted", "check", "supplement", "pilot"} : file[<<"completion", d>>] # "part"
PlansFinish == [](Undisturbed) => <>(\A p \in plans : st[p] = "done")

(* The stages of the post-freeze plan are resumable: one that is run again *)
(* is not refused because of what it left behind.                          *)
Resumable == \A p \in plans \intersect {"main", "severity"} :
    Ready(p) => \A f \in Current(p).do.refuse : ~Exists(f)

(* The report of the folds counts every event of a family.                 *)
FoldsWhole == ~Short(Report("folds"))

(* A confirmatory report is made from whole tables.                        *)
EvaluatedWhole == Exists(Report("held")) => Full(Report("held"))
=============================================================================

----------------------------- MODULE StudyProofs -----------------------------
(* The plans, over the files they share, for any choice of plans that ended  *)
(* before and plans that run, and any number of kills and incomplete         *)
(* campaigns: protected data wait for the freeze, the freeze stays, and what *)
(* lacks episodes does not reach the main report.                            *)
EXTENDS StudyPlan, NaturalsInduction, SequenceTheorems, WellFoundedInduction, TLAPS

Sealed == {Freeze, Alarm, Rules, Secondary, Splits, Assignment}
Selected == {<<"calibrator", "p3">>, <<"calibration", "p3">>, <<"threshold", "p3">>,
             Calibrated("p3", "validation")}
Pairs == <<"manifest", "paired">>
\* The tables of the main report; those of P3, none of which is written row by row,
\* never lack an episode, and then the report does not.
Tables == {Alarmed(m, "held") : m \in {"p1", "p3", "p4"}}
Atomic == {Raw("p3", "held"), Calibrated("p3", "held"), Alarmed("p3", "held")}
Whole == Atomic \union {Report("held")}

-----------------------------------------------------------------------------
(* What holds of every stage, whatever the plans do.                         *)

\* The files that are moved aside, at times.
Loose(f) == \/ f \in {Report("final"), <<"text", "final">>, Calibrated("ablation", "validation")}
            \/ f[1] = "completion"
            \/ f[1] = "directory" /\ f[2] \in {"fold", "ablation"}

Once(w) == \A i, j \in DOMAIN w : w[i] = w[j] => i = j

\* Who writes the files of the freeze, of the fit, of a campaign and of the reports.
Freezes(s, p, f) ==
    /\ f \in {Freeze, Alarm} => s = FreezeModel /\ p = "packet"
    /\ f = Rules => s = FreezeRules /\ p = "packet"
    /\ f = Secondary => s = FreezeSecondary /\ p = "packet"
    /\ f \in {Splits, Assignment} => s = AssignProtectedSplit

Guards(s, p, f) ==
    /\ f \in ProtectedFiles => s.gate = "confirmatory" \/ Pairs \in s.need
    /\ f = Pairs => Splits \in s.need
    /\ f[1] = "inventory" => <<"completion", f[2]>> \in s.whole

Fits(s, p, f) ==
    /\ f \in Selected => p = "day" /\ f \in s.refuse
    /\ f \in Model("p3") => p = "day" /\ s = TrainPredictor("p3")
    /\ f \in Model("p4") => p = "day" /\ s = TrainPredictor("p4")

Reports(s, p, f) ==
    /\ f = Report("held") => s = EvaluateConfirmatory
    /\ f \in Tables \union {Report("held")} => p = "main"
    /\ f \in Atomic => s.from \subseteq Atomic \intersect s.need /\ f \notin s.streams /\ ~s.chance

OwnerOf == [targeted |-> "targeted", check |-> "night", supplement |-> "night", held |-> "main",
            severity |-> "severity", pilot |-> "recovery", paired |-> "recovery"]
Closes(s, p, f) ==
    f[1] = "completion" => f[2] \in DOMAIN OwnerOf /\ p = OwnerOf[f[2]]

Fine(s, p, f) ==
    Freezes(s, p, f) /\ Guards(s, p, f) /\ Fits(s, p, f) /\ Reports(s, p, f) /\ Closes(s, p, f)

Streamed(f) == f[1] \in {"raw", "kept", "alarmed"} \/ f = Report("held_ablations")
Tidy(s) ==
    /\ s.writes \in Seq(Range(s.writes)) /\ Once(s.writes)
    /\ \A f \in s.streams : Streamed(f)
    /\ s.inplace \subseteq Sealed
    /\ s.chance => \E d : s.writes = <<<<"completion", d>>>>
    /\ \A f \in s.aside : Loose(f) /\ f[1] # "directory"

\* A campaign makes way for the next record of it, when the last is incomplete.
Renews(stage) == \A f \in stage.do.aside : f[1] = "completion" => stage.done = {f} /\ stage.do.writes = <<f>>

Good(stage, p) ==
    /\ DOMAIN stage = {"do", "await", "skip", "done", "must", "after"}
    /\ Tidy(stage.do) /\ Renews(stage)
    /\ \A f \in Range(stage.do.writes) : Fine(stage.do, p, f)

Simple(stages, p) ==
    /\ stages \in Seq(Range(stages))
    /\ \A stage \in Range(stages) : Good(stage, p)

\* The kind of a file, and for the rest its owner, tell these sets apart.
LEMMA Kinds ==
  /\ \A f \in Sealed : f[1] \in {"freeze", "alarm", "rules", "secondary", "splits", "assignment"}
                       /\ f[2] = "study"
  /\ Freeze[1] = "freeze" /\ Alarm[1] = "alarm" /\ Rules[1] = "rules" /\ Rules[2] = "study"
  /\ Secondary[1] = "secondary" /\ Splits[1] = "splits" /\ Assignment[1] = "assignment"
  /\ \A f \in ProtectedFiles :
       \/ f[1] \in {"inventory", "extraction", "decisions", "outcomes"} /\ f[2] \in Protected
       \/ f[1] = "raw" /\ f[3] \in Protected
  /\ Pairs[1] = "manifest" /\ Pairs[2] = "paired"
  /\ \A f \in Selected : \/ f[1] \in {"calibrator", "calibration", "threshold"} /\ f[2] = "p3"
                         \/ f[1] = "calibrated" /\ f[2] = "p3" /\ f[3] = "validation"
  /\ \A m : \A f \in Model(m) : f[1] \in {"checkpoint", "record"} /\ f[2] = m
  /\ \A f \in Tables : f[1] = "alarmed" /\ f[3] = "held"
  /\ \A f \in Atomic : f[1] \in {"raw", "calibrated", "alarmed"} /\ f[2] = "p3" /\ f[3] = "held"
  /\ \A name : Report(name)[1] = "report" /\ Report(name)[2] = name
  /\ \A m, d : /\ Raw(m, d)[1] = "raw" /\ Raw(m, d)[2] = m /\ Raw(m, d)[3] = d
               /\ Kept(m, d)[1] = "kept"
               /\ Calibrated(m, d)[1] = "calibrated" /\ Calibrated(m, d)[2] = m /\ Calibrated(m, d)[3] = d
               /\ Alarmed(m, d)[1] = "alarmed" /\ Alarmed(m, d)[2] = m /\ Alarmed(m, d)[3] = d
  <1>1. \A f \in Sealed : f[1] \in {"freeze", "alarm", "rules", "secondary", "splits", "assignment"}
                       /\ f[2] = "study"
    BY DEF Sealed, Freeze, Alarm, Rules, Secondary, Splits, Assignment
  <1>2. /\ Freeze[1] = "freeze" /\ Alarm[1] = "alarm" /\ Rules[1] = "rules" /\ Rules[2] = "study"
        /\ Secondary[1] = "secondary" /\ Splits[1] = "splits" /\ Assignment[1] = "assignment"
    BY DEF Freeze, Alarm, Rules, Secondary, Splits, Assignment
  <1>3. \A f \in ProtectedFiles :
          \/ f[1] \in {"inventory", "extraction", "decisions", "outcomes"} /\ f[2] \in Protected
          \/ f[1] = "raw" /\ f[3] \in Protected
    BY DEF ProtectedFiles, Raw
  <1>4. Pairs[1] = "manifest" /\ Pairs[2] = "paired"
    BY DEF Pairs
  <1>5. \A f \in Selected : \/ f[1] \in {"calibrator", "calibration", "threshold"} /\ f[2] = "p3"
                            \/ f[1] = "calibrated" /\ f[2] = "p3" /\ f[3] = "validation"
    BY DEF Selected, Calibrated
  <1>6. \A m : \A f \in Model(m) : f[1] \in {"checkpoint", "record"} /\ f[2] = m
    BY DEF Model
  <1>7. /\ \A f \in Tables : f[1] = "alarmed" /\ f[3] = "held"
        /\ \A f \in Atomic : f[1] \in {"raw", "calibrated", "alarmed"} /\ f[2] = "p3" /\ f[3] = "held"
    BY DEF Tables, Atomic, Raw, Calibrated, Alarmed
  <1>9. \A name : Report(name)[1] = "report" /\ Report(name)[2] = name
    BY DEF Report
  <1>10. \A m, d : /\ Raw(m, d)[1] = "raw" /\ Raw(m, d)[2] = m /\ Raw(m, d)[3] = d
                   /\ Kept(m, d)[1] = "kept"
                   /\ Calibrated(m, d)[1] = "calibrated" /\ Calibrated(m, d)[2] = m
                   /\ Calibrated(m, d)[3] = d
                   /\ Alarmed(m, d)[1] = "alarmed" /\ Alarmed(m, d)[2] = m /\ Alarmed(m, d)[3] = d
    BY DEF Raw, Kept, Calibrated, Alarmed
  <1>11. QED
    BY <1>1, <1>2, <1>3, <1>4, <1>5, <1>6, <1>7, <1>9, <1>10

\* A short list, its elements, and when none comes twice.
LEMMA Lists ==
  /\ \A a : <<a>> \in Seq(Range(<<a>>)) /\ Range(<<a>>) = {a} /\ Once(<<a>>)
  /\ \A a, b : <<a, b>> \in Seq(Range(<<a, b>>)) /\ Range(<<a, b>>) = {a, b} /\ (a # b => Once(<<a, b>>))
  /\ \A a, b, c : /\ <<a, b, c>> \in Seq(Range(<<a, b, c>>)) /\ Range(<<a, b, c>>) = {a, b, c}
                  /\ a # b /\ b # c /\ a # c => Once(<<a, b, c>>)
  /\ <<>> \in Seq(Range(<<>>)) /\ Range(<<>>) = {} /\ Once(<<>>)
  BY DEF Range, Once

-----------------------------------------------------------------------------
(* The scripts, one after the other.  Most move nothing aside and record no  *)
(* campaign.                                                                 *)

Plain(s) == /\ s.aside = {} /\ s.chance = FALSE
            /\ s.inplace \subseteq Sealed /\ \A f \in s.streams : Streamed(f)

\* A script that moves nothing aside is tidy when it publishes every file once.
LEMMA PlainTidy ==
  ASSUME NEW s, Plain(s), s.writes \in Seq(Range(s.writes)), Once(s.writes)
  PROVE  Tidy(s)
  BY DEF Plain, Tidy

\* What makes every stage that runs the script a good one.
GoodScript(s, p) ==
    /\ Tidy(s) /\ \A f \in s.aside : f[1] # "completion"
    /\ \A f \in Range(s.writes) : Fine(s, p, f)

\* A good script makes a good stage, whatever it is skipped for.
LEMMA StageGood ==
  ASSUME NEW s, NEW p, NEW skip, GoodScript(s, p)
  PROVE  Good(Stage(s, skip), p)
  <1> DEFINE stage == Stage(s, skip)
  <1>1. stage.do = s /\ DOMAIN stage = {"do", "await", "skip", "done", "must", "after"}
    BY DEF Stage
  <1> HIDE DEF stage
  <1>2. Renews(stage)
    BY <1>1 DEF Renews, GoodScript
  <1>3. Good(stage, p)
    BY <1>1, <1>2 DEF Good, GoodScript
  <1>4. QED
    BY <1>3 DEF stage

\* Scripts that publish one, two or three files.
LEMMA One ==
  ASSUME NEW s, NEW p, NEW a, s.writes = <<a>>, Plain(s), Fine(s, p, a)
  PROVE  GoodScript(s, p)
  <1>1. s.writes \in Seq(Range(s.writes)) /\ Once(s.writes) /\ Range(s.writes) = {a}
    BY Lists
  <1>2. Tidy(s)
    BY <1>1, PlainTidy
  <1>3. \A f \in Range(s.writes) : Fine(s, p, f)
    BY <1>1
  <1>4. QED
    BY <1>2, <1>3 DEF Plain, GoodScript

LEMMA Two ==
  ASSUME NEW s, NEW p, NEW a, NEW b, a # b, s.writes = <<a, b>>, Plain(s),
         Fine(s, p, a), Fine(s, p, b)
  PROVE  GoodScript(s, p)
  <1>1. s.writes \in Seq(Range(s.writes)) /\ Once(s.writes) /\ Range(s.writes) = {a, b}
    BY Lists
  <1>2. Tidy(s)
    BY <1>1, PlainTidy
  <1>3. \A f \in Range(s.writes) : Fine(s, p, f)
    BY <1>1
  <1>4. QED
    BY <1>2, <1>3 DEF Plain, GoodScript

LEMMA Three ==
  ASSUME NEW s, NEW p, NEW a, NEW b, NEW c, a # b, a # c, b # c, s.writes = <<a, b, c>>,
         Plain(s), Fine(s, p, a), Fine(s, p, b), Fine(s, p, c)
  PROVE  GoodScript(s, p)
  <1>1. s.writes \in Seq(Range(s.writes)) /\ Once(s.writes) /\ Range(s.writes) = {a, b, c}
    BY Lists
  <1>2. Tidy(s)
    BY <1>1, PlainTidy
  <1>3. \A f \in Range(s.writes) : Fine(s, p, f)
    BY <1>1
  <1>4. QED
    BY <1>2, <1>3 DEF Plain, GoodScript

\* The scripts of StudyScripts, in its order as far as they are plain.
LEMMA InventoryGood ==
  ASSUME NEW p, NEW d, NEW gate, d \in Protected => gate = "confirmatory"
  PROVE  GoodScript(BuildCampaignInventory(d, gate), p)
  <1> DEFINE s == BuildCampaignInventory(d, gate)
  <1>1. s.writes = <<<<"inventory", d>>, <<"dataset", d>>>> /\ Plain(s) /\ s.gate = gate
        /\ s.whole = {<<"completion", d>>}
    BY DEF BuildCampaignInventory, Does, With, Bare, Plain
  <1> HIDE DEF s
  <1>2. Fine(s, p, <<"inventory", d>>) /\ Fine(s, p, <<"dataset", d>>)
    BY <1>1, Kinds DEF Fine, Freezes, Guards, Fits, Reports, Closes
  <1>3. QED
    BY <1>1, <1>2, Kinds, Two DEF s

LEMMA ExtractGood ==
  ASSUME NEW p, NEW d, NEW gate, d \in Protected => gate = "confirmatory"
  PROVE  GoodScript(ExtractSequences(d, gate), p)
  <1> DEFINE s == ExtractSequences(d, gate)
  <1>1. s.writes = <<<<"extraction", d>>, <<"sequences", d>>>> /\ Plain(s) /\ s.gate = gate
    BY DEF ExtractSequences, Does, With, Bare, Plain
  <1> HIDE DEF s
  <1>2. Fine(s, p, <<"extraction", d>>) /\ Fine(s, p, <<"sequences", d>>)
    BY <1>1, Kinds DEF Fine, Freezes, Guards, Fits, Reports, Closes
  <1>3. QED
    BY <1>1, <1>2, Kinds, Two DEF s

LEMMA AssembleGood ==
  ASSUME NEW p, NEW d, NEW gate, d \in Protected => gate = "confirmatory"
  PROVE  GoodScript(AssembleDecisions(d, gate), p)
  <1> DEFINE s == AssembleDecisions(d, gate)
  <1>1. s.writes = <<<<"decisions_manifest", d>>, <<"decisions", d>>>> /\ Plain(s) /\ s.gate = gate
    BY DEF AssembleDecisions, Does, With, Bare, Plain
  <1> HIDE DEF s
  <1>2. Fine(s, p, <<"decisions_manifest", d>>) /\ Fine(s, p, <<"decisions", d>>)
    BY <1>1, Kinds DEF Fine, Freezes, Guards, Fits, Reports, Closes
  <1>3. QED
    BY <1>1, <1>2, Kinds, Two DEF s

LEMMA PredictGood ==
  ASSUME NEW p, NEW m, NEW d, NEW gate, d \in Protected => gate = "confirmatory"
  PROVE  GoodScript(PredictDecisions(m, d, gate), p)
  <1> DEFINE s == PredictDecisions(m, d, gate)
  <1>1. s.writes = <<Raw(m, d), <<"provenance", m, d>>>> /\ Plain(s) /\ s.gate = gate
        /\ s.from = {} /\ s.streams = {} /\ s.chance = FALSE
    BY DEF PredictDecisions, Does, With, Bare, Plain
  <1> HIDE DEF s
  <1>2. Fine(s, p, Raw(m, d)) /\ Fine(s, p, <<"provenance", m, d>>)
    BY <1>1, Kinds DEF Fine, Freezes, Guards, Fits, Reports, Closes
  <1>3. QED
    BY <1>1, <1>2, Kinds, Two DEF s

LEMMA PredictIntoGood ==
  ASSUME NEW p, NEW m, NEW n, NEW d, NEW e, NEW gate, e \in Protected => gate = "confirmatory"
  PROVE  GoodScript(PredictInto(Raw(n, e), PredictDecisions(m, d, gate)), p)
  <1> DEFINE s == PredictInto(Raw(n, e), PredictDecisions(m, d, gate))
  <1>1. s.writes = <<Raw(n, e), <<"provenance", m, d>>>> /\ Plain(s) /\ s.gate = gate
        /\ s.from = {} /\ s.streams = {} /\ s.chance = FALSE
    BY DEF PredictInto, PredictDecisions, Does, With, Bare, Plain
  <1> HIDE DEF s
  <1>2. Fine(s, p, Raw(n, e)) /\ Fine(s, p, <<"provenance", m, d>>)
    BY <1>1, Kinds DEF Fine, Freezes, Guards, Fits, Reports, Closes
  <1>3. QED
    BY <1>1, <1>2, Kinds, Two DEF s

LEMMA CalibrateGood ==
  ASSUME NEW p, NEW m, NEW source, NEW calibrator, NEW d, NEW gate,
         m = "p3" /\ d = "validation" => p = "day", m = "p3" /\ d = "held" => source \in Atomic
  PROVE  GoodScript(ApplyCalibration(m, source, calibrator, d, gate), p)
  <1> DEFINE s == ApplyCalibration(m, source, calibrator, d, gate)
  <1>1. s.writes = <<Calibrated(m, d)>> /\ Plain(s) /\ s.refuse = {Calibrated(m, d)}
        /\ s.from = {source} /\ source \in s.need /\ s.streams = {} /\ s.chance = FALSE
    BY DEF ApplyCalibration, Does, With, Bare, Plain
  <1> HIDE DEF s
  <1>2. Fine(s, p, Calibrated(m, d))
    BY <1>1, Kinds DEF Fine, Freezes, Guards, Fits, Reports, Closes
  <1>3. QED
    BY <1>1, <1>2, Kinds, One DEF s

LEMMA AlarmGood ==
  ASSUME NEW p, NEW m, NEW source, NEW d, NEW gate, d = "held" => p = "main",
         m = "p3" /\ d = "held" => source \in Atomic
  PROVE  GoodScript(ApplyAlarmPolicy(m, source, d, gate), p)
  <1> DEFINE s == ApplyAlarmPolicy(m, source, d, gate)
  <1>1. s.writes = <<Alarmed(m, d)>> /\ Plain(s)
        /\ s.from = {source} /\ source \in s.need /\ s.streams = {} /\ s.chance = FALSE
    BY DEF ApplyAlarmPolicy, Does, With, Bare, Plain
  <1> HIDE DEF s
  <1>2. Fine(s, p, Alarmed(m, d))
    BY <1>1, Kinds DEF Fine, Freezes, Guards, Fits, Reports, Closes
  <1>3. QED
    BY <1>1, <1>2, Kinds, One DEF s

LEMMA LatencyGood ==
  ASSUME NEW p, NEW m
  PROVE  GoodScript(MeasureLatency(m), p)
  <1> DEFINE s == MeasureLatency(m)
  <1>1. s.writes = <<<<"latency", m>>>> /\ Plain(s)
    BY DEF MeasureLatency, Does, With, Bare, Plain
  <1> HIDE DEF s
  <1>2. Fine(s, p, <<"latency", m>>)
    BY <1>1, Kinds DEF Fine, Freezes, Guards, Fits, Reports, Closes
  <1>3. QED
    BY <1>1, <1>2, Kinds, One DEF s

LEMMA SelectGood ==
  ASSUME NEW p, NEW m, NEW source, m = "p3" => p = "day"
  PROVE  GoodScript(SelectCalibration(m, source), p)
  <1> DEFINE s == SelectCalibration(m, source)
  <1>1. s.writes = <<<<"calibrator", m>>, <<"calibration", m>>>> /\ Plain(s) /\ s.refuse = {<<"calibration", m>>, <<"calibrator", m>>}
    BY DEF SelectCalibration, Does, With, Bare, Plain
  <1> HIDE DEF s
  <1>2. Fine(s, p, <<"calibrator", m>>) /\ Fine(s, p, <<"calibration", m>>)
    BY <1>1, Kinds DEF Fine, Freezes, Guards, Fits, Reports, Closes
  <1>3. QED
    BY <1>1, <1>2, Kinds, Two DEF s

LEMMA ThresholdGood ==
  ASSUME NEW p, NEW m, NEW source, m = "p3" => p = "day"
  PROVE  GoodScript(SelectAlarmThreshold(m, source), p)
  <1> DEFINE s == SelectAlarmThreshold(m, source)
  <1>1. s.writes = <<<<"threshold", m>>>> /\ Plain(s) /\ s.refuse = {<<"threshold", m>>}
    BY DEF SelectAlarmThreshold, Does, With, Bare, Plain
  <1> HIDE DEF s
  <1>2. Fine(s, p, <<"threshold", m>>)
    BY <1>1, Kinds DEF Fine, Freezes, Guards, Fits, Reports, Closes
  <1>3. QED
    BY <1>1, <1>2, Kinds, One DEF s

LEMMA CompareGood ==
  ASSUME NEW p
  PROVE  GoodScript(ComparePredictors, p)
  <1> DEFINE s == ComparePredictors
  <1>1. s.writes = <<Report("comparison")>> /\ Plain(s)
    BY DEF ComparePredictors, Does, With, Bare, Plain
  <1> HIDE DEF s
  <1>2. Fine(s, p, Report("comparison"))
    BY <1>1, Kinds DEF Fine, Freezes, Guards, Fits, Reports, Closes
  <1>3. QED
    BY <1>1, <1>2, Kinds, One DEF s

LEMMA ValidateGood ==
  ASSUME NEW p
  PROVE  GoodScript(ValidateAlarmPolicy, p)
  <1> DEFINE s == ValidateAlarmPolicy
  <1>1. s.writes = <<Report("alarm_policy")>> /\ Plain(s)
    BY DEF ValidateAlarmPolicy, Does, With, Bare, Plain
  <1> HIDE DEF s
  <1>2. Fine(s, p, Report("alarm_policy"))
    BY <1>1, Kinds DEF Fine, Freezes, Guards, Fits, Reports, Closes
  <1>3. QED
    BY <1>1, <1>2, Kinds, One DEF s

LEMMA SeedGood ==
  ASSUME NEW p
  PROVE  GoodScript(SelectSeed, p)
  <1> DEFINE s == SelectSeed
  <1>1. s.writes = <<Report("seeds")>> /\ Plain(s)
    BY DEF SelectSeed, Does, With, Bare, Plain
  <1> HIDE DEF s
  <1>2. Fine(s, p, Report("seeds"))
    BY <1>1, Kinds DEF Fine, Freezes, Guards, Fits, Reports, Closes
  <1>3. QED
    BY <1>1, <1>2, Kinds, One DEF s

LEMMA SecondaryGood ==
  ASSUME NEW p, p = "packet"
  PROVE  GoodScript(FreezeSecondary, p)
  <1> DEFINE s == FreezeSecondary
  <1>1. s.writes = <<Secondary>> /\ Plain(s) /\ s = FreezeSecondary
    BY DEF FreezeSecondary, Does, With, Bare, Plain
  <1> HIDE DEF s
  <1>2. Fine(s, p, Secondary)
    BY <1>1, Kinds DEF Fine, Freezes, Guards, Fits, Reports, Closes
  <1>3. QED
    BY <1>1, <1>2, Kinds, One DEF s

LEMMA ManifestsGood ==
  ASSUME NEW p
  PROVE  GoodScript(BuildConfirmatoryManifests, p)
  <1> DEFINE s == BuildConfirmatoryManifests
  <1>1. s.writes = <<<<"manifest", "held">>, <<"manifest", "severity">>>> /\ Plain(s)
    BY DEF BuildConfirmatoryManifests, Does, With, Bare, Plain
  <1> HIDE DEF s
  <1>2. Fine(s, p, <<"manifest", "held">>) /\ Fine(s, p, <<"manifest", "severity">>)
    BY <1>1, Kinds DEF Fine, Freezes, Guards, Fits, Reports, Closes
  <1>3. QED
    BY <1>1, <1>2, Kinds, Two DEF s

LEMMA PilotGood ==
  ASSUME NEW p
  PROVE  GoodScript(BuildRecoveryPilot, p)
  <1> DEFINE s == BuildRecoveryPilot
  <1>1. s.writes = <<<<"manifest", "pilot">>>> /\ Plain(s)
    BY DEF BuildRecoveryPilot, Does, With, Bare, Plain
  <1> HIDE DEF s
  <1>2. Fine(s, p, <<"manifest", "pilot">>)
    BY <1>1, Kinds DEF Fine, Freezes, Guards, Fits, Reports, Closes
  <1>3. QED
    BY <1>1, <1>2, Kinds, One DEF s

LEMMA PairsGood ==
  ASSUME NEW p
  PROVE  GoodScript(BuildPairedRecovery, p)
  <1> DEFINE s == BuildPairedRecovery
  <1>1. s.writes = <<Pairs>> /\ Plain(s) /\ Splits \in s.need
    BY DEF BuildPairedRecovery, Pairs, Does, With, Bare, Plain
  <1> HIDE DEF s
  <1>2. Fine(s, p, Pairs)
    BY <1>1, Kinds DEF Fine, Freezes, Guards, Fits, Reports, Closes
  <1>3. QED
    BY <1>1, <1>2, Kinds, One DEF s

LEMMA ShiftGood ==
  ASSUME NEW p
  PROVE  GoodScript(EvaluateConcurrencyShift("check"), p)
  <1> DEFINE s == EvaluateConcurrencyShift("check")
  <1>1. s.writes = <<Report("check")>> /\ Plain(s)
    BY DEF EvaluateConcurrencyShift, Does, With, Bare, Plain
  <1> HIDE DEF s
  <1>2. Fine(s, p, Report("check"))
    BY <1>1, Kinds DEF Fine, Freezes, Guards, Fits, Reports, Closes
  <1>3. QED
    BY <1>1, <1>2, Kinds, One DEF s

LEMMA FoldThresholdGood ==
  ASSUME NEW p
  PROVE  GoodScript(FoldThreshold, p)
  <1> DEFINE s == FoldThreshold
  <1>1. s.writes = <<<<"p1.threshold", "fold">>>> /\ Plain(s)
    BY DEF FoldThreshold, Does, With, Bare, Plain
  <1> HIDE DEF s
  <1>2. Fine(s, p, <<"p1.threshold", "fold">>)
    BY <1>1, Kinds DEF Fine, Freezes, Guards, Fits, Reports, Closes
  <1>3. QED
    BY <1>1, <1>2, Kinds, One DEF s

LEMMA NaturalGood ==
  ASSUME NEW p
  PROVE  GoodScript(AuditNaturalFailures, p)
  <1> DEFINE s == AuditNaturalFailures
  <1>1. s.writes = <<Report("natural")>> /\ Plain(s)
    BY DEF AuditNaturalFailures, Does, With, Bare, Plain
  <1> HIDE DEF s
  <1>2. Fine(s, p, Report("natural"))
    BY <1>1, Kinds DEF Fine, Freezes, Guards, Fits, Reports, Closes
  <1>3. QED
    BY <1>1, <1>2, Kinds, One DEF s

LEMMA HypothesesGood ==
  ASSUME NEW p, NEW need, NEW name, name \notin {"held", "folds"}
  PROVE  GoodScript(AnalyzeHypotheses(need, name), p)
  <1> DEFINE s == AnalyzeHypotheses(need, name)
  <1>1. s.writes = <<Report(name), <<"text", name>>>> /\ Plain(s)
    BY DEF AnalyzeHypotheses, Does, With, Bare, Plain
  <1> HIDE DEF s
  <1>2. Fine(s, p, Report(name)) /\ Fine(s, p, <<"text", name>>)
    BY <1>1, Kinds DEF Fine, Freezes, Guards, Fits, Reports, Closes
  <1>3. QED
    BY <1>1, <1>2, Kinds, Two DEF s

LEMMA OutcomesGood ==
  ASSUME NEW p, NEW d, d \in {"pilot", "paired"}
  PROVE  GoodScript(BuildOutcomeTable(d), p)
  <1> DEFINE s == BuildOutcomeTable(d)
  <1>1. s.writes = <<<<"outcomes", d>>, <<"outcomes_provenance", d>>>> /\ Plain(s) /\ <<"manifest", d>> \in s.need
    BY DEF BuildOutcomeTable, Does, With, Bare, Plain
  <1> HIDE DEF s
  <1>2. Fine(s, p, <<"outcomes", d>>) /\ Fine(s, p, <<"outcomes_provenance", d>>)
    BY <1>1, Kinds DEF Fine, Freezes, Guards, Fits, Reports, Closes, Pairs, Protected
  <1>3. QED
    BY <1>1, <1>2, Kinds, Two DEF s

LEMMA CostsGood ==
  ASSUME NEW p
  PROVE  GoodScript(BuildCostTable, p)
  <1> DEFINE s == BuildCostTable
  <1>1. s.writes = <<<<"costs", "pilot">>, <<"costs_provenance", "pilot">>>> /\ Plain(s)
    BY DEF BuildCostTable, Does, With, Bare, Plain
  <1> HIDE DEF s
  <1>2. Fine(s, p, <<"costs", "pilot">>) /\ Fine(s, p, <<"costs_provenance", "pilot">>)
    BY <1>1, Kinds DEF Fine, Freezes, Guards, Fits, Reports, Closes
  <1>3. QED
    BY <1>1, <1>2, Kinds, Two DEF s

LEMMA SelectorGood ==
  ASSUME NEW p
  PROVE  GoodScript(TrainSelector, p)
  <1> DEFINE s == TrainSelector
  <1>1. s.writes = <<<<"selector", "study">>>> /\ Plain(s)
    BY DEF TrainSelector, Does, With, Bare, Plain
  <1> HIDE DEF s
  <1>2. Fine(s, p, <<"selector", "study">>)
    BY <1>1, Kinds DEF Fine, Freezes, Guards, Fits, Reports, Closes
  <1>3. QED
    BY <1>1, <1>2, Kinds, One DEF s

LEMMA AnalyzeGood ==
  ASSUME NEW p
  PROVE  GoodScript(AnalyzePairedRecovery, p)
  <1> DEFINE s == AnalyzePairedRecovery
  <1>1. s.writes = <<Report("paired")>> /\ Plain(s)
    BY DEF AnalyzePairedRecovery, Does, With, Bare, Plain
  <1> HIDE DEF s
  <1>2. Fine(s, p, Report("paired"))
    BY <1>1, Kinds DEF Fine, Freezes, Guards, Fits, Reports, Closes
  <1>3. QED
    BY <1>1, <1>2, Kinds, One DEF s

LEMMA RulesTableGood ==
  ASSUME NEW p, NEW rules, NEW d, NEW gate, d \in Protected => gate = "confirmatory"
  PROVE  GoodScript(PredictThresholdRules(rules, d, gate), p)
  <1> DEFINE s == PredictThresholdRules(rules, d, gate)
  <1>1. s.writes = <<Raw("p1", d)>> /\ Plain(s) /\ s.gate = gate
    BY DEF PredictThresholdRules, Raw, Streamed, Does, With, Bare, Plain
  <1> HIDE DEF s
  <1>2. Fine(s, p, Raw("p1", d))
    BY <1>1, Kinds DEF Fine, Freezes, Guards, Fits, Reports, Closes
  <1>3. QED
    BY <1>1, <1>2, Kinds, One DEF s

LEMMA FoldRulesGood ==
  ASSUME NEW p, NEW rules, NEW d, NEW e, e \notin Protected \/ e = "fold"
  PROVE  GoodScript(With(PredictThresholdRules(rules, d, "confirmatory"),
                       [writes |-> <<Raw("p1", e)>>, streams |-> {Raw("p1", e)}, refuse |-> {Raw("p1", e)}]), p)
  <1> DEFINE s == With(PredictThresholdRules(rules, d, "confirmatory"),
                       [writes |-> <<Raw("p1", e)>>, streams |-> {Raw("p1", e)}, refuse |-> {Raw("p1", e)}])
  <1>1. s.writes = <<Raw("p1", e)>> /\ Plain(s) /\ s.gate = "confirmatory"
    BY DEF PredictThresholdRules, Raw, Streamed, Does, With, Bare, Plain
  <1> HIDE DEF s
  <1>2. Fine(s, p, Raw("p1", e))
    BY <1>1, Kinds DEF Fine, Freezes, Guards, Fits, Reports, Closes
  <1>3. QED
    BY <1>1, <1>2, Kinds, One DEF s

LEMMA TuneGood ==
  ASSUME NEW p
  PROVE  GoodScript(TuneThresholdRules(<<"tuning", "study">>, Raw("p1", "validation"), {}), p)
  <1> DEFINE s == TuneThresholdRules(<<"tuning", "study">>, Raw("p1", "validation"), {})
  <1>1. s.writes = <<Raw("p1", "validation"), <<"tuning", "study">>>> /\ Plain(s)
    BY DEF TuneThresholdRules, Raw, Streamed, Does, With, Bare, Plain
  <1> HIDE DEF s
  <1>2. Fine(s, p, Raw("p1", "validation")) /\ Fine(s, p, <<"tuning", "study">>)
    BY <1>1, Kinds DEF Fine, Freezes, Guards, Fits, Reports, Closes, Protected
  <1>3. QED
    BY <1>1, <1>2, Kinds, Two DEF s

LEMMA AddedToTwo ==
  ASSUME NEW a, NEW b, NEW c
  PROVE  <<a, b>> \o <<c>> = <<a, b, c>>
  <1> DEFINE S == {a, b, c}
  <1>1. <<a, b>> \in Seq(S) /\ <<c>> \in Seq(S) /\ <<a, b, c>> \in Seq(S)
    OBVIOUS
  <1>2. Len(<<a, b>>) = 2 /\ Len(<<c>>) = 1 /\ Len(<<a, b, c>>) = 3
    OBVIOUS
  <1> HIDE DEF S
  <1>3. /\ <<a, b>> \o <<c>> \in Seq(S) /\ Len(<<a, b>> \o <<c>>) = 3
        /\ \A i \in 1..3 : (<<a, b>> \o <<c>>)[i] = IF i <= 2 THEN <<a, b>>[i] ELSE <<c>>[i - 2]
    BY <1>1, <1>2, ConcatProperties
  <1>4. \A i \in 1..3 : (<<a, b>> \o <<c>>)[i] = <<a, b, c>>[i]
    BY <1>3
  <1>5. QED
    BY <1>1, <1>2, <1>3, <1>4, SeqEqual

LEMMA TuneFoldGood ==
  ASSUME NEW p
  PROVE  GoodScript(TuneThresholdRules(<<"tuning", "fold">>, Raw("p1", "fold_validation"),
                                       {<<"rules", "fold">>}), p)
  <1> DEFINE rules == {<<"rules", "fold">>}
             s == TuneThresholdRules(<<"tuning", "fold">>, Raw("p1", "fold_validation"), rules)
  <1>1. rules # {} /\ (CHOOSE r \in rules : TRUE) = <<"rules", "fold">>
    OBVIOUS
  <1> HIDE DEF rules
  <1>2. \A a, b, c : <<a, b>> \o <<c>> = <<a, b, c>>
    BY AddedToTwo
  <1>3. Plain(s) /\ s.writes = <<Raw("p1", "fold_validation"), <<"tuning", "fold">>>>
                                \o (IF rules = {} THEN <<>> ELSE <<CHOOSE r \in rules : TRUE>>)
    BY DEF TuneThresholdRules, Does, With, Bare, Plain, Raw, Streamed
  <1> HIDE DEF s
  <1>4. s.writes = <<Raw("p1", "fold_validation"), <<"tuning", "fold">>, <<"rules", "fold">>>>
    BY <1>1, <1>2, <1>3
  <1>5. /\ Fine(s, p, Raw("p1", "fold_validation"))
        /\ Fine(s, p, <<"tuning", "fold">>) /\ Fine(s, p, <<"rules", "fold">>)
    BY Kinds DEF Fine, Freezes, Guards, Fits, Reports, Closes, Protected
  <1>6. GoodScript(s, p)
    BY <1>3, <1>4, <1>5, Kinds, Three
  <1>7. QED
    BY <1>6 DEF s, rules

LEMMA TrainGood ==
  ASSUME NEW p, NEW m, m \in {"p3", "p4"} => p = "day"
  PROVE  GoodScript(TrainPredictor(m), p)
  <1> DEFINE s == TrainPredictor(m)
  <1>1. s.writes = <<<<"directory", m>>, <<"checkpoint", m>>, <<"record", m>>>> /\ Plain(s) /\ s = TrainPredictor(m)
    BY DEF TrainPredictor, Does, With, Bare, Plain
  <1> HIDE DEF s
  <1>2. Fine(s, p, <<"directory", m>>) /\ Fine(s, p, <<"checkpoint", m>>) /\ Fine(s, p, <<"record", m>>)
    BY <1>1, Kinds DEF Fine, Freezes, Guards, Fits, Reports, Closes
  <1>3. QED
    BY <1>1, <1>2, Kinds, Three DEF s

LEMMA RulesGood ==
  ASSUME NEW p, p = "packet"
  PROVE  GoodScript(FreezeRules, p)
  <1> DEFINE s == FreezeRules
  <1>1. s.writes = <<Rules>> /\ Plain(s) /\ s = FreezeRules
    BY DEF FreezeRules, Sealed, Does, With, Bare, Plain
  <1> HIDE DEF s
  <1>2. Fine(s, p, Rules)
    BY <1>1, Kinds DEF Fine, Freezes, Guards, Fits, Reports, Closes
  <1>3. QED
    BY <1>1, <1>2, Kinds, One DEF s

LEMMA FreezeGood ==
  ASSUME NEW p, p = "packet"
  PROVE  GoodScript(FreezeModel, p)
  <1> DEFINE s == FreezeModel
  <1>1. s.writes = <<Freeze, Alarm>> /\ Plain(s) /\ s = FreezeModel
    BY DEF FreezeModel, Sealed, Does, With, Bare, Plain
  <1> HIDE DEF s
  <1>2. Fine(s, p, Freeze) /\ Fine(s, p, Alarm)
    BY <1>1, Kinds DEF Fine, Freezes, Guards, Fits, Reports, Closes
  <1>3. QED
    BY <1>1, <1>2, Kinds, Two DEF s

LEMMA AssignGood ==
  ASSUME NEW p
  PROVE  GoodScript(AssignProtectedSplit, p)
  <1> DEFINE s == AssignProtectedSplit
  <1>1. s.writes = <<Assignment, Splits>> /\ Plain(s) /\ s = AssignProtectedSplit
    BY DEF AssignProtectedSplit, Sealed, Does, With, Bare, Plain
  <1> HIDE DEF s
  <1>2. Fine(s, p, Assignment) /\ Fine(s, p, Splits)
    BY <1>1, Kinds DEF Fine, Freezes, Guards, Fits, Reports, Closes
  <1>3. QED
    BY <1>1, <1>2, Kinds, Two DEF s

LEMMA FilterGood ==
  ASSUME NEW p, NEW m, NEW source, NEW e
  PROVE  GoodScript(FilterRows(m, source, Kept(m, e)), p)
  <1> DEFINE s == FilterRows(m, source, Kept(m, e))
  <1>1. s.writes = <<Kept(m, e)>> /\ Plain(s)
    BY DEF FilterRows, Kept, Streamed, Does, With, Bare, Plain
  <1> HIDE DEF s
  <1>2. Fine(s, p, Kept(m, e))
    BY <1>1, Kinds DEF Fine, Freezes, Guards, Fits, Reports, Closes
  <1>3. QED
    BY <1>1, <1>2, Kinds, One DEF s

LEMMA FoldPolicyGood ==
  ASSUME NEW p, NEW m, NEW source, NEW threshold, p = "main"
  PROVE  GoodScript(FoldPolicy(m, source, threshold), p)
  <1> DEFINE s == FoldPolicy(m, source, threshold)
  <1>1. s.writes = <<Alarmed(m, "fold")>> /\ Plain(s)
    BY DEF FoldPolicy, Alarmed, Streamed, Does, With, Bare, Plain
  <1> HIDE DEF s
  <1>2. Fine(s, p, Alarmed(m, "fold"))
    BY <1>1, Kinds DEF Fine, Freezes, Guards, Fits, Reports, Closes
  <1>3. QED
    BY <1>1, <1>2, Kinds, One DEF s

LEMMA ScoreAblationsGood ==
  ASSUME NEW p
  PROVE  GoodScript(ScoreAblations, p)
  <1> DEFINE s == ScoreAblations
  <1>1. s.writes = <<Report("held_ablations")>> /\ Plain(s)
    BY DEF ScoreAblations, Streamed, Does, With, Bare, Plain
  <1> HIDE DEF s
  <1>2. Fine(s, p, Report("held_ablations"))
    BY <1>1, Kinds DEF Fine, Freezes, Guards, Fits, Reports, Closes
  <1>3. QED
    BY <1>1, <1>2, Kinds, One DEF s

\* A script that publishes nothing.
LEMMA Nothing ==
  ASSUME NEW p, NEW s, s.writes = <<>>, Plain(s)
  PROVE  GoodScript(s, p)
  BY Lists, PlainTidy DEF GoodScript, Plain

LEMMA ReadinessGood ==
  ASSUME NEW p
  PROVE  GoodScript(CheckReadiness, p) /\ GoodScript(Bare, p)
  <1>1. ASSUME NEW s, s \in {CheckReadiness, Bare}
        PROVE  s.writes = <<>> /\ Plain(s)
    BY <1>1 DEF CheckReadiness, Does, With, Bare, Plain
  <1>2. QED
    BY <1>1, Nothing

LEMMA SelectedReadinessGood ==
  ASSUME NEW p, NEW need
  PROVE  GoodScript(With(CheckReadiness, [need |-> need]), p)
  <1> DEFINE s == With(CheckReadiness, [need |-> need])
  <1>1. s.writes = <<>> /\ Plain(s)
    BY DEF CheckReadiness, Does, With, Bare, Plain
  <1>2. QED
    BY <1>1, Nothing

LEMMA EvaluationsGood ==
  ASSUME NEW p, p = "main"
  PROVE  GoodScript(EvaluateConfirmatory, p) /\ GoodScript(EvaluateFolds, p)
  <1>1. ASSUME NEW s, NEW name,
               \/ s = EvaluateConfirmatory /\ name = "held"
               \/ s = EvaluateFolds /\ name = "folds"
        PROVE  GoodScript(s, p)
    <2>1. s.writes = <<Report(name)>> /\ Plain(s)
      BY <1>1 DEF EvaluateConfirmatory, EvaluateFolds, Does, With, Bare, Plain
    <2>2. Fine(s, p, Report(name))
      BY <1>1, Kinds DEF Fine, Freezes, Guards, Fits, Reports, Closes
    <2>3. QED
      BY <2>1, <2>2, One
  <1>2. QED
    BY <1>1

LEMMA ReportAblationsGood ==
  ASSUME NEW p
  PROVE  GoodScript(ReportAblations, p)
  <1> DEFINE s == ReportAblations
             a == Calibrated("ablation", "validation")
             b == Report("ablations")
  <1>1. /\ s.writes = <<a, b>> /\ s.aside = {a} /\ s.streams = {} /\ s.inplace = {}
        /\ s.chance = FALSE
    BY DEF ReportAblations, Does, With, Bare
  <1>2. a # b /\ Fine(s, p, a) /\ Fine(s, p, b) /\ Loose(a) /\ a[1] = "calibrated"
    BY Kinds DEF Fine, Freezes, Guards, Fits, Reports, Closes, Loose
  <1> HIDE DEF s, a, b
  <1>3. s.writes \in Seq(Range(s.writes)) /\ Once(s.writes) /\ Range(s.writes) = {a, b}
    BY <1>1, <1>2, Lists
  <1>4. Tidy(s)
    BY <1>1, <1>2, <1>3 DEF Tidy
  <1>5. GoodScript(s, p)
    BY <1>1, <1>2, <1>3, <1>4 DEF GoodScript
  <1>6. QED
    BY <1>5 DEF s

LEMMA FinalGood ==
  ASSUME NEW p, NEW need
  PROVE  GoodScript(With(AnalyzeHypotheses(need, "final"),
                         [aside |-> {Report("final"), <<"text", "final">>}, refuse |-> {}]), p)
  <1> DEFINE a == Report("final")
             b == <<"text", "final">>
             s == With(AnalyzeHypotheses(need, "final"), [aside |-> {a, b}, refuse |-> {}])
  <1>1. /\ s.writes = <<a, b>> /\ s.aside = {a, b} /\ s.streams = {} /\ s.inplace = {}
        /\ s.chance = FALSE
    BY DEF AnalyzeHypotheses, Does, With, Bare
  <1>2. /\ a # b /\ Fine(s, p, a) /\ Fine(s, p, b) /\ Loose(a) /\ Loose(b)
        /\ a[1] = "report" /\ b[1] = "text"
    BY Kinds DEF Fine, Freezes, Guards, Fits, Reports, Closes, Loose
  <1> HIDE DEF s, a, b
  <1>3. s.writes \in Seq(Range(s.writes)) /\ Once(s.writes) /\ Range(s.writes) = {a, b}
    BY <1>1, <1>2, Lists
  <1>4. Tidy(s)
    BY <1>1, <1>2, <1>3 DEF Tidy
  <1>5. GoodScript(s, p)
    BY <1>1, <1>2, <1>3, <1>4 DEF GoodScript
  <1>6. QED
    BY <1>5 DEF s, a, b

-----------------------------------------------------------------------------
(* The stages of a plan that are not simply a script.                        *)

\* The fields of a campaign, which is not skipped for a file but for a record.
LEMMA CampaignIs ==
  ASSUME NEW d, NEW aside
  PROVE  /\ DOMAIN Campaign(d, aside) = {"do", "await", "skip", "done", "must", "after"}
         /\ Campaign(d, aside).do = FinalizeCampaign(d, aside) /\ Campaign(d, aside).must = TRUE
         /\ Campaign(d, aside).done = {<<"completion", d>>}
  BY DEF Campaign, Stage

LEMMA CampaignGood ==
  ASSUME NEW p, NEW d, d \in DOMAIN OwnerOf, p = OwnerOf[d], NEW aside,
         aside \in {{}, {<<"completion", d>>}}
  PROVE  Good(Campaign(d, aside), p)
  <1> DEFINE f == <<"completion", d>>
             s == FinalizeCampaign(d, aside)
             stage == Campaign(d, aside)
  <1>1. /\ s.writes = <<f>> /\ s.aside \subseteq {f} /\ s.streams = {} /\ s.inplace = {}
    BY DEF FinalizeCampaign, Does, With, Bare
  <1>2. f[1] = "completion" /\ f[2] = d
    OBVIOUS
  <1>3. /\ stage.do = s /\ stage.done = {f}
        /\ DOMAIN stage = {"do", "await", "skip", "done", "must", "after"}
    BY CampaignIs
  <1> HIDE DEF f, s, stage
  <1>4. Loose(f)
    BY <1>2 DEF Loose
  <1>5. Fine(s, p, f)
    BY <1>1, <1>2, Kinds DEF Fine, Freezes, Guards, Fits, Reports, Closes
  <1>6. s.writes \in Seq(Range(s.writes)) /\ Once(s.writes) /\ Range(s.writes) = {f}
    BY <1>1, Lists
  <1>7. Tidy(s)
    <2>1. s.writes = <<<<"completion", d>>>>
      BY <1>1 DEF f
    <2>2. QED
      BY <1>1, <1>2, <1>4, <1>6, <2>1 DEF Tidy
  <1>8. Renews(stage)
    BY <1>1, <1>3 DEF Renews
  <1>9. Good(stage, p)
    BY <1>1, <1>3, <1>5, <1>6, <1>7, <1>8 DEF Good
  <1>10. QED
    BY <1>9 DEF stage

LEMMA AwaitGood ==
  ASSUME NEW p, NEW files
  PROVE  Good(Await(files), p)
  <1> DEFINE stage == Await(files)
  <1>1. stage.do = Bare /\ DOMAIN stage = {"do", "await", "skip", "done", "must", "after"}
    BY DEF Await, Stage
  <1>2. Bare.aside = {} /\ GoodScript(Bare, p)
    BY ReadinessGood DEF Bare
  <1> HIDE DEF stage
  <1>3. Good(stage, p)
    BY <1>1, <1>2 DEF Good, GoodScript, Renews
  <1>4. QED
    BY <1>3 DEF stage

\* Goodness depends on what the stage does and on what it is done for.
LEMMA SameGood ==
  ASSUME NEW p, NEW a, NEW b, Good(a, p), b.do = a.do, b.done = a.done, DOMAIN b = DOMAIN a
  PROVE  Good(b, p)
  BY DEF Good, Renews

LEMMA OptionalGood ==
  ASSUME NEW p, NEW a, Good(a, p)
  PROVE  Good(Optional(a), p)
  <1>1. /\ Optional(a).do = a.do /\ Optional(a).done = a.done /\ DOMAIN Optional(a) = DOMAIN a
    BY DEF Optional, Good
  <1>2. QED
    BY <1>1, SameGood

-----------------------------------------------------------------------------
(* The lists of stages.                                                      *)

\* The elements of the longer lists the plans are written with.
LEMMA TupleRange ==
  /\ \A a, b, c, d : /\ <<a, b, c, d>> \in Seq(Range(<<a, b, c, d>>))
                     /\ Range(<<a, b, c, d>>) = {a, b, c, d}
  /\ \A a, b, c, d, e : /\ <<a, b, c, d, e>> \in Seq(Range(<<a, b, c, d, e>>))
                        /\ Range(<<a, b, c, d, e>>) = {a, b, c, d, e}
  /\ \A a, b, c, d, e, f : /\ <<a, b, c, d, e, f>> \in Seq(Range(<<a, b, c, d, e, f>>))
                           /\ Range(<<a, b, c, d, e, f>>) = {a, b, c, d, e, f}
  /\ \A a, b, c, d, e, f, g, h :
       /\ <<a, b, c, d, e, f, g, h>> \in Seq(Range(<<a, b, c, d, e, f, g, h>>))
       /\ Range(<<a, b, c, d, e, f, g, h>>) = {a, b, c, d, e, f, g, h}
  /\ \A a, b, c, d, e, f, g, h, i :
       /\ <<a, b, c, d, e, f, g, h, i>> \in Seq(Range(<<a, b, c, d, e, f, g, h, i>>))
       /\ Range(<<a, b, c, d, e, f, g, h, i>>) = {a, b, c, d, e, f, g, h, i}
  /\ \A a, b, c, d, e, f, g, h, i, j, k, l :
       /\ <<a, b, c, d, e, f, g, h, i, j, k, l>> \in Seq(Range(<<a, b, c, d, e, f, g, h, i, j, k, l>>))
       /\ Range(<<a, b, c, d, e, f, g, h, i, j, k, l>>) = {a, b, c, d, e, f, g, h, i, j, k, l}
  BY DEF Range

\* A stage of a list has an index.
LEMMA RangeAt ==
  ASSUME NEW ss, ss \in Seq(Range(ss))
  PROVE  /\ Len(ss) \in Nat /\ DOMAIN ss = 1..Len(ss)
         /\ \A i \in 1..Len(ss) : ss[i] \in Range(ss)
         /\ \A x \in Range(ss) : \E i \in 1..Len(ss) : x = ss[i]
  <1>1. Len(ss) \in Nat /\ DOMAIN ss = 1..Len(ss)
    BY LenProperties
  <1>2. QED
    BY <1>1 DEF Range

\* Two lists, one after the other.
LEMMA JoinRange ==
  ASSUME NEW a, NEW b, a \in Seq(Range(a)), b \in Seq(Range(b))
  PROVE  /\ a \o b \in Seq(Range(a \o b)) /\ Range(a \o b) = Range(a) \union Range(b)
         /\ Len(a \o b) = Len(a) + Len(b)
         /\ \A i \in 1..Len(a) + Len(b) : (a \o b)[i] = IF i <= Len(a) THEN a[i] ELSE b[i - Len(a)]
  <1> DEFINE S == Range(a) \union Range(b)
  <1>1. a \in Seq(S) /\ b \in Seq(S)
    BY SeqMonotonic
  <1> HIDE DEF S
  <1>2. a \o b \in Seq(S)
    BY <1>1, ConcatProperties
  <1>3. QED
    BY <1>1, <1>2, ConcatProperties, RangeConcatenation, SeqOfRange

LEMMA JoinSimple ==
  ASSUME NEW p, NEW a, NEW b, Simple(a, p), Simple(b, p)
  PROVE  Simple(a \o b, p)
  BY JoinRange DEF Simple

\* The same stages, made optional, or skipped for one more reason.
LEMMA MappedSimple ==
  ASSUME NEW p, NEW ss, Simple(ss, p), NEW tt, DOMAIN tt = DOMAIN ss, tt = [i \in DOMAIN ss |-> tt[i]],
         \A i \in DOMAIN ss : Good(tt[i], p)
  PROVE  Simple(tt, p)
  <1>1. Len(ss) \in Nat /\ DOMAIN ss = 1..Len(ss)
    BY RangeAt DEF Simple
  <1>2. tt \in Seq(Range(tt))
    BY <1>1 DEF Range
  <1>3. QED
    BY <1>2 DEF Simple, Range

\* Making stages optional, or skipping them for more, keeps them good.
LEMMA OptionalsSimple ==
  ASSUME NEW p, NEW ss, Simple(ss, p)
  PROVE  Simple(Optionals(ss), p)
  <1>1. \A i \in DOMAIN ss : Good(ss[i], p)
    BY DEF Simple, Range
  <1>2. /\ DOMAIN Optionals(ss) = DOMAIN ss
        /\ Optionals(ss) = [i \in DOMAIN ss |-> Optionals(ss)[i]]
        /\ \A i \in DOMAIN ss : Optionals(ss)[i] = Optional(ss[i])
    BY DEF Optionals
  <1>3. QED
    BY <1>1, <1>2, OptionalGood, MappedSimple

Widened(tt, ss, skip, p) ==
  /\ DOMAIN tt = DOMAIN ss /\ tt = [i \in DOMAIN ss |-> tt[i]]
  /\ \A i \in DOMAIN ss :
       /\ tt[i].do = ss[i].do /\ tt[i].done = ss[i].done /\ tt[i].must = ss[i].must
       /\ tt[i].skip = ss[i].skip \union skip
       /\ Good(tt[i], p)

LEMMA UnlessIs ==
  ASSUME NEW p, NEW skip, NEW ss, \A i \in DOMAIN ss : Good(ss[i], p)
  PROVE  Widened(Unless(skip, ss), ss, skip, p)
  <1>1. /\ DOMAIN Unless(skip, ss) = DOMAIN ss
        /\ Unless(skip, ss) = [i \in DOMAIN ss |-> Unless(skip, ss)[i]]
        /\ \A i \in DOMAIN ss : Unless(skip, ss)[i] = [ss[i] EXCEPT !.skip = @ \union skip]
    BY DEF Unless
  <1>2. ASSUME NEW i \in DOMAIN ss
        PROVE  LET a == ss[i]
                   b == Unless(skip, ss)[i]
               IN  /\ b.do = a.do /\ b.done = a.done /\ b.must = a.must
                   /\ b.skip = a.skip \union skip /\ DOMAIN b = DOMAIN a
    BY <1>1 DEF Good
  <1>3. QED
    BY <1>1, <1>2, SameGood DEF Widened

LEMMA UnlessSimple ==
  ASSUME NEW p, NEW skip, NEW ss, Simple(ss, p)
  PROVE  Simple(Unless(skip, ss), p)
  <1>1. \A i \in DOMAIN ss : Good(ss[i], p)
    BY DEF Simple, Range
  <1>2. QED
    BY <1>1, UnlessIs, MappedSimple DEF Widened

\* Lists of good stages, by their length.
LEMMA Simple1 ==
  ASSUME NEW p, NEW a,
         \A stage \in {a} : Good(stage, p)
  PROVE  Simple(<<a>>, p)
  <1>1. <<a>> \in Seq(Range(<<a>>))
        /\ Range(<<a>>) = {a}
    BY Lists
  <1>2. QED
    BY <1>1 DEF Simple

LEMMA Simple2 ==
  ASSUME NEW p, NEW a, NEW b,
         \A stage \in {a, b} : Good(stage, p)
  PROVE  Simple(<<a, b>>, p)
  <1>1. <<a, b>> \in Seq(Range(<<a, b>>))
        /\ Range(<<a, b>>) = {a, b}
    BY Lists
  <1>2. QED
    BY <1>1 DEF Simple

LEMMA Simple3 ==
  ASSUME NEW p, NEW a, NEW b, NEW c,
         \A stage \in {a, b, c} : Good(stage, p)
  PROVE  Simple(<<a, b, c>>, p)
  <1>1. <<a, b, c>> \in Seq(Range(<<a, b, c>>))
        /\ Range(<<a, b, c>>) = {a, b, c}
    BY Lists
  <1>2. QED
    BY <1>1 DEF Simple

LEMMA Simple4 ==
  ASSUME NEW p, NEW a, NEW b, NEW c, NEW d,
         \A stage \in {a, b, c, d} : Good(stage, p)
  PROVE  Simple(<<a, b, c, d>>, p)
  <1>1. <<a, b, c, d>> \in Seq(Range(<<a, b, c, d>>))
        /\ Range(<<a, b, c, d>>) = {a, b, c, d}
    BY TupleRange
  <1>2. QED
    BY <1>1 DEF Simple

LEMMA Simple5 ==
  ASSUME NEW p, NEW a, NEW b, NEW c, NEW d, NEW e,
         \A stage \in {a, b, c, d, e} : Good(stage, p)
  PROVE  Simple(<<a, b, c, d, e>>, p)
  <1>1. <<a, b, c, d, e>> \in Seq(Range(<<a, b, c, d, e>>))
        /\ Range(<<a, b, c, d, e>>) = {a, b, c, d, e}
    BY TupleRange
  <1>2. QED
    BY <1>1 DEF Simple

LEMMA Simple6 ==
  ASSUME NEW p, NEW a, NEW b, NEW c, NEW d, NEW e, NEW f,
         \A stage \in {a, b, c, d, e, f} : Good(stage, p)
  PROVE  Simple(<<a, b, c, d, e, f>>, p)
  <1>1. <<a, b, c, d, e, f>> \in Seq(Range(<<a, b, c, d, e, f>>))
        /\ Range(<<a, b, c, d, e, f>>) = {a, b, c, d, e, f}
    BY TupleRange
  <1>2. QED
    BY <1>1 DEF Simple

LEMMA Simple8 ==
  ASSUME NEW p, NEW a, NEW b, NEW c, NEW d, NEW e, NEW f, NEW g, NEW h,
         \A stage \in {a, b, c, d, e, f, g, h} : Good(stage, p)
  PROVE  Simple(<<a, b, c, d, e, f, g, h>>, p)
  <1>1. <<a, b, c, d, e, f, g, h>> \in Seq(Range(<<a, b, c, d, e, f, g, h>>))
        /\ Range(<<a, b, c, d, e, f, g, h>>) = {a, b, c, d, e, f, g, h}
    BY TupleRange
  <1>2. QED
    BY <1>1 DEF Simple

LEMMA Simple9 ==
  ASSUME NEW p, NEW a, NEW b, NEW c, NEW d, NEW e, NEW f, NEW g, NEW h, NEW i,
         \A stage \in {a, b, c, d, e, f, g, h, i} : Good(stage, p)
  PROVE  Simple(<<a, b, c, d, e, f, g, h, i>>, p)
  <1>1. <<a, b, c, d, e, f, g, h, i>> \in Seq(Range(<<a, b, c, d, e, f, g, h, i>>))
        /\ Range(<<a, b, c, d, e, f, g, h, i>>) = {a, b, c, d, e, f, g, h, i}
    BY TupleRange
  <1>2. QED
    BY <1>1 DEF Simple

LEMMA Simple12 ==
  ASSUME NEW p, NEW a, NEW b, NEW c, NEW d, NEW e, NEW f, NEW g, NEW h, NEW i, NEW j, NEW k, NEW l,
         \A stage \in {a, b, c, d, e, f, g, h, i, j, k, l} : Good(stage, p)
  PROVE  Simple(<<a, b, c, d, e, f, g, h, i, j, k, l>>, p)
  <1>1. <<a, b, c, d, e, f, g, h, i, j, k, l>> \in Seq(Range(<<a, b, c, d, e, f, g, h, i, j, k, l>>))
        /\ Range(<<a, b, c, d, e, f, g, h, i, j, k, l>>) = {a, b, c, d, e, f, g, h, i, j, k, l}
    BY TupleRange
  <1>2. QED
    BY <1>1 DEF Simple

\* The lists the plans are put together from, and the plans.
LEMMA DeriveSimple ==
  ASSUME NEW p, NEW d, NEW gate, d \in Protected => gate = "confirmatory"
  PROVE  Simple(Derive(d, gate), p)
  BY Simple3, StageGood, InventoryGood, ExtractGood, AssembleGood DEF Derive

LEMMA AwaitAndDeriveSimple ==
  ASSUME NEW p, NEW d, d \notin Protected
  PROVE  Simple(AwaitAndDerive(d), p)
  <1> DEFINE a == Stage(BuildCampaignInventory(d, "none"), {<<"inventory", d>>})
             b == Stage(ExtractSequences(d, "none"), {<<"sequences", d>>})
             c == Stage(AssembleDecisions(d, "none"), {<<"decisions", d>>})
  <1>1. Derive(d, "none") = <<a, b, c>>
    BY DEF Derive
  <1>2. \A x, y, z : Tail(<<x, y, z>>) = <<y, z>>
    OBVIOUS
  <1>3. Simple(<<b, c>>, p)
    BY Simple2, StageGood, ExtractGood, AssembleGood
  <1>4. Simple(<<Await({<<"completion", d>>}),
                 Stage(BuildCampaignInventory(d, "none"), {<<"dataset", d>>})>>, p)
    BY Simple2, AwaitGood, StageGood, InventoryGood
  <1> HIDE DEF a, b, c
  <1>5. QED
    BY <1>1, <1>2, <1>3, <1>4, JoinSimple DEF AwaitAndDerive

LEMMA ScoreLearnedSimple ==
  ASSUME NEW p, NEW m, NEW d, d # "validation", d = "held" => p = "main"
  PROVE  Simple(ScoreLearned(m, d), p)
  BY Simple3, StageGood, PredictGood, CalibrateGood, AlarmGood DEF ScoreLearned, Atomic

LEMMA ScoreSimple ==
  ASSUME NEW p, NEW d, d # "validation", d = "held" => p = "main"
  PROVE  Simple(Score(d), p)
  BY ScoreLearnedSimple, Simple2, JoinSimple, StageGood, RulesTableGood, AlarmGood DEF Score

LEMMA DevelopSimple ==
  ASSUME NEW p, NEW m, p = "day"
  PROVE  Simple(DevelopLearned(m), p)
  BY Simple6, StageGood, TrainGood, PredictGood, LatencyGood, SelectGood, CalibrateGood,
     ThresholdGood DEF DevelopLearned, Protected

LEMMA DevelopmentSimple ==
  ASSUME NEW p, p = "day"
  PROVE  Simple(ModelDevelopment, p)
  BY DevelopSimple, Simple1, Simple2, JoinSimple, StageGood, TuneGood, CompareGood, ValidateGood DEF ModelDevelopment

LEMMA ShiftCheckSimple ==
  ASSUME NEW p
  PROVE  Simple(ShiftCheck, p)
  BY DeriveSimple, Simple3, JoinSimple, UnlessSimple, StageGood, PredictGood, CalibrateGood, ShiftGood DEF ShiftCheck, Protected

LEMMA FitFoldSimple ==
  ASSUME NEW p
  PROVE  Simple(FitFold, p)
  BY Simple8, StageGood, TrainGood, PredictIntoGood, FilterGood, SelectGood, CalibrateGood,
     ThresholdGood, TuneFoldGood, FoldThresholdGood DEF FitFold, Protected

LEMMA ProtectedSplitSimple ==
  ASSUME NEW p
  PROVE  Simple(ProtectedSplit, p)
  BY Simple4, StageGood, AwaitGood, AssignGood, ManifestsGood, ReadinessGood DEF ProtectedSplit

LEMMA TargetedSimple ==
  ASSUME NEW p, p = "targeted"
  PROVE  Simple(<<Campaign("targeted", {})>> \o AwaitAndDerive("targeted"), p)
  BY Simple1, JoinSimple, CampaignGood, AwaitAndDeriveSimple DEF OwnerOf, Protected

LEMMA NightSimple ==
  ASSUME NEW p, p = "night"
  PROVE  Simple(<<Await({<<"decisions", "targeted">>}), Optional(Campaign("check", {}))>>
                \o Optionals(ShiftCheck)
                \o <<Optional(Campaign("supplement", {}))>> \o AwaitAndDerive("supplement"), p)
  BY Simple1, Simple2, JoinSimple, AwaitGood, CampaignGood, OptionalGood, ShiftCheckSimple,
     OptionalsSimple, AwaitAndDeriveSimple DEF OwnerOf, Protected

LEMMA DaySimple ==
  ASSUME NEW p, p = "day"
  PROVE  Simple(<<Await({<<"decisions", "supplement">>})>> \o ModelDevelopment, p)
  BY Simple1, JoinSimple, AwaitGood, DevelopmentSimple

LEMMA PacketSimple ==
  ASSUME NEW p, p = "packet"
  PROVE  Simple(PacketPlan, p)
  BY Simple5, AwaitGood, StageGood, SeedGood, RulesGood, SecondaryGood, FreezeGood DEF PacketPlan

LEMMA SeveritySimple ==
  ASSUME NEW p, p = "severity"
  PROVE  Simple(SeverityPlan, p)
  BY Simple1, JoinSimple, AwaitGood, ProtectedSplitSimple, CampaignGood, DeriveSimple, ScoreSimple DEF SeverityPlan, PhasedCampaign, OwnerOf

LEMMA RecoverySimple ==
  ASSUME NEW p, p = "recovery"
  PROVE  Simple(RecoveryPlan, p)
  BY Simple12, StageGood, PilotGood, AwaitGood, CampaignGood, OutcomesGood, CostsGood, SelectorGood,
     PairsGood, SelectedReadinessGood, AnalyzeGood, FinalGood DEF RecoveryPlan, PhasedCampaign, OwnerOf

LEMMA AblationSimple ==
  ASSUME NEW p, p = "ablations"
  PROVE  Simple(AblationPlan, p)
  BY Simple1, Simple3, Simple4, JoinSimple, UnlessSimple, AwaitGood, StageGood, TrainGood, PredictGood,
     ReportAblationsGood, ReadinessGood, ScoreAblationsGood DEF AblationPlan, Protected

LEMMA EvaluateFoldSimple ==
  ASSUME NEW p, p = "main"
  PROVE  Simple(EvaluateFold, p)
  BY Simple9, StageGood, ReadinessGood, PredictIntoGood, FoldRulesGood, FilterGood, CalibrateGood,
     FoldPolicyGood, EvaluationsGood DEF EvaluateFold

LEMMA MainSimple ==
  ASSUME NEW p, p = "main"
  PROVE  Simple(MainPlan, p)
  <1>1. /\ Simple(ProtectedSplit, p) /\ Simple(Derive("held", "confirmatory"), p)
        /\ Simple(Score("held"), p)
    BY ProtectedSplitSimple, DeriveSimple, ScoreSimple
  <1>2. Simple(<<PhasedCampaign("held")>>, p)
    BY Simple1, CampaignGood DEF PhasedCampaign, OwnerOf
  <1>3. Simple(<<Stage(EvaluateConfirmatory, {Report("held")})>>, p)
    BY Simple1, StageGood, EvaluationsGood
  <1>4. Simple(<<Optional(Stage(AuditNaturalFailures, {Report("natural")})),
                 Optional(Stage(AnalyzeHypotheses({Report("held")}, "hypotheses"), {}))>>, p)
    BY Simple2, StageGood, OptionalGood, NaturalGood, HypothesesGood
  <1>5. Simple(Unless({Report("folds")}, FitFold \o EvaluateFold), p)
    BY FitFoldSimple, EvaluateFoldSimple, JoinSimple, UnlessSimple
  <1>6. QED
    BY <1>1, <1>2, <1>3, <1>4, <1>5, JoinSimple DEF MainPlan

\* Every stage of every plan is good.
LEMMA PlansSimple ==
  ASSUME NEW p \in PlanNames
  PROVE  Simple(StagesOf[p], p)
  <1>1. p = "targeted" => Simple(StagesOf[p], p)
    BY TargetedSimple DEF StagesOf
  <1>2. p = "night" => Simple(StagesOf[p], p)
    BY NightSimple DEF StagesOf
  <1>3. p = "day" => Simple(StagesOf[p], p)
    BY DaySimple DEF StagesOf
  <1>4. p = "packet" => Simple(StagesOf[p], p)
    BY PacketSimple DEF StagesOf
  <1>5. p = "main" => Simple(StagesOf[p], p)
    BY MainSimple DEF StagesOf
  <1>6. p = "severity" => Simple(StagesOf[p], p)
    BY SeveritySimple DEF StagesOf
  <1>7. p = "recovery" => Simple(StagesOf[p], p)
    BY RecoverySimple DEF StagesOf
  <1>8. p = "ablations" => Simple(StagesOf[p], p)
    BY AblationSimple DEF StagesOf
  <1>9. QED
    BY <1>1, <1>2, <1>3, <1>4, <1>5, <1>6, <1>7, <1>8 DEF PlanNames

-----------------------------------------------------------------------------
(* The files the scripts know.                                               *)

\* The stages of a plan, by their index.
LEMMA StagesAt ==
  ASSUME NEW p \in PlanNames
  PROVE  /\ StagesOf[p] \in Seq(Range(StagesOf[p])) /\ Len(StagesOf[p]) \in Nat
         /\ DOMAIN StagesOf[p] = 1..Len(StagesOf[p])
         /\ \A i \in 1..Len(StagesOf[p]) : StagesOf[p][i] \in Range(StagesOf[p])
         /\ \A x \in Range(StagesOf[p]) : \E i \in 1..Len(StagesOf[p]) : x = StagesOf[p][i]
         /\ \A i \in 1..Len(StagesOf[p]) : Good(StagesOf[p][i], p)
  BY PlansSimple, RangeAt DEF Simple

\* What a script knows is a file of the model.
LEMMA ScriptFiles ==
  ASSUME NEW p \in PlanNames, NEW stage \in Range(StagesOf[p])
  PROVE  /\ stage.do \in Scripts
         /\ Range(stage.do.writes) \subseteq Files /\ stage.do.need \subseteq Files
         /\ stage.do.whole \subseteq Files /\ stage.do.refuse \subseteq Files
  <1>1. PICK i \in DOMAIN StagesOf[p] : stage = StagesOf[p][i]
    BY StagesAt
  <1>2. stage.do \in Scripts
    BY <1>1 DEF Scripts
  <1> DEFINE s == stage.do
  <1> HIDE DEF s
  <1>3. s \in Scripts
    BY <1>2 DEF s
  <1>4. Range(s.writes) \union s.need \union s.whole \union s.refuse \subseteq Files
    BY <1>3 DEF Files
  <1>5. QED
    BY <1>3, <1>4 DEF s

\* The packet has five stages, and the model is frozen at the last.
LEMMA PacketAt ==
  /\ Len(StagesOf["packet"]) = 5
  /\ StagesOf["packet"][1].do = Bare /\ StagesOf["packet"][2].do = SelectSeed
  /\ StagesOf["packet"][3] = Stage(FreezeRules, {Rules})
  /\ StagesOf["packet"][4] = Stage(FreezeSecondary, {Secondary})
  /\ StagesOf["packet"][5].do = FreezeModel
  <1>1. StagesOf["packet"] = PacketPlan
    BY DEF StagesOf
  <1>2. Len(PacketPlan) = 5
    BY DEF PacketPlan
  <1>3. /\ PacketPlan[1] = Await({Report("alarm_policy")})
        /\ PacketPlan[2] = Stage(SelectSeed, {Report("seeds")})
        /\ PacketPlan[3] = Stage(FreezeRules, {Rules})
        /\ PacketPlan[4] = Stage(FreezeSecondary, {Secondary})
        /\ PacketPlan[5] = Stage(FreezeModel, {})
    BY DEF PacketPlan
  <1>4. /\ Await({Report("alarm_policy")}).do = Bare
        /\ Stage(SelectSeed, {Report("seeds")}).do = SelectSeed
        /\ Stage(FreezeModel, {}).do = FreezeModel
    BY DEF Await, Stage
  <1>5. QED
    BY <1>1, <1>2, <1>3, <1>4

\* What the scripts of the freeze and of the split ask for and publish.
LEMMA Freezers ==
  /\ FreezeRules.writes = <<Rules>> /\ FreezeRules.refuse = {} /\ FreezeRules.aside = {}
  /\ FreezeSecondary.writes = <<Secondary>> /\ FreezeSecondary.refuse = {Secondary}
  /\ Model("p4") \subseteq FreezeSecondary.need
  /\ FreezeModel.writes = <<Freeze, Alarm>> /\ FreezeModel.refuse = {Freeze, Alarm}
  /\ FreezeModel.need = Selected \union Model("p3")
  /\ AssignProtectedSplit.need = {Freeze, Alarm}
  /\ AssignProtectedSplit.writes = <<Assignment, Splits>>
  /\ \A m : /\ TrainPredictor(m).writes = <<<<"directory", m>>, <<"checkpoint", m>>, <<"record", m>>>>
            /\ TrainPredictor(m).refuse = {<<"directory", m>>}
  /\ \A s \in {FreezeRules, FreezeSecondary, FreezeModel, AssignProtectedSplit} :
       s.from = {} /\ s.chance = FALSE /\ s.streams = {}
  BY DEF FreezeRules, FreezeSecondary, FreezeModel, AssignProtectedSplit, TrainPredictor, Selected,
         Does, With, Bare

\* The files of the packet exist in the model.
LEMMA PacketFiles ==
  {Freeze, Alarm, Rules, Secondary} \union Selected \union Model("p3") \union Model("p4") \subseteq Files
  <1>1. /\ StagesOf["packet"][3] \in Range(StagesOf["packet"])
        /\ StagesOf["packet"][4] \in Range(StagesOf["packet"])
        /\ StagesOf["packet"][5] \in Range(StagesOf["packet"])
        /\ "packet" \in PlanNames
    <2>1. "packet" \in PlanNames
      BY DEF PlanNames
    <2>2. \A i \in 1..Len(StagesOf["packet"]) : StagesOf["packet"][i] \in Range(StagesOf["packet"])
      BY <2>1, StagesAt
    <2>3. {3, 4, 5} \subseteq 1..Len(StagesOf["packet"])
      BY PacketAt
    <2>4. QED
      BY <2>1, <2>2, <2>3
  <1>2. /\ Range(FreezeRules.writes) = {Rules} /\ Range(FreezeSecondary.writes) = {Secondary}
        /\ Range(FreezeModel.writes) = {Freeze, Alarm}
    <2>1. Range(<<Rules>>) = {Rules} /\ Range(<<Secondary>>) = {Secondary} /\ Range(<<Freeze, Alarm>>) = {Freeze, Alarm}
      BY Lists
    <2>2. QED
      BY <2>1, Freezers
  <1>3. /\ StagesOf["packet"][3].do = FreezeRules /\ StagesOf["packet"][4].do = FreezeSecondary
        /\ StagesOf["packet"][5].do = FreezeModel
    <2>1. Stage(FreezeRules, {Rules}).do = FreezeRules /\ Stage(FreezeSecondary, {Secondary}).do = FreezeSecondary
      BY DEF Stage
    <2>2. QED
      BY <2>1, PacketAt
  <1>4. /\ Range(FreezeRules.writes) \subseteq Files
        /\ Range(FreezeSecondary.writes) \union FreezeSecondary.need \subseteq Files
        /\ Range(FreezeModel.writes) \union FreezeModel.need \subseteq Files
    BY <1>1, <1>3, ScriptFiles
  <1>5. QED
    BY <1>2, <1>4, Freezers

\* The split is a file of the model.
LEMMA SplitsFile == Splits \in Files
  <1>1. StagesOf["recovery"] = RecoveryPlan /\ "recovery" \in PlanNames
    BY DEF StagesOf, PlanNames
  <1>2. RecoveryPlan[7] = Stage(BuildPairedRecovery, {<<"manifest", "paired">>}) /\ Len(RecoveryPlan) = 12
    BY DEF RecoveryPlan
  <1>3. Splits \in BuildPairedRecovery.need
    BY DEF BuildPairedRecovery, Does, With, Bare
  <1>4. RecoveryPlan[7].do = BuildPairedRecovery
    BY <1>2 DEF Stage
  <1>5. RecoveryPlan[7] \in Range(RecoveryPlan)
    <2>1. 7 \in 1..Len(RecoveryPlan)
      BY <1>2
    <2>2. \A i \in 1..Len(RecoveryPlan) : RecoveryPlan[i] \in Range(RecoveryPlan)
      BY <1>1, StagesAt
    <2>3. QED
      BY <2>1, <2>2
  <1>6. QED
    BY <1>1, <1>3, <1>4, <1>5, ScriptFiles

InventoryOf(d) == <<"inventory", d>>

\* Who derives a campaign publishes its inventory.
LEMMA InventoryIn ==
  ASSUME NEW d, NEW gate, NEW skip
  PROVE  InventoryOf(d) \in Range(Stage(BuildCampaignInventory(d, gate), skip).do.writes)
  <1>1. BuildCampaignInventory(d, gate).writes = <<InventoryOf(d), <<"dataset", d>>>>
    BY DEF BuildCampaignInventory, InventoryOf, Does, With, Bare
  <1>2. Stage(BuildCampaignInventory(d, gate), skip).do = BuildCampaignInventory(d, gate)
    BY DEF Stage
  <1> DEFINE w == BuildCampaignInventory(d, gate).writes
  <1> HIDE DEF w
  <1>3. InventoryOf(d) \in Range(w)
    <2>1. w = <<InventoryOf(d), <<"dataset", d>>>>
      BY <1>1 DEF w
    <2>2. QED
      BY <2>1 DEF Range
  <1>4. QED
    BY <1>2, <1>3 DEF w

\* Some stage of the list publishes f.
Publishes(ss, f) == \E stage \in Range(ss) : f \in Range(stage.do.writes)

\* What a part of a list publishes, the list does.
LEMMA PublishesJoin ==
  ASSUME NEW p, NEW a, NEW b, NEW f, Simple(a, p), Simple(b, p),
         Publishes(a, f) \/ Publishes(b, f)
  PROVE  Publishes(a \o b, f)
  BY JoinRange DEF Simple, Publishes

LEMMA PublishesDerive ==
  /\ \A d, gate : Publishes(Derive(d, gate), InventoryOf(d))
  /\ \A d : d \notin Protected => Publishes(AwaitAndDerive(d), InventoryOf(d))
  <1>1. ASSUME NEW d, NEW gate
        PROVE  Publishes(Derive(d, gate), InventoryOf(d))
    <2>1. Stage(BuildCampaignInventory(d, gate), {<<"inventory", d>>}) \in Range(Derive(d, gate))
      BY DEF Derive, Range
    <2>2. QED
      BY <2>1, InventoryIn DEF Publishes
  <1>2. ASSUME NEW d, d \notin Protected
        PROVE  Publishes(AwaitAndDerive(d), InventoryOf(d))
    <2> DEFINE a == <<Await({<<"completion", d>>}),
                      Stage(BuildCampaignInventory(d, "none"), {<<"dataset", d>>})>>
               b == Tail(Derive(d, "none"))
    <2>1. Publishes(a, InventoryOf(d))
      BY Lists, InventoryIn DEF Publishes
    <2>2. a \in Seq(Range(a))
      BY Lists
    <2>3. b \in Seq(Range(b))
      <3> DEFINE x == Stage(BuildCampaignInventory(d, "none"), {<<"inventory", d>>})
                 y == Stage(ExtractSequences(d, "none"), {<<"sequences", d>>})
                 z == Stage(AssembleDecisions(d, "none"), {<<"decisions", d>>})
      <3>1. Derive(d, "none") = <<x, y, z>>
        BY DEF Derive
      <3>2. \A u, v, w : Tail(<<u, v, w>>) = <<v, w>>
        OBVIOUS
      <3> HIDE DEF x, y, z
      <3>3. b = <<y, z>>
        BY <3>1, <3>2
      <3>4. <<y, z>> \in Seq(Range(<<y, z>>))
        BY Lists
      <3>5. QED
        BY <3>3, <3>4
    <2> HIDE DEF a, b
    <2>4. Publishes(a \o b, InventoryOf(d))
      BY <2>1, <2>2, <2>3, JoinRange DEF Publishes
    <2>5. QED
      BY <2>4 DEF a, b, AwaitAndDerive
  <1>3. QED
    BY <1>1, <1>2

LEMMA PublishesMapped ==
  ASSUME NEW ss, NEW tt, NEW f, DOMAIN tt = DOMAIN ss, \A i \in DOMAIN ss : tt[i].do = ss[i].do,
         Publishes(ss, f)
  PROVE  Publishes(tt, f)
  BY DEF Publishes, Range

LEMMA PublishesUnless ==
  ASSUME NEW skip, NEW ss, NEW f, Publishes(ss, f),
         \A i \in DOMAIN ss : "do" \in DOMAIN Unless(skip, ss)[i]
  PROVE  Publishes(Unless(skip, ss), f)
  <1> DEFINE tt == Unless(skip, ss)
  <1>1. DOMAIN tt = DOMAIN ss /\ \A i \in DOMAIN ss : tt[i] = [ss[i] EXCEPT !.skip = @ \union skip]
    BY DEF Unless
  <1>0. \A i \in DOMAIN ss : "do" \in DOMAIN tt[i]
    OBVIOUS
  <1> HIDE DEF tt
  <1>2. \A i \in DOMAIN ss : tt[i].do = ss[i].do
    BY <1>1, <1>0
  <1>3. Publishes(tt, f)
    BY <1>1, <1>2, PublishesMapped
  <1>4. QED
    BY <1>3 DEF tt

\* A stage that is skipped for more runs a script still.
LEMMA UnlessDo ==
  ASSUME NEW skip, NEW ss, NEW p, Simple(Unless(skip, ss), p)
  PROVE  \A i \in DOMAIN ss : "do" \in DOMAIN Unless(skip, ss)[i]
  <1> DEFINE tt == Unless(skip, ss)
  <1>1. DOMAIN tt = DOMAIN ss
    BY DEF Unless
  <1>2. tt \in Seq(Range(tt)) /\ \A i \in 1..Len(tt) : Good(tt[i], p)
    BY RangeAt DEF Simple
  <1> HIDE DEF tt
  <1>3. \A i \in DOMAIN ss : Good(tt[i], p)
    BY <1>1, <1>2, RangeAt
  <1>4. QED
    BY <1>3 DEF Good, tt

LEMMA PublishesFile ==
  ASSUME NEW p \in PlanNames, NEW f, Publishes(StagesOf[p], f)
  PROVE  f \in Files
  BY ScriptFiles DEF Publishes

\* The inventories the property names are files of the model.
LEMMA CampaignsDerived ==
  /\ InventoryOf("targeted") \in Files /\ InventoryOf("check") \in Files
  /\ InventoryOf("supplement") \in Files /\ InventoryOf("severity") \in Files
  <1>1. InventoryOf("targeted") \in Files
    <2>1. Simple(<<Campaign("targeted", {})>>, "targeted") /\ Simple(AwaitAndDerive("targeted"), "targeted")
      BY Simple1, CampaignGood, AwaitAndDeriveSimple DEF OwnerOf, Protected
    <2>2. Publishes(AwaitAndDerive("targeted"), InventoryOf("targeted"))
      BY PublishesDerive DEF Protected
    <2>3. Publishes(StagesOf["targeted"], InventoryOf("targeted"))
      BY <2>1, <2>2, PublishesJoin DEF StagesOf
    <2>4. QED
      BY <2>3, PublishesFile DEF PlanNames
  <1>2. InventoryOf("check") \in Files /\ InventoryOf("supplement") \in Files
    <2> DEFINE a == <<Await({<<"decisions", "targeted">>}), Optional(Campaign("check", {}))>>
               b == Optionals(ShiftCheck)
               c == <<Optional(Campaign("supplement", {}))>>
               d == AwaitAndDerive("supplement")
    <2>1. Simple(a, "night") /\ Simple(b, "night") /\ Simple(c, "night") /\ Simple(d, "night")
      BY Simple1, Simple2, AwaitGood, CampaignGood, OptionalGood, ShiftCheckSimple,
         OptionalsSimple, AwaitAndDeriveSimple DEF OwnerOf, Protected
    <2>2. Publishes(d, InventoryOf("supplement"))
      BY PublishesDerive DEF Protected
    <2>3. Publishes(b, InventoryOf("check"))
      <3> DEFINE x == Derive("check", "none")
                 y == <<Stage(PredictDecisions("proxy", "check", "none"), {Raw("proxy", "check")}),
                        Stage(ApplyCalibration("p3", Raw("proxy", "check"), <<"calibrator", "proxy">>,
                                               "check", "none"), {Calibrated("p3", "check")}),
                        Stage(EvaluateConcurrencyShift("check"), {})>>
                 skip == {Report("check")}
      <3>1. Simple(x, "night") /\ Simple(y, "night")
        BY DeriveSimple, Simple3, StageGood, PredictGood, CalibrateGood, ShiftGood DEF Protected
      <3>2. Publishes(x, InventoryOf("check"))
        BY PublishesDerive
      <3> HIDE DEF x, y, skip
      <3>3. Publishes(x \o y, InventoryOf("check")) /\ Simple(x \o y, "night")
        BY <3>1, <3>2, PublishesJoin, JoinSimple
      <3>4. Simple(Unless(skip, x \o y), "night")
        BY <3>3, UnlessSimple
      <3>5. Publishes(Unless(skip, x \o y), InventoryOf("check"))
        BY <3>3, <3>4, PublishesUnless, UnlessDo
      <3>6. Publishes(ShiftCheck, InventoryOf("check"))
        BY <3>5 DEF x, y, skip, ShiftCheck
      <3>7. /\ DOMAIN Optionals(ShiftCheck) = DOMAIN ShiftCheck
            /\ \A i \in DOMAIN ShiftCheck : Optionals(ShiftCheck)[i] = Optional(ShiftCheck[i])
        BY DEF Optionals
      <3>8. \A i \in DOMAIN ShiftCheck : Good(ShiftCheck[i], "night")
        BY ShiftCheckSimple DEF Simple, Range
      <3>9. \A i \in DOMAIN ShiftCheck : Optional(ShiftCheck[i]).do = ShiftCheck[i].do
        BY <3>8 DEF Optional, Good
      <3>10. QED
        BY <3>6, <3>7, <3>9, PublishesMapped
    <2>4. StagesOf["night"] = ((a \o b) \o c) \o d
      BY DEF StagesOf
    <2> HIDE DEF a, b, c, d
    <2>5. /\ Publishes(StagesOf["night"], InventoryOf("check"))
          /\ Publishes(StagesOf["night"], InventoryOf("supplement"))
      BY <2>1, <2>2, <2>3, <2>4, PublishesJoin, JoinSimple
    <2>6. QED
      BY <2>5, PublishesFile DEF PlanNames
  <1>3. InventoryOf("severity") \in Files
    <2> DEFINE a == <<Await({<<"manifest", "severity">>})>>
               c == <<PhasedCampaign("severity")>>
               d == Derive("severity", "confirmatory")
               e == Score("severity")
    <2>1. /\ Simple(a, "severity") /\ Simple(ProtectedSplit, "severity") /\ Simple(c, "severity")
          /\ Simple(d, "severity") /\ Simple(e, "severity")
      BY Simple1, AwaitGood, ProtectedSplitSimple, CampaignGood, DeriveSimple, ScoreSimple
         DEF PhasedCampaign, OwnerOf
    <2>2. Publishes(d, InventoryOf("severity"))
      BY PublishesDerive
    <2>3. StagesOf["severity"] = (((a \o ProtectedSplit) \o c) \o d) \o e
      BY DEF StagesOf, SeverityPlan
    <2> HIDE DEF a, c, d, e
    <2>4. Publishes(StagesOf["severity"], InventoryOf("severity"))
      BY <2>1, <2>2, <2>3, PublishesJoin, JoinSimple
    <2>5. QED
      BY <2>4, PublishesFile DEF PlanNames
  <1>4. QED
    BY <1>1, <1>2, <1>3

\* So are those of the main plan, and its report.
LEMMA MainDerived ==
  InventoryOf("held") \in Files /\ Report("held") \in Files
  <1> DEFINE b == <<PhasedCampaign("held")>>
             c == Derive("held", "confirmatory")
             d == Score("held")
             e == <<Stage(EvaluateConfirmatory, {Report("held")})>>
             folds == Unless({Report("folds")}, FitFold \o EvaluateFold)
             g == <<Optional(Stage(AuditNaturalFailures, {Report("natural")})),
                    Optional(Stage(AnalyzeHypotheses({Report("held")}, "hypotheses"), {}))>>
  <1>1. /\ Simple(ProtectedSplit, "main") /\ Simple(c, "main") /\ Simple(d, "main")
    BY ProtectedSplitSimple, DeriveSimple, ScoreSimple
  <1>2. Simple(b, "main") /\ Simple(e, "main") /\ Simple(g, "main") /\ Simple(folds, "main")
    BY Simple1, Simple2, CampaignGood, EvaluationsGood, StageGood, OptionalGood, NaturalGood,
       HypothesesGood, FitFoldSimple, EvaluateFoldSimple, JoinSimple, UnlessSimple
       DEF PhasedCampaign, OwnerOf
  <1>3. Publishes(c, InventoryOf("held"))
    BY PublishesDerive
  <1>4. EvaluateConfirmatory.writes = <<Report("held")>>
    BY DEF EvaluateConfirmatory, Does, With, Bare
  <1>5. \A s, x, a : s.writes = <<a>> => a \in Range(Stage(s, x).do.writes)
    BY DEF Stage, Range
  <1>6. Publishes(e, Report("held"))
    BY <1>4, <1>5, Lists DEF Publishes
  <1>7. StagesOf["main"] = (((((ProtectedSplit \o b) \o c) \o d) \o e) \o folds) \o g
    BY DEF StagesOf, MainPlan
  <1> HIDE DEF b, c, d, e, g, folds
  <1>8. Publishes(StagesOf["main"], InventoryOf("held")) /\ Publishes(StagesOf["main"], Report("held"))
    <2> DEFINE x == (ProtectedSplit \o b) \o c
               y == (x \o d) \o e
    <2>1. Simple(x, "main") /\ Publishes(x, InventoryOf("held"))
      BY <1>1, <1>2, <1>3, PublishesJoin, JoinSimple
    <2> HIDE DEF x
    <2>2. /\ Simple(y, "main") /\ Publishes(y, InventoryOf("held"))
          /\ Publishes(y, Report("held"))
      BY <1>1, <1>2, <1>6, <2>1, PublishesJoin, JoinSimple
    <2>3. StagesOf["main"] = (y \o folds) \o g
      BY <1>7 DEF x
    <2> HIDE DEF y
    <2>4. QED
      BY <1>2, <2>2, <2>3, PublishesJoin, JoinSimple
  <1>9. QED
    BY <1>8, PublishesFile DEF PlanNames

-----------------------------------------------------------------------------
(* What holds in every state.                                                *)

Lasts(f) == f \in Files /\ ~Loose(f)

\* What a script has still to publish is the end of what it publishes.
Suffix(t, w) ==
    \E k \in 1..Len(w) : Len(t) = Len(w) - k + 1 /\ \A i \in 1..Len(t) : t[i] = w[k + i - 1]

Types ==
    /\ plans \subseteq PlanNames
    /\ file \in [Files -> {"no", "part", "cut", "full"}]
    /\ st \in [plans -> {"down", "idle", "busy", "done", "held"}]
    /\ at \in [plans -> Nat] /\ todo \in [plans -> Seq(Files)]
    /\ \A p \in plans : st[p] \in {"idle", "busy"} => at[p] \in 1..Len(StagesOf[p])
    /\ \A p \in plans : IF st[p] = "busy" THEN Suffix(todo[p], Current(p).do.writes) ELSE todo[p] = <<>>

\* What is sealed is complete, and the main report lacks no episode.
Sound ==
    /\ \A f \in Files \intersect Sealed : file[f] \in {"no", "full"}
    /\ \A f \in Files \intersect Whole : ~Short(f)

\* What must have been there before f.
Asked == {Rules, Secondary} \union Selected \union Model("p3")
Behind(f) ==
    /\ f \in ProtectedFiles => Exists(Freeze) /\ Exists(Alarm) /\ Exists(Splits)
    /\ f = Pairs => Exists(Splits)
    /\ f \in {Splits, Assignment} => Exists(Freeze) /\ Exists(Alarm)
    /\ f = Splits => Assignment \in Files /\ Exists(Assignment)
    /\ f \in {Freeze, Alarm} => \A g \in Asked : Exists(g)
    /\ f = Secondary => \A g \in Model("p4") : Exists(g)
    /\ \A m \in Learned : f \in Model(m) => <<"directory", m>> \in Files /\ Exists(<<"directory", m>>)
    /\ f[1] = "inventory" => <<"completion", f[2]>> \in Files /\ Full(<<"completion", f[2]>>)
Order == \A f \in Files : Exists(f) => Behind(f)

\* A script that runs still has what it asked for, and what it has published.
Work(p) ==
    st[p] = "busy" =>
      /\ \A f \in Current(p).do.need : ~Loose(f) => Exists(f)
      /\ Current(p).do.gate = "confirmatory" => \A f \in {Freeze, Alarm, Splits} : Exists(f)
      /\ \A f \in Current(p).do.whole : f[1] = "completion" => Full(f)
      /\ \A f \in Range(Current(p).do.writes) \ Range(todo[p]) : ~Loose(f) => Exists(f)
      /\ Current(p).do = EvaluateConfirmatory => \A f \in Tables : ~Short(f)

\* A plan is past a stage it was skipped for, or ran to its end.
Binding(stage) ==
    /\ stage.must /\ stage.done = {} /\ \A f \in stage.skip : Lasts(f)
    /\ stage.skip \intersect Range(stage.do.writes) # {}
Past(p) ==
    st[p] \in {"idle", "busy"} =>
      \A j \in 1..(at[p] - 1) :
        Binding(StagesOf[p][j]) => \E f \in StagesOf[p][j].skip : Exists(f)

\* A plan does not stand before a stage whose output it alone makes and has made.
Turn(p) ==
    st[p] = "idle" =>
      /\ p = "packet" /\ Current(p).do = FreezeRules => ~Exists(Rules)
      /\ \A f \in Current(p).do.aside : f[1] = "completion" => ~Full(f)

Fitted == Selected \union Model("p3") \union Model("p4")
Fresh(p) == \A f \in Range(todo[p]) \intersect Fitted : ~Exists(f)

StudyInv ==
    /\ Types /\ Sound /\ Order /\ FrozenStays
    /\ \A p \in plans : Work(p) /\ Past(p) /\ Turn(p) /\ Fresh(p)

-----------------------------------------------------------------------------
(* What a script has still to publish, and where a plan goes.                *)

\* The next file to publish is one the script publishes, and comes once.
LEMMA SuffixHead ==
  ASSUME NEW w, w \in Seq(Range(w)), Once(w), NEW T, NEW t \in Seq(T), Suffix(t, w)
  PROVE  /\ t # <<>> /\ Len(t) \in Nat \ {0} /\ Tail(t) \in Seq(T)
         /\ Head(t) \in Range(w) /\ Head(t) \in T /\ Range(t) \subseteq Range(w)
         /\ Range(t) = {Head(t)} \union Range(Tail(t)) /\ Head(t) \notin Range(Tail(t))
         /\ Len(t) > 1 => Suffix(Tail(t), w)
         /\ ~(Len(t) > 1) => Range(Tail(t)) = {}
  <1>1. PICK k \in 1..Len(w) : Len(t) = Len(w) - k + 1 /\ \A i \in 1..Len(t) : t[i] = w[k + i - 1]
    BY DEF Suffix
  <1>2. Len(w) \in Nat /\ DOMAIN w = 1..Len(w) /\ \A i \in 1..Len(w) : w[i] \in Range(w)
    BY RangeAt
  <1>3. Len(t) \in Nat \ {0} /\ t # <<>> /\ DOMAIN t = 1..Len(t)
    BY <1>1, <1>2, LenProperties
  <1>4. Tail(t) \in Seq(T) /\ Len(Tail(t)) = Len(t) - 1 /\ Head(t) = t[1] /\ Head(t) \in T
        /\ DOMAIN Tail(t) = 1..(Len(t) - 1) /\ \A i \in 1..(Len(t) - 1) : Tail(t)[i] = t[i + 1]
    BY <1>3, HeadTailProperties, LenProperties
  <1>5. \A i \in 1..Len(t) : k + i - 1 \in 1..Len(w) /\ t[i] = w[k + i - 1]
    BY <1>1, <1>2
  <1>6. Head(t) \in Range(w) /\ Range(t) \subseteq Range(w)
    <2>1. \A i \in 1..Len(t) : t[i] \in Range(w)
      BY <1>2, <1>5
    <2>2. 1 \in 1..Len(t)
      BY <1>3
    <2>3. QED
      BY <1>3, <1>4, <2>1, <2>2 DEF Range
  <1>7. Range(t) = {Head(t)} \union Range(Tail(t))
    <2>1. \A i \in 1..Len(t) : i # 1 => i - 1 \in 1..(Len(t) - 1) /\ t[i] = Tail(t)[i - 1]
      <3>1. \A i \in 1..Len(t) : i # 1 => i - 1 \in 1..(Len(t) - 1) /\ (i - 1) + 1 = i
        BY <1>3
      <3>2. QED
        BY <1>4, <3>1
    <2>2. \A i \in 1..(Len(t) - 1) : i + 1 \in 1..Len(t) /\ t[i + 1] = Tail(t)[i]
      BY <1>3, <1>4
    <2>3. 1 \in 1..Len(t)
      BY <1>3
    <2>4. \A i \in 1..Len(t) : t[i] \in {Head(t)} \union Range(Tail(t))
      BY <1>4, <2>1 DEF Range
    <2>5. \A i \in 1..(Len(t) - 1) : Tail(t)[i] \in Range(t)
      BY <1>3, <2>2 DEF Range
    <2>6. Head(t) \in Range(t)
      BY <1>3, <1>4, <2>3 DEF Range
    <2>7. QED
      BY <1>3, <1>4, <2>4, <2>5, <2>6 DEF Range
  <1>8. Head(t) \notin Range(Tail(t))
    <2>1. SUFFICES ASSUME NEW i \in 1..(Len(t) - 1), Tail(t)[i] = Head(t)
                   PROVE  FALSE
      BY <1>4 DEF Range
    <2>2. i + 1 \in 1..Len(t) /\ 1 \in 1..Len(t) /\ i \in Nat
      BY <1>3
    <2>3. w[k + (i + 1) - 1] = w[k + 1 - 1]
      BY <1>4, <1>5, <2>1, <2>2
    <2>4. k + (i + 1) - 1 = k + 1 - 1
      BY <1>2, <1>5, <2>2, <2>3 DEF Once
    <2>5. QED
      BY <2>2, <2>4
  <1>9. ASSUME Len(t) > 1
        PROVE  Suffix(Tail(t), w)
    <2>1. k + 1 \in 1..Len(w) /\ Len(Tail(t)) = Len(w) - (k + 1) + 1
      BY <1>1, <1>2, <1>4, <1>9
    <2>2. \A i \in 1..Len(Tail(t)) : Tail(t)[i] = w[(k + 1) + i - 1]
      <3>1. TAKE i \in 1..Len(Tail(t))
      <3>2. i + 1 \in 1..Len(t) /\ i \in 1..(Len(t) - 1) /\ k + (i + 1) - 1 = (k + 1) + i - 1
        BY <1>3, <1>4
      <3>3. QED
        BY <1>4, <1>5, <3>2
    <2>3. QED
      BY <2>1, <2>2 DEF Suffix
  <1>10. ~(Len(t) > 1) => Range(Tail(t)) = {}
    BY <1>3, <1>4 DEF Range
  <1>11. QED
    BY <1>3, <1>4, <1>6, <1>7, <1>8, <1>9, <1>10

\* At its start a script has everything to publish.
LEMMA SuffixWhole ==
  ASSUME NEW w, w \in Seq(Range(w)), w # <<>>
  PROVE  Suffix(w, w)
  <1>1. Len(w) \in Nat \ {0}
    BY EmptySeq, LenProperties
  <1>2. 1 \in 1..Len(w) /\ Len(w) = Len(w) - 1 + 1 /\ \A i \in 1..Len(w) : w[i] = w[1 + i - 1]
    BY <1>1
  <1>3. QED
    BY <1>2 DEF Suffix

\* What comes before the next file to publish is published.
LEMMA SuffixBefore ==
  ASSUME NEW w, w \in Seq(Range(w)), Once(w), NEW T, NEW t \in Seq(T), Suffix(t, w),
         NEW i \in 1..Len(w), NEW j \in 1..Len(w), i < j, w[j] = Head(t)
  PROVE  w[i] \notin Range(t)
  <1>1. PICK k \in 1..Len(w) : Len(t) = Len(w) - k + 1 /\ \A n \in 1..Len(t) : t[n] = w[k + n - 1]
    BY DEF Suffix
  <1>2. Len(w) \in Nat /\ DOMAIN w = 1..Len(w) /\ Len(t) \in Nat \ {0} /\ DOMAIN t = 1..Len(t)
    <2>1. Len(w) \in Nat /\ DOMAIN w = 1..Len(w)
      BY RangeAt
    <2>2. QED
      BY <1>1, <2>1, LenProperties
  <1>3. Head(t) = t[1] /\ 1 \in 1..Len(t)
    BY <1>2, HeadTailProperties, EmptySeq
  <1>4. j = k
    <2>1. w[k + 1 - 1] = w[j] /\ k + 1 - 1 = k
      BY <1>1, <1>2, <1>3
    <2>2. QED
      BY <1>2, <2>1 DEF Once
  <1>5. ASSUME NEW n \in 1..Len(t), t[n] = w[i]
        PROVE  FALSE
    <2>1. k + n - 1 \in 1..Len(w) /\ w[k + n - 1] = w[i] /\ n >= 1 /\ n \in Nat
      BY <1>1, <1>2, <1>5
    <2>2. k + n - 1 = i
      BY <1>2, <2>1 DEF Once
    <2>3. QED
      BY <1>4, <2>1, <2>2
  <1>6. QED
    BY <1>2, <1>5 DEF Range

\* A set of indices has a least one.
LEMMA MinExists ==
  ASSUME NEW S, S \subseteq Nat, S # {}
  PROVE  Min(S) \in S /\ \A y \in S : Min(S) <= y
  <1>1. \E x \in S : \A y \in S : ~(<<y, x>> \in OpToRel(<, Nat))
    BY NatLessThanWellFounded, WFMin
  <1>2. ASSUME NEW x \in Nat, NEW y \in Nat
        PROVE  <<y, x>> \in OpToRel(<, Nat) <=> y < x
    BY <1>2 DEF OpToRel
  <1>3. PICK x \in S : \A y \in S : ~(<<y, x>> \in OpToRel(<, Nat))
    BY <1>1
  <1>4. ASSUME NEW y \in S
        PROVE  x <= y
    <2>1. x \in Nat /\ y \in Nat
      OBVIOUS
    <2>2. ~(y < x)
      BY <1>2, <1>3, <2>1
    <2>3. QED
      BY <2>1, <2>2
  <1>5. QED
    BY <1>4 DEF Min

States == {"down", "idle", "busy", "done", "held"}

\* The other plans are where they were.
Alone(p) ==
    /\ plans' = plans /\ st' \in [plans -> States] /\ at' \in [plans -> Nat]
    /\ \A q \in plans \ {p} : st'[q] = st[q] /\ at'[q] = at[q]

\* The plan is down, at its end, or before the first stage from i on that it does not skip.
Lands(p, i) ==
    /\ Alone(p) /\ st'[p] \in {"down", "done", "idle"}
    /\ st'[p] = "idle" =>
         /\ at'[p] \in i..Len(StagesOf[p]) /\ ~Skipped(StagesOf[p][at'[p]], file')
         /\ \A k \in i..(at'[p] - 1) : Skipped(StagesOf[p][k], file')

\* A plan that goes to its next stage lands there, or at its end.
LEMMA GotoLands ==
  ASSUME Types, NEW p \in plans, NEW i \in Nat \ {0}, plans' = plans, Goto(p, i)
  PROVE  Lands(p, i)
  <1> DEFINE left == {k \in i..Len(StagesOf[p]) : ~Skipped(StagesOf[p][k], file')}
  <1>1. Len(StagesOf[p]) \in Nat /\ left \subseteq Nat
    BY StagesAt DEF Types
  <1>2. st \in [plans -> States] /\ at \in [plans -> Nat]
    BY DEF Types, States
  <1>3. CASE left = {}
    <2>1. st' = [st EXCEPT ![p] = "done"] /\ at' = at
      BY <1>3 DEF Goto
    <2>2. QED
      BY <1>2, <2>1 DEF Lands, Alone, States
  <1>4. CASE left # {}
    <2>1. st' = [st EXCEPT ![p] = "idle"] /\ at' = [at EXCEPT ![p] = Min(left)]
      BY <1>4 DEF Goto
    <2>2. Min(left) \in left /\ \A y \in left : Min(left) <= y
      BY <1>1, <1>4, MinExists
    <2> DEFINE n == Min(left)
    <2> HIDE DEF n
    <2>3. n \in left /\ \A y \in left : n <= y
      BY <2>2 DEF n
    <2>4. st' = [st EXCEPT ![p] = "idle"] /\ at' = [at EXCEPT ![p] = n]
      BY <2>1 DEF n
    <2>5. \A k \in i..(n - 1) : Skipped(StagesOf[p][k], file')
      <3>1. TAKE k \in i..(n - 1)
      <3>2. k \in i..Len(StagesOf[p]) /\ ~(n <= k)
        BY <1>1, <2>3
      <3>3. QED
        BY <2>3, <3>2
    <2>6. n \in i..Len(StagesOf[p]) /\ ~Skipped(StagesOf[p][n], file') /\ n \in Nat
      BY <1>1, <2>3
    <2>7. at'[p] = n /\ st'[p] = "idle" /\ Alone(p)
      BY <1>2, <2>4, <2>6 DEF Alone, States
    <2>8. QED
      BY <2>5, <2>6, <2>7 DEF Lands
  <1>5. QED
    BY <1>3, <1>4

\* A plan whose stage failed is down, or lands on a later stage.
LEMMA FailsLands ==
  ASSUME Types, NEW p \in plans, plans' = plans, st[p] \in {"idle", "busy"}, Fails(p) \/ Onward(p)
  PROVE  Lands(p, at[p] + 1) /\ (Fails(p) /\ Current(p).must => st'[p] = "down")
  <1>1. at[p] + 1 \in Nat \ {0} /\ st \in [plans -> States] /\ at \in [plans -> Nat]
    BY DEF Types, States
  <1>2. Onward(p) => Lands(p, at[p] + 1)
    BY <1>1, GotoLands DEF Onward
  <1>3. Fails(p) /\ Current(p).must => Lands(p, at[p] + 1) /\ st'[p] = "down"
    BY <1>1 DEF Fails, Lands, Alone, States
  <1>4. Fails(p) /\ ~Current(p).must => Lands(p, at[p] + 1)
    BY <1>2 DEF Fails
  <1>5. QED
    BY <1>2, <1>3, <1>4

-----------------------------------------------------------------------------
(* What a step does to the files.                                            *)

\* A plan that stands before a stage, or runs its script.
Standing(p) ==
    LET s == Current(p).do IN
    /\ p \in PlanNames /\ at[p] \in 1..Len(StagesOf[p]) /\ Len(StagesOf[p]) \in Nat
    /\ Current(p) = StagesOf[p][at[p]]
    /\ Good(Current(p), p)
    /\ Range(s.writes) \subseteq Files /\ s.need \subseteq Files /\ s.whole \subseteq Files
    /\ s.refuse \subseteq Files

\* A plan that is not down stands before one of its stages.
LEMMA StandingIs ==
  ASSUME Types, NEW p \in plans, st[p] \in {"idle", "busy"}
  PROVE  Standing(p)
  <1>1. p \in PlanNames /\ at[p] \in 1..Len(StagesOf[p])
    BY DEF Types
  <1>2. Current(p) = StagesOf[p][at[p]] /\ Current(p) \in Range(StagesOf[p])
    BY <1>1, StagesAt DEF Current
  <1>3. Good(Current(p), p) /\ Len(StagesOf[p]) \in Nat
    BY <1>1, <1>2, StagesAt
  <1>4. QED
    BY <1>1, <1>2, <1>3, ScriptFiles DEF Standing

Running(p) ==
    LET s == Current(p).do
        t == todo[p] IN
    /\ Standing(p) /\ t \in Seq(Files) /\ Suffix(t, s.writes) /\ Tidy(s)
    /\ t # <<>> /\ Len(t) \in Nat \ {0} /\ Tail(t) \in Seq(Files)
    /\ Head(t) \in Range(s.writes) /\ Head(t) \in Files /\ Range(t) \subseteq Range(s.writes)
    /\ Range(t) = {Head(t)} \union Range(Tail(t)) /\ Head(t) \notin Range(Tail(t))
    /\ Len(t) > 1 => Suffix(Tail(t), s.writes)
    /\ ~(Len(t) > 1) => Range(Tail(t)) = {}
    /\ \A f \in Range(s.writes) : Fine(s, p, f)

\* A script that runs has a next file to publish.
LEMMA RunningIs ==
  ASSUME Types, NEW p \in plans, st[p] = "busy"
  PROVE  Running(p)
  <1>1. Standing(p)
    BY StandingIs
  <1>2. Tidy(Current(p).do) /\ \A f \in Range(Current(p).do.writes) : Fine(Current(p).do, p, f)
    BY <1>1 DEF Standing, Good
  <1>3. Current(p).do.writes \in Seq(Range(Current(p).do.writes)) /\ Once(Current(p).do.writes)
    BY <1>2 DEF Tidy
  <1>4. todo[p] \in Seq(Files) /\ Suffix(todo[p], Current(p).do.writes)
    BY DEF Types
  <1> DEFINE w == Current(p).do.writes
             t == todo[p]
  <1>5. /\ t # <<>> /\ Len(t) \in Nat \ {0} /\ Tail(t) \in Seq(Files)
        /\ Head(t) \in Range(w) /\ Head(t) \in Files /\ Range(t) \subseteq Range(w)
        /\ Range(t) = {Head(t)} \union Range(Tail(t)) /\ Head(t) \notin Range(Tail(t))
        /\ Len(t) > 1 => Suffix(Tail(t), w)
        /\ ~(Len(t) > 1) => Range(Tail(t)) = {}
    BY <1>3, <1>4, SuffixHead
  <1>6. QED
    BY <1>1, <1>2, <1>4, <1>5 DEF Running

\* What is made from tables that are all there is not short.
LEMMA WorstIs ==
  ASSUME NEW fs
  PROVE  /\ Worst(fs) \in {"part", "cut", "full"} /\ (fs = {} => Worst(fs) = "full")
         /\ (\A f \in fs : ~Short(f) /\ Exists(f)) => Worst(fs) # "part"
  BY DEF Worst, Full, Short, Exists

\* The main evaluation asks for the tables it compares, and has nothing else to go by.
LEMMA EvaluationIs ==
  /\ EvaluateConfirmatory.from = Tables /\ EvaluateConfirmatory.paired = Tables
  /\ Tables \subseteq EvaluateConfirmatory.need /\ EvaluateConfirmatory.chance = FALSE
  /\ EvaluateConfirmatory.writes = <<Report("held")>> /\ Alarmed("p3", "held") \in Tables
  BY DEF EvaluateConfirmatory, Does, With, Bare, Tables, Learned

\* Who moves a file aside, publishes it, or makes its directory.
Change(p) ==
    \A f \in Files :
      \/ file'[f] = file[f]
      \/ Loose(f) /\ file'[f] = "no" /\ (f[1] = "completion" => ~Full(f))
      \/ /\ st[p] = "busy" /\ f = Head(todo[p]) /\ file'[f] \in {"part", "cut", "full"}
         /\ ~Exists(f) \/ Streamed(f) \/ f \in Sealed
         /\ f \in Sealed => file'[f] = "full"
         /\ f \in Whole => file'[f] # "part"
      \/ f[1] = "directory" /\ file'[f] \in {"part", "cut", "full"}

Values == {"no", "part", "cut", "full"}

\* The files the properties are about are never moved aside.
LEMMA Lasting ==
  /\ \A f \in Sealed \union Fitted \union Tables \union Whole \union ProtectedFiles \union {Pairs} : ~Loose(f)
  /\ \A f \in Sealed \union Fitted \union Tables \union Whole \union ProtectedFiles \union {Pairs} :
       f[1] \notin {"directory", "completion"}
  /\ \A m \in Learned : ~Loose(<<"directory", m>>)
  <1>1. \A f : f[1] \notin {"report", "text", "calibrated", "completion", "directory"} => ~Loose(f)
    BY DEF Loose, Report, Calibrated
  <1>2. \A f \in Sealed : f[1] \in {"freeze", "alarm", "rules", "secondary", "splits", "assignment"}
    BY Kinds
  <1>3. \A f \in Selected : \/ f[1] \in {"calibrator", "calibration", "threshold"}
                            \/ f = Calibrated("p3", "validation")
    BY DEF Selected
  <1>4. \A m : \A f \in Model(m) : f[1] \in {"checkpoint", "record"}
    BY Kinds
  <1>5. \A f \in ProtectedFiles : f[1] \in {"inventory", "extraction", "decisions", "outcomes", "raw"}
    BY Kinds
  <1>6. /\ \A f \in Tables : f[1] = "alarmed"
        /\ Pairs[1] = "manifest"
    BY Kinds
  <1>7. ~Loose(Calibrated("p3", "validation")) /\ Calibrated("p3", "validation")[1] = "calibrated"
    BY DEF Loose, Calibrated, Report
  <1>8. \A f \in Whole : ~Loose(f) /\ f[1] \in {"raw", "calibrated", "alarmed", "report"}
    <2>1. \A f \in Atomic : f[1] \in {"raw", "calibrated", "alarmed"} /\ f[2] = "p3"
      BY Kinds
    <2>2. \A f : f[1] \in {"raw", "calibrated", "alarmed"} /\ f[2] = "p3" => ~Loose(f)
      BY DEF Loose, Report, Calibrated
    <2>3. ~Loose(Report("held")) /\ Report("held")[1] = "report"
      BY DEF Loose, Report, Calibrated
    <2>4. QED
      BY <2>1, <2>2, <2>3 DEF Whole
  <1>9. \A m \in Learned : ~Loose(<<"directory", m>>)
    BY DEF Learned, Loose, Report, Calibrated
  <1>10. QED
    BY <1>1, <1>2, <1>3, <1>4, <1>5, <1>6, <1>7, <1>8, <1>9 DEF Fitted

\* The steps that touch a file: a start, a launch, a row, a publication.
LEMMA StartChange ==
  ASSUME Types, NEW p \in plans, Start(p)
  PROVE  Change(p) /\ file' \in [Files -> Values]
  <1>1. file' = [f \in Files |-> IF p = "main" /\ f \in Swept THEN "no" ELSE file[f]]
    BY DEF Start
  <1>2. file \in [Files -> Values]
    BY DEF Types, Values
  <1>3. \A f \in Swept : f[1] = "directory" /\ f[2] \in {"fold", "ablation"}
    <2>1. Swept \subseteq {<<"directory", "fold">>, <<"directory", "ablation">>}
      BY DEF Swept
    <2>2. QED
      BY <2>1
  <1> DEFINE swept == Swept
  <1> HIDE DEF swept
  <1>4. \A f \in swept : f[1] = "directory" /\ Loose(f)
    BY <1>3 DEF swept, Loose
  <1>5. file' = [f \in Files |-> IF p = "main" /\ f \in swept THEN "no" ELSE file[f]]
    BY <1>1 DEF swept
  <1>6. \A f \in Files : file'[f] = file[f] \/ (Loose(f) /\ file'[f] = "no" /\ f[1] = "directory")
    BY <1>4, <1>5
  <1>7. file' \in [Files -> Values]
    BY <1>2, <1>5 DEF Values
  <1>8. QED
    BY <1>6, <1>7 DEF Change

LEMMA LaunchChange ==
  ASSUME Types, NEW p \in plans, Turn(p), Launch(p)
  PROVE  Change(p) /\ file' \in [Files -> Values]
  <1> DEFINE aside == Current(p).do.aside
  <1>1. file' = [f \in Files |-> IF f \in aside THEN "no" ELSE file[f]]
    BY DEF Launch
  <1>2. file \in [Files -> Values]
    BY DEF Types, Values
  <1>3. st[p] = "idle"
    BY DEF Launch, Ready
  <1>4. Tidy(Current(p).do)
    BY <1>3, StandingIs DEF Standing, Good
  <1>5. \A f \in aside : Loose(f)
    BY <1>4 DEF Tidy
  <1>6. \A f \in aside : f[1] = "completion" => ~Full(f)
    BY <1>3 DEF Turn
  <1> HIDE DEF aside
  <1>7. \A f \in Files : file'[f] = file[f] \/ (f \in aside /\ file'[f] = "no")
    BY <1>1
  <1>8. file' \in [Files -> Values]
    BY <1>1, <1>2 DEF Values
  <1>9. QED
    BY <1>5, <1>6, <1>7, <1>8 DEF Change

LEMMA OpenChange ==
  ASSUME Types, NEW p \in plans, Open(p)
  PROVE  Change(p) /\ file' \in [Files -> Values]
  <1> DEFINE h == Head(todo[p])
  <1>1. st[p] = "busy" /\ h \in Current(p).do.streams /\ ~Exists(h)
    BY DEF Open
  <1>2. PICK q \in Torn : file' = [file EXCEPT ![h] = q]
    BY DEF Open
  <1>3. file \in [Files -> Values] /\ q \in {"part", "cut"}
    BY DEF Types, Values, Torn
  <1>4. Running(p)
    BY <1>1, RunningIs
  <1>5. h \in Files /\ Streamed(h)
    BY <1>1, <1>4 DEF Running, Tidy
  <1>6. h \notin Sealed /\ h \notin Whole
    <2>1. \A f \in Sealed : f[1] \in {"freeze", "alarm", "rules", "secondary", "splits", "assignment"}
      BY Kinds
    <2>2. h \notin Atomic
      BY <1>1, <1>4 DEF Running, Fine, Reports
    <2>3. /\ Report("held_ablations")[1] = "report" /\ Report("held_ablations")[2] = "held_ablations"
          /\ Report("held")[1] = "report" /\ Report("held")[2] = "held"
      BY Kinds
    <2>4. h[1] \in {"raw", "kept", "alarmed"} \/ (h[1] = "report" /\ h[2] = "held_ablations")
      BY <1>5, <2>3 DEF Streamed
    <2> HIDE DEF h
    <2>5. QED
      BY <2>1, <2>2, <2>3, <2>4 DEF Whole
  <1> HIDE DEF h
  <1>7. \A f \in Files : file'[f] = file[f] \/ (f = h /\ file'[f] = q)
    BY <1>2, <1>3, <1>5
  <1>8. file' \in [Files -> Values]
    BY <1>2, <1>3, <1>5 DEF Values
  <1>9. ASSUME NEW f \in Files, f = h, file'[f] = q
        PROVE  /\ st[p] = "busy" /\ f = Head(todo[p]) /\ file'[f] \in {"part", "cut", "full"}
               /\ ~Exists(f) \/ Streamed(f) \/ f \in Sealed
               /\ f \in Sealed => file'[f] = "full"
               /\ f \in Whole => file'[f] # "part"
    BY <1>1, <1>3, <1>5, <1>6, <1>9 DEF h
  <1>10. QED
    BY <1>7, <1>8, <1>9 DEF Change

\* What a script asked for is there as long as it runs.
LEMMA Needed ==
  ASSUME NEW p, Standing(p), Work(p), st[p] = "busy", NEW f \in Current(p).do.need, ~Loose(f)
  PROVE  f \in Files /\ Exists(f)
  BY DEF Standing, Work

\* What is published is complete where it is sealed, and whole where it must be.
LEMMA PublishedIs ==
  ASSUME Sound, NEW p \in plans, Running(p), Work(p), st[p] = "busy", NEW f, f = Head(todo[p])
  PROVE  /\ f \in Sealed => Worst(Current(p).do.from) = "full" /\ ~Current(p).do.chance
         /\ f \in Whole => Worst(Current(p).do.from) # "part" /\ ~Current(p).do.chance
  <1> DEFINE s == Current(p).do
  <1>1. Fine(s, p, f) /\ Standing(p)
    BY DEF Running
  <1>2. ASSUME f \in Sealed
        PROVE  Worst(s.from) = "full" /\ ~s.chance
    <2>1. s \in {FreezeRules, FreezeSecondary, FreezeModel, AssignProtectedSplit}
      BY <1>1, <1>2 DEF Fine, Freezes, Sealed
    <2>2. s.from = {} /\ s.chance = FALSE
      BY <2>1, Freezers
    <2>3. QED
      BY <2>2, WorstIs
  <1>3. ASSUME f \in Atomic
        PROVE  Worst(s.from) # "part" /\ ~s.chance
    <2>1. s.from \subseteq Atomic \intersect s.need /\ ~s.chance
      BY <1>1, <1>3 DEF Fine, Reports
    <2>2. \A g \in s.from : ~Loose(g)
      BY <2>1, Lasting DEF Whole
    <2>3. \A g \in s.from : g \in Files /\ Exists(g)
      BY <1>1, <2>1, <2>2, Needed
    <2>4. \A g \in s.from : ~Short(g) /\ Exists(g)
      BY <2>1, <2>3 DEF Sound, Whole
    <2>5. QED
      BY <2>1, <2>4, WorstIs
  <1>4. ASSUME f = Report("held")
        PROVE  Worst(s.from) # "part" /\ ~s.chance
    <2>1. s = EvaluateConfirmatory
      BY <1>1, <1>4 DEF Fine, Reports
    <2>2. s.from = Tables /\ Tables \subseteq s.need /\ s.chance = FALSE
      BY <2>1, EvaluationIs
    <2>3. \A g \in s.from : ~Loose(g)
      BY <2>2, Lasting
    <2>4. \A g \in s.from : ~Short(g) /\ Exists(g)
      <3>1. \A g \in Tables : ~Short(g)
        BY <2>1 DEF Work
      <3>2. QED
        BY <1>1, <2>2, <2>3, <3>1, Needed
    <2>5. QED
      BY <2>2, <2>4, WorstIs
  <1>5. QED
    BY <1>2, <1>3, <1>4 DEF Whole

LEMMA PublishChange ==
  ASSUME Types, Sound, NEW p \in plans, Work(p), Publish(p)
  PROVE  /\ Change(p) /\ file' \in [Files -> Values] /\ st[p] = "busy"
         /\ file'[Head(todo[p])] \in {"part", "cut", "full"}
  <1> DEFINE h == Head(todo[p])
             s == Current(p).do
  <1>1. /\ st[p] = "busy"
        /\ IF h \in s.streams THEN Exists(h) ELSE h \in s.inplace \/ ~Exists(h)
        /\ \/ file' = [g \in Files |-> IF g \in MadeWith(h) THEN Worst(s.from) ELSE file[g]]
           \/ s.chance /\ file' = [file EXCEPT ![h] = "part"]
    BY DEF Publish
  <1>2. Running(p) /\ file \in [Files -> Values]
    BY <1>1, RunningIs DEF Types, Values
  <1>3. h \in Files /\ Tidy(s)
    BY <1>2 DEF Running
  <1>4. ~Exists(h) \/ Streamed(h) \/ h \in Sealed
    BY <1>1, <1>3 DEF Tidy
  <1>5. /\ h \in Sealed => Worst(s.from) = "full" /\ ~s.chance
        /\ h \in Whole => Worst(s.from) # "part" /\ ~s.chance
    BY <1>1, <1>2, PublishedIs
  <1>6. h \in MadeWith(h) /\ \A g \in MadeWith(h) : g = h \/ g[1] = "directory"
    BY DEF MadeWith
  <1>7. Worst(s.from) \in {"part", "cut", "full"}
    BY WorstIs
  <1> DEFINE worst == Worst(s.from)
             made == MadeWith(h)
             chance == s.chance
             Mine(f) == /\ st[p] = "busy" /\ f = Head(todo[p]) /\ file'[f] \in {"part", "cut", "full"}
                        /\ ~Exists(f) \/ Streamed(f) \/ f \in Sealed
                        /\ f \in Sealed => file'[f] = "full"
                        /\ f \in Whole => file'[f] # "part"
  <1>8. CASE file' = [g \in Files |-> IF g \in made THEN worst ELSE file[g]]
    <2> HIDE DEF worst, made
    <2>1. file' \in [Files -> Values] /\ file'[h] = worst
      BY <1>2, <1>3, <1>6, <1>7, <1>8 DEF Values, worst, made
    <2>2. \A f \in Files : file'[f] = file[f] \/ f = h \/ (f[1] = "directory" /\ file'[f] = worst)
      BY <1>6, <1>8 DEF made
    <2>3. worst \in {"part", "cut", "full"}
      BY <1>7 DEF worst
    <2>4. Mine(h)
      BY <1>1, <1>4, <1>5, <2>1, <2>3 DEF worst
    <2>5. Change(p)
      <3> HIDE DEF h
      <3>1. \A f \in Files : file'[f] = file[f] \/ Mine(f) \/ (f[1] = "directory" /\ file'[f] \in {"part", "cut", "full"})
        BY <2>2, <2>3, <2>4
      <3>2. QED
        BY <3>1 DEF Change
    <2>6. QED
      BY <1>1, <2>1, <2>3, <2>5
  <1>9. CASE chance /\ file' = [file EXCEPT ![h] = "part"]
    <2>1. file' \in [Files -> Values] /\ file'[h] = "part"
      BY <1>2, <1>3, <1>9 DEF Values
    <2>2. \A f \in Files : file'[f] = file[f] \/ f = h
      BY <1>2, <1>3, <1>9
    <2>3. Mine(h)
      BY <1>1, <1>4, <1>5, <1>9, <2>1
    <2>4. Change(p)
      <3> HIDE DEF h
      <3>1. \A f \in Files : file'[f] = file[f] \/ Mine(f)
        BY <2>2, <2>3
      <3>2. QED
        BY <3>1 DEF Change
    <2>5. QED
      BY <1>1, <2>1, <2>4
  <1>10. QED
    BY <1>1, <1>8, <1>9

\* A step of a plan.
Moves(p) == Step(p) \/ Hold(p) \/ Kill(p)

\* Every step changes files only as their owners may.
LEMMA Changes ==
  ASSUME Types, Sound, NEW p \in plans, Work(p), Turn(p), Moves(p)
  PROVE  Change(p) /\ file' \in [Files -> Values]
  <1>1. UNCHANGED file => Change(p) /\ file' \in [Files -> Values]
    BY DEF Change, Types, Values
  <1>2. Refuse(p) \/ Lose(p) \/ Hold(p) \/ Kill(p) => UNCHANGED file
    BY DEF Refuse, Lose, Hold, Kill
  <1>3. QED
    BY <1>1, <1>2, StartChange, LaunchChange, OpenChange, PublishChange DEF Moves, Step

-----------------------------------------------------------------------------
(* What is published stays, and came after what it was made from.            *)

\* What exists stays, a complete record stays complete, and what is new was published.
LEMMA Grows ==
  ASSUME Types, NEW p \in plans, Change(p)
  PROVE  /\ \A f \in Files : ~Loose(f) /\ Exists(f) => Exists(f)'
         /\ \A f \in Files : f[1] = "completion" /\ Full(f) => Full(f)'
         /\ \A f \in Files : f[1] # "directory" /\ Exists(f)' =>
              Exists(f) \/ (st[p] = "busy" /\ f = Head(todo[p]))
  <1>1. \A f \in Files : ~Loose(f) /\ Exists(f) => Exists(f)'
    BY DEF Change, Exists
  <1>2. \A f \in Files : f[1] = "completion" /\ Full(f) => Full(f)'
    <2>1. \A f \in Sealed : f[1] # "completion"
      BY Lasting
    <2>2. \A f : Streamed(f) => f[1] # "completion"
      BY DEF Streamed, Report
    <2>3. QED
      BY <2>1, <2>2 DEF Change, Exists, Full
  <1>3. \A f \in Files : f[1] # "directory" /\ Exists(f)' =>
          Exists(f) \/ (st[p] = "busy" /\ f = Head(todo[p]))
    BY DEF Change, Exists
  <1>4. QED
    BY <1>1, <1>2, <1>3

\* The packet freezes the model when the rules and the secondary predictor are frozen.
LEMMA ModelLast ==
  ASSUME Types, "packet" \in plans, Past("packet"), st["packet"] \in {"idle", "busy"},
         Current("packet").do = FreezeModel
  PROVE  Exists(Rules) /\ Exists(Secondary)
  <1>1. at["packet"] \in 1..5 /\ Current("packet") = StagesOf["packet"][at["packet"]]
    BY StandingIs, PacketAt DEF Standing
  <1>2. FreezeModel.writes = <<Freeze, Alarm>>
    BY Freezers
  <1>3. Bare # FreezeModel /\ SelectSeed # FreezeModel
    <2>1. Bare.writes = <<>> /\ SelectSeed.writes = <<Report("seeds")>>
      BY DEF SelectSeed, Does, With, Bare
    <2>2. QED
      BY <1>2, <2>1
  <1>4. FreezeRules # FreezeModel /\ FreezeSecondary # FreezeModel
    <2>1. FreezeRules.writes = <<Rules>> /\ FreezeSecondary.writes = <<Secondary>>
      BY Freezers
    <2>2. QED
      BY <1>2, <2>1
  <1>5. /\ StagesOf["packet"][1].do # FreezeModel /\ StagesOf["packet"][2].do # FreezeModel
        /\ StagesOf["packet"][3].do # FreezeModel /\ StagesOf["packet"][4].do # FreezeModel
    <2>1. Stage(FreezeRules, {Rules}).do = FreezeRules /\ Stage(FreezeSecondary, {Secondary}).do = FreezeSecondary
      BY DEF Stage
    <2>2. QED
      BY <1>3, <1>4, <2>1, PacketAt
  <1>6. at["packet"] = 5
    BY <1>1, <1>5
  <1>7. /\ Binding(Stage(FreezeRules, {Rules})) /\ Binding(Stage(FreezeSecondary, {Secondary}))
        /\ Stage(FreezeRules, {Rules}).skip = {Rules}
        /\ Stage(FreezeSecondary, {Secondary}).skip = {Secondary}
    <2>1. ASSUME NEW s, NEW f, s.writes = <<f>>, f \in {Rules, Secondary}
          PROVE  Binding(Stage(s, {f})) /\ Stage(s, {f}).skip = {f}
      <3>1. /\ Stage(s, {f}).do = s /\ Stage(s, {f}).skip = {f} /\ Stage(s, {f}).done = {}
            /\ Stage(s, {f}).must
        BY DEF Stage
      <3>2. Range(s.writes) = {f}
        BY <2>1, Lists
      <3>3. Lasts(f)
        BY <2>1, Lasting, PacketFiles DEF Lasts, Sealed
      <3>4. QED
        BY <3>1, <3>2, <3>3 DEF Binding
    <2>2. QED
      BY <2>1, Freezers
  <1>8. \A j \in 1..4 : Binding(StagesOf["packet"][j]) => \E f \in StagesOf["packet"][j].skip : Exists(f)
    BY <1>6 DEF Past
  <1> DEFINE three == Stage(FreezeRules, {Rules})
             four == Stage(FreezeSecondary, {Secondary})
  <1>9. StagesOf["packet"][3] = three /\ StagesOf["packet"][4] = four
    BY PacketAt
  <1> HIDE DEF three, four
  <1>10. /\ Binding(three) => \E f \in three.skip : Exists(f)
         /\ Binding(four) => \E f \in four.skip : Exists(f)
    <2>1. 3 \in 1..4 /\ 4 \in 1..4
      OBVIOUS
    <2>2. QED
      BY <1>8, <1>9, <2>1
  <1>11. /\ Binding(three) /\ Binding(four) /\ three.skip = {Rules} /\ four.skip = {Secondary}
    BY <1>7 DEF three, four
  <1>12. QED
    BY <1>10, <1>11

\* A model is published after its directory, the split after its record.
LEMMA PublishedBefore ==
  ASSUME NEW p \in plans, Running(p), Work(p), st[p] = "busy", NEW f, f = Head(todo[p])
  PROVE  /\ \A m \in Learned : f \in Model(m) /\ Current(p).do = TrainPredictor(m) =>
              <<"directory", m>> \in Files /\ Exists(<<"directory", m>>)
         /\ f = Splits /\ Current(p).do = AssignProtectedSplit => Assignment \in Files /\ Exists(Assignment)
  <1> DEFINE w == Current(p).do.writes
             t == todo[p]
  <1>1. /\ w \in Seq(Range(w)) /\ Once(w) /\ t \in Seq(Files) /\ Suffix(t, w)
        /\ Range(w) \subseteq Files
        /\ \A g \in Range(w) \ Range(t) : ~Loose(g) => Exists(g)
    BY DEF Running, Standing, Tidy, Work
  <1>2. ASSUME NEW i \in 1..Len(w), NEW j \in 1..Len(w), i < j, w[j] = f, ~Loose(w[i])
        PROVE  w[i] \in Files /\ Exists(w[i])
    <2>1. w[i] \notin Range(t)
      BY <1>1, <1>2, SuffixBefore
    <2>2. w[i] \in Range(w)
      BY <1>1, RangeAt
    <2>3. QED
      BY <1>1, <1>2, <2>1, <2>2
  <1> HIDE DEF w
  <1>3. ASSUME NEW m \in Learned, f \in Model(m), Current(p).do = TrainPredictor(m)
        PROVE  <<"directory", m>> \in Files /\ Exists(<<"directory", m>>)
    <2>1. w = <<<<"directory", m>>, <<"checkpoint", m>>, <<"record", m>>>>
      BY <1>3, Freezers DEF w
    <2>2. Len(w) = 3 /\ w[1] = <<"directory", m>> /\ w[2] = <<"checkpoint", m>> /\ w[3] = <<"record", m>>
      BY <2>1
    <2>3. ~Loose(w[1])
      BY <2>2, Lasting
    <2>4. f = w[2] \/ f = w[3]
      BY <1>3, <2>2 DEF Model
    <2>5. QED
      BY <1>2, <2>2, <2>3, <2>4
  <1>4. ASSUME f = Splits, Current(p).do = AssignProtectedSplit
        PROVE  Assignment \in Files /\ Exists(Assignment)
    <2>1. w = <<Assignment, Splits>>
      BY <1>4, Freezers DEF w
    <2>2. Len(w) = 2 /\ w[1] = Assignment /\ w[2] = Splits
      BY <2>1
    <2>3. ~Loose(Assignment)
      BY Lasting DEF Sealed
    <2>4. QED
      BY <1>2, <1>4, <2>2, <2>3
  <1>5. QED
    BY <1>3, <1>4

\* What the next file to publish was made from exists.
LEMMA HeadBehind ==
  ASSUME Types, Order, NEW p \in plans, Running(p), Work(p), Past(p), st[p] = "busy",
         NEW f, f = Head(todo[p])
  PROVE  Behind(f)
  <1> DEFINE s == Current(p).do
  <1>1. /\ Fine(s, p, f) /\ s.need \subseteq Files /\ s.whole \subseteq Files
    BY DEF Running, Standing
  <1>2. /\ \A g \in s.need : ~Loose(g) => Exists(g)
        /\ s.gate = "confirmatory" => \A g \in {Freeze, Alarm, Splits} : Exists(g)
        /\ \A g \in s.whole : g[1] = "completion" => Full(g)
    BY DEF Work
  <1>3. \A g \in Sealed \union Fitted \union {Pairs} : ~Loose(g)
    BY Lasting
  <1>4. {Freeze, Alarm, Splits} \subseteq Sealed
    BY DEF Sealed
  <1> HIDE DEF s
  <1>5. f = Pairs => Exists(Splits)
    BY <1>1, <1>2, <1>3, <1>4 DEF Fine, Guards
  <1>6. f \in {Splits, Assignment} => Exists(Freeze) /\ Exists(Alarm)
    <2>1. f \in {Splits, Assignment} => s = AssignProtectedSplit
      BY <1>1 DEF Fine, Freezes
    <2>2. f \in {Splits, Assignment} => {Freeze, Alarm} \subseteq s.need
      BY <2>1, Freezers
    <2>3. QED
      BY <1>2, <1>3, <1>4, <2>2
  <1>7. f = Splits => Assignment \in Files /\ Exists(Assignment)
    <2>1. f = Splits => s = AssignProtectedSplit
      BY <1>1 DEF Fine, Freezes
    <2>2. QED
      BY <2>1, PublishedBefore DEF s
  <1>8. f \in ProtectedFiles => Exists(Freeze) /\ Exists(Alarm) /\ Exists(Splits)
    <2>1. SUFFICES ASSUME f \in ProtectedFiles
                   PROVE  Exists(Freeze) /\ Exists(Alarm) /\ Exists(Splits)
      OBVIOUS
    <2>2. CASE s.gate = "confirmatory"
      BY <1>2, <2>2
    <2>3. CASE Pairs \in s.need
      <3>1. Exists(Pairs) /\ Pairs \in Files
        BY <1>1, <1>2, <1>3, <2>3
      <3>2. Exists(Splits)
        BY <3>1 DEF Order, Behind
      <3>3. QED
        BY <3>2, SplitsFile DEF Order, Behind
    <2>4. QED
      BY <1>1, <2>1, <2>2, <2>3 DEF Fine, Guards
  <1>9. f \in {Freeze, Alarm} => \A g \in Asked : Exists(g)
    <2>1. SUFFICES ASSUME f \in {Freeze, Alarm}
                   PROVE  \A g \in Asked : Exists(g)
      OBVIOUS
    <2>2. s = FreezeModel /\ p = "packet"
      BY <1>1, <2>1 DEF Fine, Freezes
    <2>3. Exists(Rules) /\ Exists(Secondary)
      BY <2>2, ModelLast DEF s
    <2>4. s.need = Selected \union Model("p3")
      BY <2>2, Freezers
    <2>5. \A g \in Selected \union Model("p3") : Exists(g)
      BY <1>2, <1>3, <2>4 DEF Fitted
    <2>6. QED
      BY <2>3, <2>5 DEF Asked
  <1>10. f = Secondary => \A g \in Model("p4") : Exists(g)
    <2>1. f = Secondary => s = FreezeSecondary
      BY <1>1 DEF Fine, Freezes
    <2>2. f = Secondary => Model("p4") \subseteq s.need
      BY <2>1, Freezers
    <2>3. QED
      BY <1>2, <1>3, <2>2 DEF Fitted
  <1>11. \A m \in Learned : f \in Model(m) => <<"directory", m>> \in Files /\ Exists(<<"directory", m>>)
    <2>1. \A m \in Learned : f \in Model(m) => s = TrainPredictor(m)
      BY <1>1 DEF Fine, Fits, Learned
    <2>2. QED
      BY <2>1, PublishedBefore DEF s
  <1>12. f[1] = "inventory" => <<"completion", f[2]>> \in Files /\ Full(<<"completion", f[2]>>)
    <2>1. f[1] = "inventory" => <<"completion", f[2]>> \in s.whole
      BY <1>1 DEF Fine, Guards
    <2>2. <<"completion", f[2]>>[1] = "completion"
      OBVIOUS
    <2>3. QED
      BY <1>1, <1>2, <2>1, <2>2
  <1>13. QED
    BY <1>5, <1>6, <1>7, <1>8, <1>9, <1>10, <1>11, <1>12 DEF Behind

\* What came before f still exists after a step.
LEMMA BehindStays ==
  ASSUME Types, NEW p \in plans, Change(p), NEW f, Behind(f)
  PROVE  Behind(f)'
  <1>1. /\ \A g \in Files : ~Loose(g) /\ Exists(g) => Exists(g)'
        /\ \A g \in Files : g[1] = "completion" /\ Full(g) => Full(g)'
    BY Grows
  <1>2. /\ \A g \in Sealed \union Fitted : ~Loose(g)
        /\ \A m \in Learned : ~Loose(<<"directory", m>>)
    BY Lasting
  <1>3. \A g \in {Freeze, Alarm, Splits} \union Asked \union Model("p4") : Exists(g) => Exists(g)'
    <2>1. \A g \in {Freeze, Alarm, Splits} \union Asked \union Model("p4") : g \in Files /\ ~Loose(g)
      BY <1>2, PacketFiles, SplitsFile DEF Asked, Sealed, Fitted
    <2>2. QED
      BY <1>1, <2>1
  <1>4. Assignment \in Files /\ Exists(Assignment) => Exists(Assignment)'
    BY <1>1, <1>2 DEF Sealed
  <1>5. \A m \in Learned : <<"directory", m>> \in Files /\ Exists(<<"directory", m>>) => Exists(<<"directory", m>>)'
    BY <1>1, <1>2
  <1>6. \A d : <<"completion", d>> \in Files /\ Full(<<"completion", d>>) => Full(<<"completion", d>>)'
    <2>1. \A d : <<"completion", d>>[1] = "completion"
      OBVIOUS
    <2>2. QED
      BY <1>1, <2>1
  <1>7. QED
    BY <1>3, <1>4, <1>5, <1>6 DEF Behind

\* A step keeps the order of the files.
LEMMA OrderStep ==
  ASSUME Types, Order, NEW p \in plans, Work(p), Past(p), Change(p)
  PROVE  Order'
  <1>1. SUFFICES ASSUME NEW f \in Files, Exists(f)'
                 PROVE  Behind(f)'
    BY DEF Order
  <1>2. CASE Exists(f)
    BY <1>2, BehindStays DEF Order
  <1>3. CASE st[p] = "busy" /\ f = Head(todo[p])
    BY <1>3, RunningIs, HeadBehind, BehindStays
  <1>4. CASE f[1] = "directory"
    <2>1. f \notin ProtectedFiles \union {Pairs, Splits, Assignment, Freeze, Alarm, Secondary}
      BY <1>4, Lasting DEF Sealed
    <2>2. \A m : f \notin Model(m)
      BY <1>4, Kinds
    <2>3. Behind(f)
      BY <1>4, <2>1, <2>2 DEF Behind
    <2>4. QED
      BY <2>3, BehindStays
  <1>5. QED
    BY <1>1, <1>2, <1>3, <1>4, Grows

-----------------------------------------------------------------------------
(* Where a step leaves its plan.                                             *)

\* A step leaves sealed files complete and the report with every episode.
LEMMA SoundStep ==
  ASSUME Types, Sound, NEW p \in plans, Change(p)
  PROVE  Sound'
  <1>1. \A f \in Sealed \union Whole : ~Loose(f) /\ f[1] # "directory"
    BY Lasting
  <1>2. \A f \in Files \intersect Sealed : file'[f] \in {"no", "full"}
    BY <1>1 DEF Change, Sound
  <1>3. \A f \in Files \intersect Whole : file'[f] # "part"
    BY <1>1 DEF Change, Sound, Short
  <1>4. QED
    BY <1>2, <1>3 DEF Sound, Short

\* Everything before stage n that it cannot do without has left its output.
PastTo(p, n, now) ==
    \A j \in 1..(n - 1) :
      Binding(StagesOf[p][j]) => \E f \in StagesOf[p][j].skip : now[f] # "no"

Rests(p) ==
    /\ Alone(p) /\ todo'[p] = <<>> /\ st'[p] \in {"down", "held", "done", "idle"}
    /\ st'[p] = "idle" =>
         /\ at'[p] \in 1..Len(StagesOf[p]) /\ ~Skipped(StagesOf[p][at'[p]], file')
         /\ PastTo(p, at'[p], file')
Launches(p) ==
    /\ Alone(p) /\ at'[p] = at[p] /\ st'[p] = "busy" /\ st[p] = "idle"
    /\ Accepts(Current(p).do) /\ todo'[p] = Current(p).do.writes /\ Current(p).do.writes # <<>>
    /\ \A f \in Files : file'[f] = file[f] \/ Loose(f)
Continues(p) ==
    /\ Alone(p) /\ at'[p] = at[p] /\ st'[p] = "busy" /\ st[p] = "busy"
    /\ \/ todo'[p] = todo[p] /\ Streamed(Head(todo[p]))
       \/ /\ todo'[p] = Tail(todo[p]) /\ Len(todo[p]) > 1
          /\ file'[Head(todo[p])] \in {"part", "cut", "full"}
Course(p) ==
    /\ Rests(p) \/ Launches(p) \/ Continues(p)
    /\ todo' \in [plans -> Seq(Files)] /\ \A q \in plans \ {p} : todo'[q] = todo[q]

\* What a plan has passed stays passed.
LEMMA PastStays ==
  ASSUME Types, NEW p \in plans, Change(p), NEW q, NEW n, PastTo(q, n, file)
  PROVE  PastTo(q, n, file')
  <1>1. \A f \in Files : ~Loose(f) /\ Exists(f) => Exists(f)'
    BY Grows
  <1>2. \A stage : Binding(stage) /\ (\E f \in stage.skip : file[f] # "no") => \E f \in stage.skip : file'[f] # "no"
    BY <1>1 DEF Binding, Lasts, Exists
  <1>3. QED
    BY <1>2 DEF PastTo

\* A plan that lands on a stage has passed all before it.
LEMMA LandsPast ==
  ASSUME Types, NEW p \in plans, NEW i \in Nat \ {0}, Lands(p, i), st'[p] = "idle",
         PastTo(p, i, file')
  PROVE  PastTo(p, at'[p], file') /\ at'[p] \in 1..Len(StagesOf[p])
  <1>1. Len(StagesOf[p]) \in Nat
    BY StagesAt DEF Types
  <1>2. /\ at'[p] \in i..Len(StagesOf[p])
        /\ \A k \in i..(at'[p] - 1) : Skipped(StagesOf[p][k], file')
    BY DEF Lands
  <1>3. at'[p] \in 1..Len(StagesOf[p])
    BY <1>1, <1>2
  <1>4. ASSUME NEW j \in 1..(at'[p] - 1), Binding(StagesOf[p][j])
        PROVE  \E f \in StagesOf[p][j].skip : file'[f] # "no"
    <2>1. CASE j < i
      <3>1. j \in 1..(i - 1)
        BY <1>3, <2>1
      <3>2. QED
        BY <1>4, <3>1 DEF PastTo
    <2>2. CASE ~(j < i)
      <3>1. j \in i..(at'[p] - 1)
        BY <1>3, <2>2
      <3>2. Skipped(StagesOf[p][j], file')
        BY <1>2, <3>1
      <3>3. QED
        BY <1>4, <3>2 DEF Skipped, Binding
    <2>3. QED
      BY <2>1, <2>2
  <1>5. QED
    BY <1>3, <1>4 DEF PastTo

\* A plan that lands is at rest.
LEMMA LandsRests ==
  ASSUME Types, NEW p \in plans, NEW i \in Nat \ {0}, Lands(p, i), todo'[p] = <<>>,
         st'[p] = "idle" => PastTo(p, i, file')
  PROVE  Rests(p)
  BY LandsPast DEF Lands, Rests

\* Every step leaves its plan at rest, launched or going on with its script.
LEMMA StartCourse ==
  ASSUME Types, NEW p \in plans, plans' = plans, Start(p)
  PROVE  Course(p)
  <1>1. Goto(p, 1) /\ todo' = todo /\ st[p] = "down"
    BY DEF Start
  <1>2. Lands(p, 1)
    BY <1>1, GotoLands
  <1>3. PastTo(p, 1, file')
    BY DEF PastTo
  <1>4. todo \in [plans -> Seq(Files)] /\ todo[p] = <<>>
    BY <1>1 DEF Types
  <1>5. Rests(p)
    BY <1>1, <1>2, <1>3, <1>4, LandsRests
  <1>6. QED
    BY <1>1, <1>4, <1>5 DEF Course

\* A plan that goes on after a stage it can do without, or that is down.
LEMMA FailsRests ==
  ASSUME Types, NEW p \in plans, plans' = plans, Past(p), Change(p), st[p] \in {"idle", "busy"},
         Fails(p), todo'[p] = <<>>
  PROVE  Rests(p)
  <1>1. Lands(p, at[p] + 1) /\ (Current(p).must => st'[p] = "down")
    BY FailsLands
  <1>2. at[p] + 1 \in Nat \ {0} /\ at[p] \in Nat
    BY DEF Types
  <1>3. PastTo(p, at[p], file')
    <2>1. PastTo(p, at[p], file)
      BY DEF Past, PastTo, Exists
    <2>2. QED
      BY <2>1, PastStays
  <1>4. ASSUME st'[p] = "idle"
        PROVE  PastTo(p, at[p] + 1, file')
    <2>1. ~Current(p).must
      BY <1>1, <1>4
    <2>2. ~Binding(StagesOf[p][at[p]])
      BY <2>1 DEF Binding, Current
    <2>3. \A j \in 1..((at[p] + 1) - 1) : j \in 1..(at[p] - 1) \/ j = at[p]
      BY <1>2
    <2>4. QED
      BY <1>3, <2>2, <2>3 DEF PastTo
  <1>5. QED
    BY <1>1, <1>2, <1>4, LandsRests

\* A plan that goes on after a stage that has left its output.
LEMMA OnwardRests ==
  ASSUME Types, NEW p \in plans, plans' = plans, Past(p), Change(p), st[p] \in {"idle", "busy"},
         Onward(p), todo'[p] = <<>>,
         Binding(Current(p)) => \E f \in Current(p).skip : file'[f] # "no"
  PROVE  Rests(p)
  <1>1. Lands(p, at[p] + 1)
    BY FailsLands
  <1>2. at[p] + 1 \in Nat \ {0} /\ at[p] \in Nat
    BY DEF Types
  <1>3. PastTo(p, at[p], file')
    <2>1. PastTo(p, at[p], file)
      BY DEF Past, PastTo, Exists
    <2>2. QED
      BY <2>1, PastStays
  <1>4. PastTo(p, at[p] + 1, file')
    <2>1. \A j \in 1..((at[p] + 1) - 1) : j \in 1..(at[p] - 1) \/ j = at[p]
      BY <1>2
    <2>2. Binding(StagesOf[p][at[p]]) => \E f \in StagesOf[p][at[p]].skip : file'[f] # "no"
      BY DEF Current
    <2>3. QED
      BY <1>3, <2>1, <2>2 DEF PastTo
  <1>5. QED
    BY <1>1, <1>2, <1>4, LandsRests

LEMMA RefuseCourse ==
  ASSUME Types, NEW p \in plans, plans' = plans, Past(p), Change(p), Refuse(p)
  PROVE  Course(p)
  <1>1. st[p] = "idle" /\ todo' = todo /\ Fails(p)
    BY DEF Refuse, Ready
  <1>2. todo \in [plans -> Seq(Files)] /\ todo[p] = <<>>
    BY <1>1 DEF Types
  <1>3. Rests(p)
    BY <1>1, <1>2, FailsRests
  <1>4. QED
    BY <1>1, <1>2, <1>3 DEF Course

LEMMA LoseCourse ==
  ASSUME Types, NEW p \in plans, plans' = plans, Past(p), Change(p), Lose(p)
  PROVE  Course(p)
  <1>1. st[p] = "busy" /\ todo' = [todo EXCEPT ![p] = <<>>] /\ Fails(p)
    BY DEF Lose
  <1>2. todo \in [plans -> Seq(Files)] /\ <<>> \in Seq(Files)
    BY DEF Types
  <1>3. todo' \in [plans -> Seq(Files)] /\ todo'[p] = <<>> /\ \A q \in plans \ {p} : todo'[q] = todo[q]
    BY <1>1, <1>2
  <1>4. Rests(p)
    BY <1>1, <1>3, FailsRests
  <1>5. QED
    BY <1>3, <1>4 DEF Course

LEMMA StopCourse ==
  ASSUME Types, NEW p \in plans, plans' = plans, Hold(p) \/ Kill(p)
  PROVE  Course(p)
  <1>1. /\ st \in [plans -> States] /\ at \in [plans -> Nat] /\ todo \in [plans -> Seq(Files)]
        /\ <<>> \in Seq(Files)
    BY DEF Types, States
  <1>2. CASE Hold(p)
    <2>1. st[p] = "idle" /\ st' = [st EXCEPT ![p] = "held"] /\ at' = at /\ todo' = todo
      BY <1>2 DEF Hold, Ready
    <2>2. todo[p] = <<>>
      BY <2>1 DEF Types
    <2>3. QED
      BY <1>1, <2>1, <2>2 DEF Course, Rests, Alone, States
  <1>3. CASE Kill(p)
    <2>1. st' = [st EXCEPT ![p] = "down"] /\ at' = at /\ todo' = [todo EXCEPT ![p] = <<>>]
      BY <1>3 DEF Kill
    <2>2. QED
      BY <1>1, <2>1 DEF Course, Rests, Alone, States
  <1>4. QED
    BY <1>2, <1>3

LEMMA LaunchCourse ==
  ASSUME Types, NEW p \in plans, plans' = plans, Past(p), Change(p), Launch(p)
  PROVE  Course(p)
  <1> DEFINE s == Current(p).do
  <1>1. st[p] = "idle" /\ Accepts(s) /\ file' = [f \in Files |-> IF f \in s.aside THEN "no" ELSE file[f]]
    BY DEF Launch, Ready
  <1>2. /\ st \in [plans -> States] /\ at \in [plans -> Nat] /\ todo \in [plans -> Seq(Files)]
        /\ todo[p] = <<>>
    BY <1>1 DEF Types, States
  <1>3. Standing(p) /\ Tidy(s)
    BY <1>1, StandingIs DEF Standing, Good
  <1>4. \A f \in Files : file'[f] = file[f] \/ Loose(f)
    BY <1>1, <1>3 DEF Tidy
  <1>5. CASE s.writes = <<>>
    <2>1. Onward(p) /\ todo' = todo
      BY <1>5 DEF Launch
    <2>2. ~Binding(Current(p))
      BY <1>5, Lists DEF Binding
    <2>3. Rests(p)
      BY <1>1, <1>2, <2>1, <2>2, OnwardRests
    <2>4. QED
      BY <1>2, <2>1, <2>3 DEF Course
  <1>6. CASE s.writes # <<>>
    <2>1. st' = [st EXCEPT ![p] = "busy"] /\ todo' = [todo EXCEPT ![p] = s.writes] /\ at' = at
      BY <1>6 DEF Launch
    <2>2. s.writes \in Seq(Files)
      <3>1. s.writes \in Seq(Range(s.writes)) /\ Range(s.writes) \subseteq Files
        BY <1>3 DEF Tidy, Standing
      <3>2. QED
        BY <3>1, SeqMonotonic
    <2>3. Alone(p) /\ at'[p] = at[p] /\ st'[p] = "busy" /\ todo'[p] = s.writes
      BY <1>2, <2>1 DEF Alone, States
    <2>4. todo' \in [plans -> Seq(Files)] /\ \A q \in plans \ {p} : todo'[q] = todo[q]
      BY <1>2, <2>1, <2>2
    <2>5. Launches(p)
      BY <1>1, <1>4, <1>6, <2>3 DEF Launches
    <2>6. QED
      BY <2>4, <2>5 DEF Course
  <1>7. QED
    BY <1>5, <1>6

LEMMA OpenCourse ==
  ASSUME Types, NEW p \in plans, plans' = plans, Open(p)
  PROVE  Course(p)
  <1>1. st[p] = "busy" /\ st' = st /\ at' = at /\ todo' = todo
    BY DEF Open
  <1>2. st \in [plans -> States] /\ at \in [plans -> Nat] /\ todo \in [plans -> Seq(Files)]
    BY DEF Types, States
  <1>3. Streamed(Head(todo[p]))
    <2>1. Tidy(Current(p).do)
      BY <1>1, RunningIs DEF Running
    <2>2. QED
      BY <2>1 DEF Open, Tidy
  <1>4. Continues(p)
    BY <1>1, <1>2, <1>3 DEF Continues, Alone
  <1>5. QED
    BY <1>1, <1>2, <1>4 DEF Course

LEMMA PublishCourse ==
  ASSUME Types, NEW p \in plans, plans' = plans, Past(p), Work(p), Change(p), Publish(p),
         file'[Head(todo[p])] \in {"part", "cut", "full"}
  PROVE  Course(p)
  <1> DEFINE t == todo[p]
             failed == \E g \in Current(p).after : file'[g] # "full"
  <1>1. /\ st[p] = "busy" /\ todo' = [todo EXCEPT ![p] = Tail(@)]
        /\ IF Len(t) > 1 THEN UNCHANGED <<st, at>> ELSE IF failed THEN Fails(p) ELSE Onward(p)
    BY DEF Publish
  <1>2. Running(p)
    BY <1>1, RunningIs
  <1>3. st \in [plans -> States] /\ at \in [plans -> Nat] /\ todo \in [plans -> Seq(Files)]
    BY DEF Types, States
  <1>4. Tail(t) \in Seq(Files)
    BY <1>2 DEF Running
  <1>5. todo' = [todo EXCEPT ![p] = Tail(t)]
    BY <1>1
  <1>6. todo' \in [plans -> Seq(Files)] /\ todo'[p] = Tail(t) /\ \A q \in plans \ {p} : todo'[q] = todo[q]
    BY <1>3, <1>4, <1>5
  <1>7. CASE Len(t) > 1
    <2>1. st' = st /\ at' = at
      BY <1>1, <1>7
    <2>2. Continues(p)
      BY <1>1, <1>3, <1>6, <1>7, <2>1 DEF Continues, Alone
    <2>3. QED
      BY <1>6, <2>2 DEF Course
  <1>8. CASE ~(Len(t) > 1)
    <2>1. Range(Tail(t)) = {} /\ Range(t) = {Head(t)} /\ Range(t) \subseteq Range(Current(p).do.writes)
      BY <1>2, <1>8 DEF Running
    <2>2. Tail(t) = <<>>
      <3>1. ASSUME Tail(t) # <<>>
            PROVE  1 \in DOMAIN Tail(t)
        BY <1>4, <3>1, EmptySeq, LenProperties
      <3> DEFINE u == Tail(t)
      <3>2. Range(u) = {} /\ (u # <<>> => 1 \in DOMAIN u)
        BY <2>1, <3>1
      <3> HIDE DEF u
      <3>3. u = <<>>
        BY <3>2 DEF Range
      <3>4. QED
        BY <3>3 DEF u
    <2>3. CASE failed
      <3>1. Fails(p)
        BY <1>1, <1>8, <2>3
      <3>2. QED
        BY <1>1, <1>6, <2>2, <3>1, FailsRests DEF Course
    <2>4. CASE ~failed
      <3>1. Onward(p)
        BY <1>1, <1>8, <2>4
      <3>2. ASSUME Binding(Current(p))
            PROVE  \E f \in Current(p).skip : file'[f] # "no"
        <4>1. PICK f \in Current(p).skip : f \in Range(Current(p).do.writes)
          BY <3>2 DEF Binding
        <4>2. f \in Files /\ ~Loose(f)
          BY <3>2, <4>1 DEF Binding, Lasts
        <4>3. CASE f = Head(t)
          BY <4>1, <4>3
        <4>4. CASE f # Head(t)
          <5>1. Exists(f)
            BY <1>1, <2>1, <4>1, <4>2, <4>4 DEF Work
          <5>2. QED
            BY <4>1, <4>2, <5>1, Grows DEF Exists
        <4>5. QED
          BY <4>3, <4>4
      <3>3. QED
        BY <1>1, <1>6, <2>2, <3>1, <3>2, OnwardRests DEF Course
    <2>5. QED
      BY <2>3, <2>4
  <1>9. QED
    BY <1>7, <1>8

LEMMA Courses ==
  ASSUME Types, Sound, NEW p \in plans, plans' = plans, Past(p), Work(p), Turn(p), Moves(p)
  PROVE  Course(p)
  <1>1. Change(p)
    BY Changes
  <1>2. Publish(p) => file'[Head(todo[p])] \in {"part", "cut", "full"}
    BY PublishChange
  <1>3. QED
    BY <1>1, <1>2, StartCourse, RefuseCourse, LaunchCourse, OpenCourse, PublishCourse, LoseCourse,
       StopCourse DEF Moves, Step

-----------------------------------------------------------------------------
(* The invariant is kept.                                                    *)

\* A step keeps the types.
LEMMA TypesStep ==
  ASSUME Types, NEW p \in plans, plans' = plans, file' \in [Files -> Values], Course(p)
  PROVE  Types'
  <1>1. /\ st' \in [plans -> States] /\ at' \in [plans -> Nat] /\ todo' \in [plans -> Seq(Files)]
        /\ \A q \in plans \ {p} : st'[q] = st[q] /\ at'[q] = at[q] /\ todo'[q] = todo[q]
    BY DEF Course, Rests, Launches, Continues, Alone
  <1>2. /\ st'[p] \in {"idle", "busy"} => at'[p] \in 1..Len(StagesOf[p])
        /\ IF st'[p] = "busy" THEN Suffix(todo'[p], StagesOf[p][at'[p]].do.writes) ELSE todo'[p] = <<>>
    <2>1. CASE Rests(p)
      BY <2>1 DEF Rests
    <2>2. CASE Launches(p)
      <3>1. Standing(p) /\ Tidy(Current(p).do)
        BY <2>2, StandingIs DEF Launches, Standing, Good
      <3>2. Suffix(Current(p).do.writes, Current(p).do.writes)
        BY <2>2, <3>1, SuffixWhole DEF Launches, Tidy
      <3>3. QED
        BY <2>2, <3>1, <3>2 DEF Launches, Standing
    <2>3. CASE Continues(p)
      <3>1. Running(p) /\ Standing(p)
        BY <2>3, RunningIs DEF Continues, Running
      <3>2. Suffix(todo'[p], Current(p).do.writes)
        BY <2>3, <3>1 DEF Continues, Running
      <3>3. QED
        BY <2>3, <3>1, <3>2 DEF Continues, Standing
    <2>4. QED
      BY <2>1, <2>2, <2>3 DEF Course
  <1>3. \A q \in plans \ {p} :
          /\ st'[q] \in {"idle", "busy"} => at'[q] \in 1..Len(StagesOf[q])
          /\ IF st'[q] = "busy" THEN Suffix(todo'[q], StagesOf[q][at'[q]].do.writes) ELSE todo'[q] = <<>>
    BY <1>1 DEF Types, Current
  <1>4. \A q \in plans :
          /\ st'[q] \in {"idle", "busy"} => at'[q] \in 1..Len(StagesOf[q])
          /\ IF st'[q] = "busy" THEN Suffix(todo'[q], StagesOf[q][at'[q]].do.writes) ELSE todo'[q] = <<>>
    BY <1>2, <1>3
  <1>5. plans' \subseteq PlanNames /\ file' \in [Files -> {"no", "part", "cut", "full"}]
    BY DEF Types, Values
  <1>6. QED
    BY <1>1, <1>4, <1>5 DEF Types, States, Current

\* The files of a running script, after a step of another plan, or while it goes on.
LEMMA TablesStay ==
  ASSUME Types, NEW p \in plans, Change(p), NEW f \in Files \intersect Tables, file'[f] # file[f]
  PROVE  p = "main" /\ st[p] = "busy" /\ f = Head(todo[p])
  <1>1. ~Loose(f) /\ f[1] # "directory"
    BY Lasting
  <1>2. st[p] = "busy" /\ f = Head(todo[p])
    BY <1>1 DEF Change
  <1>3. Fine(Current(p).do, p, f)
    BY <1>2, RunningIs DEF Running
  <1>4. QED
    BY <1>2, <1>3 DEF Fine, Reports

\* Only the main plan runs the main evaluation, which publishes no table.
LEMMA EvaluationMain ==
  ASSUME NEW p, Standing(p), Current(p).do = EvaluateConfirmatory
  PROVE  /\ p = "main" /\ Tables \subseteq Files
         /\ \A f \in Range(Current(p).do.writes) : f \notin Tables
  <1> DEFINE s == Current(p).do
  <1>1. Range(s.writes) = {Report("held")}
    BY EvaluationIs, Lists
  <1>2. Fine(s, p, Report("held"))
    BY <1>1 DEF Standing, Good
  <1>3. Report("held") \notin Tables
    <2>1. (\A f \in Tables : f[1] = "alarmed") /\ Report("held")[1] = "report"
      BY Kinds
    <2>2. QED
      BY <2>1
  <1>4. QED
    BY <1>1, <1>2, <1>3, EvaluationIs DEF Fine, Reports, Standing

\* The tables it compares with those of P3 are not short when it is launched.
LEMMA PairedThere ==
  ASSUME Sound, NEW p, Standing(p), Current(p).do = EvaluateConfirmatory, Accepts(Current(p).do)
  PROVE  \A f \in Tables : ~Short(f)
  <1>1. Tables \subseteq Files
    BY EvaluationMain
  <1>2. Alarmed("p3", "held") \in Tables /\ ~Short(Alarmed("p3", "held"))
    BY <1>1, EvaluationIs DEF Sound, Whole, Atomic
  <1>3. \A f, g \in Tables : Short(f) => Short(g)
    BY EvaluationIs DEF Accepts, Alike
  <1>4. QED
    BY <1>2, <1>3

\* A script that runs loses nothing by the step of another plan,
LEMMA WorkOther ==
  ASSUME Types, NEW p \in plans, NEW q \in plans, q # p, Change(p), Work(q),
         st'[q] = st[q], at'[q] = at[q], todo'[q] = todo[q]
  PROVE  Work(q)'
  <1> DEFINE s == Current(q).do
  <1>1. SUFFICES ASSUME st[q] = "busy"
                 PROVE  /\ \A f \in s.need : ~Loose(f) => Exists(f)'
                        /\ s.gate = "confirmatory" => \A f \in {Freeze, Alarm, Splits} : Exists(f)'
                        /\ \A f \in s.whole : f[1] = "completion" => Full(f)'
                        /\ \A f \in Range(s.writes) \ Range(todo[q]) : ~Loose(f) => Exists(f)'
                        /\ s = EvaluateConfirmatory => \A f \in Tables : ~Short(f)'
    BY DEF Work, Current
  <1>2. Standing(q)
    BY <1>1, StandingIs
  <1>3. s.need \subseteq Files /\ s.whole \subseteq Files /\ Range(s.writes) \subseteq Files
    BY <1>2 DEF Standing
  <1>4. /\ \A f \in s.need : ~Loose(f) => Exists(f)
        /\ s.gate = "confirmatory" => \A f \in {Freeze, Alarm, Splits} : Exists(f)
        /\ \A f \in s.whole : f[1] = "completion" => Full(f)
        /\ \A f \in Range(s.writes) \ Range(todo[q]) : ~Loose(f) => Exists(f)
        /\ s = EvaluateConfirmatory => \A f \in Tables : ~Short(f)
    BY <1>1 DEF Work
  <1>5. /\ \A f \in Files : ~Loose(f) /\ Exists(f) => Exists(f)'
        /\ \A f \in Files : f[1] = "completion" /\ Full(f) => Full(f)'
    BY Grows
  <1>6. \A f \in {Freeze, Alarm, Splits} : f \in Files /\ ~Loose(f)
    BY PacketFiles, SplitsFile, Lasting DEF Sealed
  <1>7. s = EvaluateConfirmatory => \A f \in Tables : ~Short(f)'
    <2>1. s = EvaluateConfirmatory => q = "main" /\ Tables \subseteq Files
      BY <1>2, EvaluationMain
    <2>2. s = EvaluateConfirmatory => \A f \in Tables : file'[f] = file[f]
      BY <2>1, TablesStay
    <2>3. QED
      BY <1>4, <2>2 DEF Short
  <1> HIDE DEF s
  <1>8. QED
    BY <1>3, <1>4, <1>5, <1>6, <1>7

\* nor by its own.
LEMMA WorkOwn ==
  ASSUME Types, Sound, NEW p \in plans, Change(p), Work(p), Past(p), Course(p)
  PROVE  Work(p)'
  <1> DEFINE s == Current(p).do
             Holds == /\ \A f \in s.need : ~Loose(f) => Exists(f)'
                      /\ s.gate = "confirmatory" => \A f \in {Freeze, Alarm, Splits} : Exists(f)'
                      /\ \A f \in s.whole : f[1] = "completion" => Full(f)'
                      /\ \A f \in Range(s.writes) \ Range(todo'[p]) : ~Loose(f) => Exists(f)'
                      /\ s = EvaluateConfirmatory => \A f \in Tables : ~Short(f)'
  <1>1. CASE Rests(p)
    BY <1>1 DEF Rests, Work
  <1>2. ASSUME Launches(p) \/ Continues(p)
        PROVE  /\ Standing(p) /\ (Holds => Work(p)')
    <2>1. st[p] \in {"idle", "busy"} /\ at'[p] = at[p]
      BY <1>2 DEF Launches, Continues
    <2>2. QED
      BY <2>1, StandingIs DEF Work, Current
  <1>3. /\ \A f \in Files : ~Loose(f) /\ Exists(f) => Exists(f)'
        /\ \A f \in Files : f[1] = "completion" /\ Full(f) => Full(f)'
    BY Grows
  <1>4. \A f \in {Freeze, Alarm, Splits} : f \in Files /\ ~Loose(f)
    BY PacketFiles, SplitsFile, Lasting DEF Sealed
  <1>5. CASE Launches(p)
    <2>1. s.need \subseteq Files /\ s.whole \subseteq Files /\ Standing(p)
      BY <1>2, <1>5 DEF Standing
    <2>2. st[p] = "idle" /\ Accepts(s) /\ todo'[p] = s.writes /\ \A f \in Files : file'[f] = file[f] \/ Loose(f)
      BY <1>5 DEF Launches
    <2>3. /\ \A f \in s.need : Exists(f)
          /\ \A f \in s.whole : Full(f)
          /\ s.gate = "confirmatory" => \A f \in {Freeze, Alarm, Splits} : Exists(f)
      BY <2>2 DEF Accepts, GatePasses, Gate
    <2>4. s = EvaluateConfirmatory => \A f \in Tables : ~Short(f)'
      <3>1. s = EvaluateConfirmatory => \A f \in Tables : f \in Files /\ ~Short(f)
        BY <2>1, <2>2, PairedThere, EvaluationMain
      <3>2. s = EvaluateConfirmatory => \A f \in Tables : file'[f] = file[f]
        BY <2>2, <3>1, Lasting
      <3>3. QED
        BY <3>1, <3>2 DEF Short
    <2>5. Holds
      <3> HIDE DEF s
      <3>1. QED
        BY <1>3, <1>4, <2>1, <2>2, <2>3, <2>4
    <2>6. QED
      BY <1>2, <1>5, <2>5
  <1>6. CASE Continues(p)
    <2>1. Running(p) /\ st[p] = "busy"
      BY <1>6, RunningIs DEF Continues
    <2>2. /\ s.need \subseteq Files /\ s.whole \subseteq Files /\ Range(s.writes) \subseteq Files
          /\ Range(todo[p]) = {Head(todo[p])} \union Range(Tail(todo[p])) /\ Standing(p)
      BY <2>1 DEF Running, Standing
    <2>3. /\ \A f \in s.need : ~Loose(f) => Exists(f)
          /\ s.gate = "confirmatory" => \A f \in {Freeze, Alarm, Splits} : Exists(f)
          /\ \A f \in s.whole : f[1] = "completion" => Full(f)
          /\ \A f \in Range(s.writes) \ Range(todo[p]) : ~Loose(f) => Exists(f)
          /\ s = EvaluateConfirmatory => \A f \in Tables : ~Short(f)
      BY <2>1 DEF Work
    <2>4. \A f \in Range(s.writes) \ Range(todo'[p]) : ~Loose(f) => Exists(f)'
      <3>1. \/ todo'[p] = todo[p]
            \/ todo'[p] = Tail(todo[p]) /\ file'[Head(todo[p])] \in {"part", "cut", "full"}
        BY <1>6 DEF Continues
      <3> DEFINE w == Range(s.writes)
                 t == Range(todo[p])
                 h == Head(todo[p])
                 u == Range(Tail(todo[p]))
      <3>2. \A f \in w \ t : ~Loose(f) => Exists(f)'
        BY <1>3, <2>2, <2>3
      <3>3. ASSUME NEW f, f = h, file'[h] \in {"part", "cut", "full"}
            PROVE  Exists(f)'
        BY <3>3 DEF Exists
      <3>4. t = {h} \union u
        BY <2>2
      <3>5. Range(todo'[p]) = t \/ (Range(todo'[p]) = u /\ file'[h] \in {"part", "cut", "full"})
        BY <3>1
      <3> DEFINE v == Range(todo'[p])
      <3> HIDE DEF w, t, h, u, v
      <3>6. \A f \in w \ v : ~Loose(f) => Exists(f)'
        <4>1. CASE v = t
          BY <3>2, <4>1
        <4>2. CASE v = u /\ file'[h] \in {"part", "cut", "full"}
          <5>1. \A f \in w \ v : f \in w \ t \/ f = h
            BY <3>4, <4>2
          <5>2. \A f : f = h => Exists(f)'
            BY <3>3, <4>2
          <5>3. QED
            BY <3>2, <5>1, <5>2
        <4>3. QED
          BY <3>5, <4>1, <4>2 DEF v
      <3>7. QED
        BY <3>6 DEF w, v
    <2>5. s = EvaluateConfirmatory => \A f \in Tables : ~Short(f)'
      <3>1. s = EvaluateConfirmatory => Tables \subseteq Files /\ Head(todo[p]) \notin Tables
        BY <2>1, <2>2, EvaluationMain DEF Running
      <3>2. s = EvaluateConfirmatory => \A f \in Tables : file'[f] = file[f]
        BY <3>1, TablesStay
      <3>3. QED
        BY <2>3, <3>2 DEF Short
    <2>6. Holds
      <3> HIDE DEF s
      <3>1. QED
        BY <1>3, <1>4, <2>2, <2>3, <2>4, <2>5
    <2>7. QED
      BY <1>2, <1>6, <2>6
  <1>7. QED
    BY <1>1, <1>5, <1>6 DEF Course

\* No step takes a plan back before a stage it has passed.
LEMMA PastStep ==
  ASSUME Types, NEW p \in plans, NEW q \in plans, Change(p), Past(q), Course(p)
  PROVE  Past(q)'
  <1>1. ASSUME at'[q] = at[q], st[q] \in {"idle", "busy"}
        PROVE  Past(q)'
    <2>1. PastTo(q, at[q], file)
      BY <1>1 DEF Past, PastTo, Exists
    <2>2. PastTo(q, at[q], file')
      BY <2>1, PastStays
    <2>3. QED
      BY <1>1, <2>2 DEF Past, PastTo, Exists
  <1>2. CASE q # p
    <2>1. st'[q] = st[q] /\ at'[q] = at[q]
      BY <1>2 DEF Course, Rests, Launches, Continues, Alone
    <2>2. QED
      BY <1>1, <2>1 DEF Past
  <1>3. CASE q = p
    <2>1. CASE Rests(p)
      BY <1>3, <2>1 DEF Rests, Past, PastTo, Exists
    <2>2. CASE Launches(p) \/ Continues(p)
      BY <1>1, <1>3, <2>2 DEF Launches, Continues
    <2>3. QED
      BY <2>1, <2>2 DEF Course
  <1>4. QED
    BY <1>2, <1>3

\* In the packet, the rules are frozen at one stage.
LEMMA RulesOnce ==
  ASSUME NEW i \in 1..5, StagesOf["packet"][i].do = FreezeRules
  PROVE  StagesOf["packet"][i].skip = {Rules} /\ StagesOf["packet"][i].done = {}
  <1>1. /\ FreezeRules.writes = <<Rules>> /\ FreezeSecondary.writes = <<Secondary>>
        /\ FreezeModel.writes = <<Freeze, Alarm>>
    BY Freezers
  <1>2. Bare.writes = <<>> /\ SelectSeed.writes = <<Report("seeds")>>
    BY DEF SelectSeed, Does, With, Bare
  <1>3. Rules # Secondary /\ Rules # Report("seeds")
    BY DEF Rules, Secondary, Report
  <1>4. FreezeRules \notin {Bare, SelectSeed, FreezeSecondary, FreezeModel}
    <2>1. \A a, b : <<a>> # <<>> /\ (a # b => <<a>> # <<b>>)
      OBVIOUS
    <2>2. \A a, b, c : <<a>> # <<b, c>>
      OBVIOUS
    <2>3. FreezeRules.writes # Bare.writes /\ FreezeRules.writes # SelectSeed.writes
      BY <1>1, <1>2, <1>3, <2>1
    <2>4. FreezeRules.writes # FreezeSecondary.writes /\ FreezeRules.writes # FreezeModel.writes
      BY <1>1, <1>3, <2>1, <2>2
    <2>5. QED
      BY <2>3, <2>4
  <1>5. Stage(FreezeSecondary, {Secondary}).do = FreezeSecondary
    BY DEF Stage
  <1>6. i = 3
    BY <1>4, <1>5, PacketAt
  <1>7. Stage(FreezeRules, {Rules}).skip = {Rules} /\ Stage(FreezeRules, {Rules}).done = {}
    BY DEF Stage
  <1>8. QED
    BY <1>6, <1>7, PacketAt

\* The rules are not frozen again.
LEMMA TurnStep ==
  ASSUME Types, NEW p \in plans, NEW q \in plans, Change(p), Turn(q), Course(p)
  PROVE  Turn(q)'
  <1>1. CASE q # p
    <2>1. SUFFICES ASSUME st[q] = "idle"
                   PROVE  /\ q = "packet" /\ Current(q).do = FreezeRules => ~Exists(Rules)'
                          /\ \A f \in Current(q).do.aside : f[1] = "completion" => ~Full(f)'
      <3>1. st'[q] = st[q] /\ at'[q] = at[q]
        BY <1>1 DEF Course, Rests, Launches, Continues, Alone
      <3>2. QED
        BY <3>1 DEF Turn, Current
    <2>2. ASSUME q = "packet", Current(q).do = FreezeRules, Exists(Rules)'
          PROVE  FALSE
      <3>1. ~Exists(Rules) /\ Rules \in Files /\ Rules[1] # "directory"
        BY <2>1, <2>2, PacketFiles, Kinds DEF Turn
      <3>2. st[p] = "busy" /\ Rules = Head(todo[p])
        BY <2>2, <3>1, Grows
      <3>3. Fine(Current(p).do, p, Rules)
        BY <3>2, RunningIs DEF Running
      <3>4. QED
        BY <1>1, <2>2, <3>3 DEF Fine, Freezes
    <2>3. ASSUME NEW f \in Current(q).do.aside, f[1] = "completion", Full(f)'
          PROVE  FALSE
      <3>1. ~Full(f)
        BY <2>1, <2>3 DEF Turn
      <3>2. Standing(q)
        BY <2>1, StandingIs
      <3>3. Current(q).do.writes = <<f>>
        BY <2>3, <3>2 DEF Standing, Good, Renews
      <3>4. f \in Range(Current(q).do.writes)
        BY <3>3, Lists
      <3>5. f \in Files /\ Fine(Current(q).do, q, f)
        BY <3>2, <3>4 DEF Standing, Good
      <3>6. st[p] = "busy" /\ f = Head(todo[p])
        BY <2>3, <3>1, <3>5 DEF Change, Full
      <3>7. Fine(Current(p).do, p, f)
        BY <3>6, RunningIs DEF Running
      <3>8. QED
        BY <1>1, <2>3, <3>5, <3>7 DEF Fine, Closes
    <2>4. QED
      BY <2>2, <2>3
  <1>2. CASE q = p /\ Rests(p) /\ st'[p] = "idle"
    <2> DEFINE stage == StagesOf[p][at'[p]]
    <2>1. p \in PlanNames /\ at'[p] \in 1..Len(StagesOf[p]) /\ ~Skipped(stage, file')
      BY <1>2 DEF Rests, Types
    <2>2. Good(stage, p)
      BY <2>1, StagesAt
    <2>3. p = "packet" /\ stage.do = FreezeRules => ~Exists(Rules)'
      <3>1. p = "packet" /\ stage.do = FreezeRules => stage.skip = {Rules}
        BY <2>1, PacketAt, RulesOnce
      <3>2. \A f \in stage.skip : file'[f] = "no"
        BY <2>1 DEF Skipped
      <3>3. QED
        BY <3>1, <3>2 DEF Exists
    <2>4. \A f \in stage.do.aside : f[1] = "completion" => ~Full(f)'
      <3>1. \A f \in stage.do.aside : f[1] = "completion" => stage.done = {f}
        BY <2>2 DEF Good, Renews
      <3>2. QED
        BY <2>1, <3>1 DEF Skipped, Full
    <2>5. QED
      BY <1>2, <2>3, <2>4 DEF Turn, Current
  <1>3. CASE q = p /\ st'[p] # "idle"
    BY <1>3 DEF Turn
  <1>4. QED
    BY <1>1, <1>2, <1>3 DEF Course, Launches, Continues

\* Nothing that exists is about to be fitted again.
LEMMA FreshStep ==
  ASSUME Types, Order, NEW p \in plans, NEW q \in plans, Change(p), Fresh(q), Course(p)
  PROVE  Fresh(q)'
  <1>1. SUFFICES ASSUME NEW f, f \in Range(todo'[q]), f \in Fitted, Exists(f)'
                 PROVE  FALSE
    BY DEF Fresh
  <1>2. f \in Files /\ ~Loose(f) /\ f[1] # "directory"
    BY <1>1, PacketFiles, Lasting DEF Fitted
  <1>3. Exists(f) \/ (st[p] = "busy" /\ f = Head(todo[p]))
    BY <1>1, <1>2, Grows
  <1>4. CASE q # p
    <2>1. f \in Range(todo[q])
      BY <1>1, <1>4 DEF Course
    <2>2. st[p] = "busy" /\ f = Head(todo[p])
      BY <1>1, <1>3, <2>1 DEF Fresh
    <2>3. st[q] = "busy"
      BY <2>1, Lists DEF Types
    <2>4. Fine(Current(p).do, p, f) /\ Fine(Current(q).do, q, f)
      <3>1. Running(p) /\ Running(q)
        BY <2>2, <2>3, RunningIs
      <3>2. QED
        BY <2>1, <2>2, <3>1 DEF Running
    <2>5. QED
      BY <1>1, <1>4, <2>4 DEF Fine, Fits, Fitted
  <1>5. CASE q = p /\ Rests(p)
    BY <1>1, <1>5, Lists DEF Rests
  <1>6. CASE q = p /\ Launches(p)
    <2> DEFINE s == Current(p).do
    <2>1. st[p] = "idle" /\ Accepts(s) /\ f \in Range(s.writes) /\ Exists(f)
      BY <1>1, <1>2, <1>3, <1>6 DEF Launches
    <2>2. Fine(s, p, f)
      BY <2>1, StandingIs DEF Standing, Good
    <2>3. f \notin s.refuse
      BY <2>1 DEF Accepts
    <2>4. PICK m \in Learned : f \in Model(m) /\ s = TrainPredictor(m)
      BY <1>1, <2>2, <2>3 DEF Fine, Fits, Fitted, Learned
    <2>5. Exists(<<"directory", m>>)
      BY <1>2, <2>1, <2>4 DEF Order, Behind
    <2>6. s.refuse = {<<"directory", m>>}
      BY <2>4, Freezers
    <2>7. QED
      BY <2>1, <2>5, <2>6 DEF Accepts
  <1>7. CASE q = p /\ Continues(p)
    <2>1. Running(p)
      BY <1>7, RunningIs DEF Continues
    <2>2. \/ todo'[p] = todo[p] /\ Streamed(Head(todo[p]))
          \/ todo'[p] = Tail(todo[p])
      BY <1>7 DEF Continues
    <2>3. f \in Range(todo[p])
      BY <1>1, <1>7, <2>1, <2>2 DEF Running
    <2>4. f = Head(todo[p])
      BY <1>1, <1>3, <1>7, <2>3 DEF Fresh
    <2>5. Streamed(f)
      BY <1>1, <1>7, <2>1, <2>2, <2>4 DEF Running
    <2>6. f[1] \notin {"raw", "kept", "alarmed", "report"}
      BY <1>1, Kinds DEF Fitted
    <2>7. QED
      BY <2>5, <2>6 DEF Streamed, Report
  <1>8. QED
    BY <1>4, <1>5, <1>6, <1>7 DEF Course

\* Once the freeze exists, what was fitted before it does too.
LEMMA FittedBefore ==
  ASSUME Order, Exists(Freeze)
  PROVE  \A f \in {Freeze, Rules, Secondary} \union Fitted : Exists(f)
  <1>1. Freeze \in Files /\ Secondary \in Files
    BY PacketFiles
  <1>2. \A f \in Asked : Exists(f)
    BY <1>1 DEF Order, Behind
  <1>3. \A f \in Model("p4") : Exists(f)
    BY <1>1, <1>2 DEF Order, Behind, Asked
  <1>4. QED
    BY <1>2, <1>3 DEF Asked, Fitted

\* What the freeze names is the packet and what was fitted.
LEMMA FrozenIs == Frozen = {Freeze, Rules, Secondary} \union Fitted
  BY DEF Frozen, Fitted, Selected

\* A step keeps what the freeze names from being published again.
LEMMA FrozenStep ==
  ASSUME Types, Order, FrozenStays, NEW p \in plans, Change(p), Course(p), Turn(p), plans' = plans,
         Order', \A q \in plans : Fresh(q)'
  PROVE  FrozenStays'
  <1>1. SUFFICES ASSUME Exists(Freeze)', NEW q \in plans, NEW f, f \in Range(todo'[q]), f \in Frozen
                 PROVE  FALSE
    BY DEF FrozenStays
  <1>2. f \notin Fitted
    <2>1. \A g \in Fitted : Exists(g)'
      <3>1. Freeze \in Files /\ Secondary \in Files
        BY PacketFiles
      <3>2. \A g \in Files : Exists(g)' => Behind(g)'
        BY DEF Order
      <3>3. \A g \in Asked : Exists(g)'
        BY <1>1, <3>1, <3>2 DEF Behind
      <3>4. \A g \in Model("p4") : Exists(g)'
        BY <3>1, <3>2, <3>3 DEF Behind, Asked
      <3>5. QED
        BY <3>3, <3>4 DEF Asked, Fitted
    <2>2. QED
      BY <1>1, <2>1 DEF Fresh
  <1>3. f \in {Freeze, Rules, Secondary}
    BY <1>1, <1>2, FrozenIs
  <1>4. CASE q = p /\ Rests(p)
    BY <1>1, <1>4, Lists DEF Rests
  <1>5. CASE q = p /\ Launches(p)
    <2> DEFINE s == Current(p).do
    <2>1. st[p] = "idle" /\ Accepts(s) /\ f \in Range(s.writes)
      BY <1>1, <1>5 DEF Launches
    <2>2. Fine(s, p, f)
      BY <2>1, StandingIs DEF Standing, Good
    <2>3. Exists(Freeze)
      BY <1>1, <2>1, PacketFiles, Lasting, Grows, Kinds
    <2>4. Exists(f)
      BY <1>3, <2>3, FittedBefore
    <2>5. f \notin s.refuse
      BY <2>1, <2>4 DEF Accepts
    <2>6. CASE f = Freeze \/ f = Secondary
      <3>1. f \in s.refuse
        BY <2>2, <2>6, Freezers DEF Fine, Freezes
      <3>2. QED
        BY <2>5, <3>1
    <2>7. CASE f = Rules
      BY <2>1, <2>2, <2>4, <2>7 DEF Fine, Freezes, Turn
    <2>8. QED
      BY <1>3, <2>6, <2>7
  <1>6. CASE ~Exists(Freeze)
    <2>1. st[p] = "busy" /\ Freeze = Head(todo[p])
      BY <1>1, <1>6, PacketFiles, Grows, Kinds
    <2>2. Running(p)
      BY <2>1, RunningIs
    <2>3. Current(p).do = FreezeModel /\ p = "packet"
      BY <2>1, <2>2 DEF Running, Fine, Freezes
    <2>4. q = p
      <3>1. CASE q # p
        <4>1. f \in Range(todo[q])
          BY <1>1, <3>1 DEF Course
        <4>2. st[q] = "busy"
          BY <4>1, Lists DEF Types
        <4>3. Running(q)
          BY <4>2, RunningIs
        <4>4. Fine(Current(q).do, q, f)
          BY <4>1, <4>3 DEF Running
        <4>5. QED
          BY <1>3, <2>3, <3>1, <4>4 DEF Fine, Freezes
      <3>2. QED
        BY <3>1
    <2>5. CASE Continues(p)
      <3>1. \/ todo'[p] = todo[p] /\ Streamed(Head(todo[p]))
            \/ todo'[p] = Tail(todo[p])
        BY <2>5 DEF Continues
      <3>2. ~Streamed(Freeze)
        BY Kinds DEF Streamed, Report
      <3>3. f \in Range(Tail(todo[p])) /\ f \in Range(todo[p]) /\ f # Freeze
        BY <1>1, <2>1, <2>2, <2>4, <3>1, <3>2 DEF Running
      <3>4. f \in {Freeze, Alarm}
        <4>1. Range(<<Freeze, Alarm>>) = {Freeze, Alarm}
          BY Lists
        <4>2. f \in Range(Current(p).do.writes)
          BY <2>2, <3>3 DEF Running
        <4>3. QED
          BY <2>3, <4>1, <4>2, Freezers
      <3>5. Alarm \notin {Rules, Secondary}
        BY Kinds
      <3>6. QED
        BY <1>3, <3>3, <3>4, <3>5
    <2>6. QED
      BY <1>4, <1>5, <2>4, <2>5 DEF Course
  <1>7. CASE Exists(Freeze) /\ (q # p \/ Continues(p))
    <2>1. \A g \in Range(todo[q]) : g \notin Frozen
      BY <1>7 DEF FrozenStays
    <2>2. q # p => f \in Range(todo[q])
      BY <1>1 DEF Course
    <2>3. q = p => f \in Range(todo[q])
      <3>1. SUFFICES ASSUME q = p PROVE f \in Range(todo[q])
        OBVIOUS
      <3>2. Running(p)
        BY <1>7, <3>1, RunningIs DEF Continues
      <3>3. todo'[p] = todo[p] \/ todo'[p] = Tail(todo[p])
        BY <1>7, <3>1 DEF Continues
      <3>4. QED
        BY <1>1, <3>1, <3>2, <3>3 DEF Running
    <2>4. QED
      BY <1>1, <2>1, <2>2, <2>3
  <1>8. QED
    BY <1>4, <1>5, <1>6, <1>7 DEF Course

-----------------------------------------------------------------------------
(* The first state, and what follows.                                        *)

\* What ended plans have left was made by one of their stages, from what they have left.
LEMMA LeftBy ==
  ASSUME NEW before \in SUBSET PlanNames, Ended(before), NEW f \in Left(before), f \notin Given
  PROVE  \E q \in before : \E stage \in Range(StagesOf[q]) :
           /\ f \in Range(stage.do.writes) /\ Fine(stage.do, q, f)
           /\ Range(stage.do.writes) \subseteq Left(before) \intersect Files
           /\ stage.do.need \subseteq Left(before) /\ stage.do.whole \subseteq Left(before) \intersect Files
           /\ Gate(stage.do.gate) \subseteq Left(before)
  <1>1. PICK q \in before : f \in OutputsOf(q)
    BY DEF Left
  <1>2. PICK stage \in Range(StagesOf[q]) : f \in Range(stage.do.writes)
    BY <1>1 DEF OutputsOf
  <1>3. Good(stage, q)
    <2>1. PICK i \in 1..Len(StagesOf[q]) : stage = StagesOf[q][i]
      BY StagesAt
    <2>2. QED
      BY <2>1, StagesAt
  <1>4. Range(stage.do.writes) \subseteq Left(before)
    BY <1>2 DEF Left, OutputsOf
  <1>5. Range(stage.do.writes) \subseteq Files /\ stage.do.whole \subseteq Files
    BY ScriptFiles
  <1>6. stage.do.need \union stage.do.whole \union Gate(stage.do.gate) \subseteq Left(before)
    BY DEF Ended
  <1>7. QED
    BY <1>2, <1>3, <1>4, <1>5, <1>6 DEF Good

\* What is given is neither protected nor frozen nor fitted.
LEMMA GivenIs ==
  ASSUME NEW f \in Given
  PROVE  /\ f \notin Sealed \union Fitted \union ProtectedFiles \union {Pairs} /\ f[1] # "inventory"
         /\ \A m \in Learned : f \notin Model(m)
  <1>1. \/ f[1] = "manifest" /\ f[2] \in {"targeted", "check", "supplement"}
        \/ f[1] \in {"checkpoint", "record", "calibrator"} /\ f[2] = "proxy"
    BY DEF Given, Model
  <1>2. \A m \in Learned : f \notin Model(m)
    BY <1>1, Kinds DEF Learned
  <1>3. f \notin Sealed \union {Pairs}
    <2>1. \A g \in Sealed : g[1] \in {"freeze", "alarm", "rules", "secondary", "splits", "assignment"}
      BY Kinds
    <2>2. Pairs[1] = "manifest" /\ Pairs[2] = "paired"
      BY Kinds
    <2>3. QED
      BY <1>1, <2>1, <2>2
  <1>4. f \notin Selected
    <2>1. \A g \in Selected : g[1] \in {"calibrator", "calibration", "threshold", "calibrated"} /\ g[2] = "p3"
      BY Kinds
    <2>2. QED
      BY <1>1, <2>1
  <1>5. f \notin ProtectedFiles
    <2>1. \A g \in ProtectedFiles : g[1] \in {"inventory", "extraction", "decisions", "outcomes", "raw"}
      BY Kinds
    <2>2. QED
      BY <1>1, <2>1
  <1>6. QED
    BY <1>1, <1>2, <1>3, <1>4, <1>5 DEF Fitted, Learned

\* The same order as in every later state.
Founded(L, f) ==
    /\ f \in ProtectedFiles => {Freeze, Alarm, Splits} \subseteq L
    /\ f = Pairs => Splits \in L
    /\ f \in {Splits, Assignment} => {Freeze, Alarm} \subseteq L
    /\ f = Splits => Assignment \in L \intersect Files
    /\ f \in {Freeze, Alarm} => Asked \subseteq L
    /\ f = Secondary => Model("p4") \subseteq L
    /\ \A m \in Learned : f \in Model(m) => <<"directory", m>> \in L \intersect Files
    /\ f[1] = "inventory" => <<"completion", f[2]>> \in L \intersect Files

\* What ended plans have left came in that order too.
LEMMA LeftFounded ==
  ASSUME NEW before \in SUBSET PlanNames, Ended(before), NEW f \in Left(before)
  PROVE  Founded(Left(before), f)
  <1> DEFINE L == Left(before)
  <1>1. CASE f \in Given
    BY <1>1, GivenIs DEF Founded, Sealed
  <1>2. CASE f \notin Given
    <2>1. PICK q \in before : \E stage \in Range(StagesOf[q]) :
            /\ f \in Range(stage.do.writes) /\ Fine(stage.do, q, f)
            /\ Range(stage.do.writes) \subseteq L \intersect Files
            /\ stage.do.need \subseteq L /\ stage.do.whole \subseteq L \intersect Files
            /\ Gate(stage.do.gate) \subseteq L
      BY <1>2, LeftBy
    <2>2. PICK stage \in Range(StagesOf[q]) :
            /\ f \in Range(stage.do.writes) /\ Fine(stage.do, q, f)
            /\ Range(stage.do.writes) \subseteq L \intersect Files
            /\ stage.do.need \subseteq L /\ stage.do.whole \subseteq L \intersect Files
            /\ Gate(stage.do.gate) \subseteq L
      BY <2>1
    <2> DEFINE s == stage.do
    <2>3. ASSUME Splits \in L
          PROVE  {Freeze, Alarm} \subseteq L
      <3>1. Splits \notin Given
        BY GivenIs DEF Sealed
      <3>2. PICK r \in before : \E other \in Range(StagesOf[r]) :
              Fine(other.do, r, Splits) /\ other.do.need \subseteq L
        BY <2>3, <3>1, LeftBy
      <3>3. PICK other \in Range(StagesOf[r]) : Fine(other.do, r, Splits) /\ other.do.need \subseteq L
        BY <3>2
      <3>4. other.do = AssignProtectedSplit
        BY <3>3 DEF Fine, Freezes
      <3>5. QED
        BY <3>3, <3>4, Freezers
    <2>4. ASSUME Pairs \in L
          PROVE  Splits \in L
      <3>1. Pairs \notin Given
        BY GivenIs
      <3>2. PICK r \in before : \E other \in Range(StagesOf[r]) :
              Fine(other.do, r, Pairs) /\ other.do.need \subseteq L
        BY <2>4, <3>1, LeftBy
      <3>3. QED
        BY <3>2 DEF Fine, Guards
    <2>5. f \in ProtectedFiles => {Freeze, Alarm, Splits} \subseteq L
      <3>1. SUFFICES ASSUME f \in ProtectedFiles
                     PROVE  {Freeze, Alarm, Splits} \subseteq L
        OBVIOUS
      <3>2. s.gate = "confirmatory" \/ Pairs \in s.need
        BY <2>2, <3>1 DEF Fine, Guards
      <3>3. s.gate = "confirmatory" => Gate(s.gate) = {Freeze, Alarm, Splits}
        BY DEF Gate
      <3> HIDE DEF L, s
      <3>4. s.need \subseteq L /\ Gate(s.gate) \subseteq L
        BY <2>2 DEF L, s
      <3>5. QED
        BY <2>3, <2>4, <3>2, <3>3, <3>4
    <2>6. f \in {Freeze, Alarm} => Asked \subseteq L
      <3>1. SUFFICES ASSUME f \in {Freeze, Alarm}
                     PROVE  Asked \subseteq L
        OBVIOUS
      <3>2. s = FreezeModel /\ q = "packet"
        BY <2>2, <3>1 DEF Fine, Freezes
      <3>3. Selected \union Model("p3") \subseteq L
        BY <2>2, <3>2, Freezers
      <3>4. {Rules, Secondary} \subseteq OutputsOf("packet")
        <4>1. /\ StagesOf["packet"][3] \in Range(StagesOf["packet"])
              /\ StagesOf["packet"][4] \in Range(StagesOf["packet"])
          <5>1. "packet" \in PlanNames
            BY DEF PlanNames
          <5>2. \A i \in 1..Len(StagesOf["packet"]) : StagesOf["packet"][i] \in Range(StagesOf["packet"])
            BY <5>1, StagesAt
          <5>3. 3 \in 1..Len(StagesOf["packet"]) /\ 4 \in 1..Len(StagesOf["packet"])
            BY PacketAt
          <5>4. QED
            BY <5>2, <5>3
        <4>2. /\ StagesOf["packet"][3].do = FreezeRules /\ StagesOf["packet"][4].do = FreezeSecondary
          BY PacketAt DEF Stage
        <4>3. Range(FreezeRules.writes) = {Rules} /\ Range(FreezeSecondary.writes) = {Secondary}
          <5>1. Range(<<Rules>>) = {Rules} /\ Range(<<Secondary>>) = {Secondary}
            BY Lists
          <5>2. QED
            BY <5>1, Freezers
        <4>4. QED
          BY <4>1, <4>2, <4>3 DEF OutputsOf
      <3>5. OutputsOf("packet") \subseteq L
        BY <3>2 DEF Left
      <3>6. QED
        BY <3>3, <3>4, <3>5 DEF Asked
    <2>7. f \in {Splits, Assignment} => {Freeze, Alarm} \subseteq L
      BY <2>2, Freezers DEF Fine, Freezes
    <2>8. f = Splits => Assignment \in L \intersect Files
      <3>1. f = Splits => s = AssignProtectedSplit
        BY <2>2 DEF Fine, Freezes
      <3>2. Range(<<Assignment, Splits>>) = {Assignment, Splits}
        BY Lists
      <3>3. QED
        BY <2>2, <3>1, <3>2, Freezers
    <2>9. f = Secondary => Model("p4") \subseteq L
      BY <2>2, Freezers DEF Fine, Freezes
    <2>10. f = Pairs => Splits \in L
      BY <2>4
    <2>11. \A m \in Learned : f \in Model(m) => <<"directory", m>> \in L \intersect Files
      <3>1. ASSUME NEW m \in Learned, f \in Model(m)
            PROVE  <<"directory", m>> \in L \intersect Files
        <4>1. s = TrainPredictor(m)
          BY <2>2, <3>1 DEF Fine, Fits, Learned
        <4>2. s.writes = <<<<"directory", m>>, <<"checkpoint", m>>, <<"record", m>>>>
          BY <4>1, Freezers
        <4>3. \A a, b, c : a \in Range(<<a, b, c>>)
          BY DEF Range
        <4>4. <<"directory", m>> \in Range(s.writes)
          BY <4>2, <4>3
        <4>5. QED
          BY <2>2, <4>4
      <3>2. QED
        BY <3>1
    <2>12. f[1] = "inventory" => <<"completion", f[2]>> \in L \intersect Files
      BY <2>2 DEF Fine, Guards
    <2>13. QED
      BY <2>5, <2>6, <2>7, <2>8, <2>9, <2>10, <2>11, <2>12 DEF Founded
  <1>3. QED
    BY <1>1, <1>2

\* The first state.
LEMMA InitInv == Init => StudyInv
  <1>1. SUFFICES ASSUME Init
                 PROVE  StudyInv
    OBVIOUS
  <1>2. PICK scene \in Scenes :
          /\ plans = scene.now
          /\ file = [f \in Files |-> IF f \in Left(scene.before) THEN "full" ELSE "no"]
          /\ st = [p \in scene.now |-> "down"] /\ at = [p \in scene.now |-> 1]
          /\ todo = [p \in scene.now |-> <<>>]
    BY <1>1 DEF Init
  <1>3. scene.before \in SUBSET PlanNames /\ scene.now \in SUBSET PlanNames /\ Ended(scene.before)
    BY ScenesOK
  <1>4. Types
    <2>1. <<>> \in Seq(Files)
      OBVIOUS
    <2>2. QED
      BY <1>2, <1>3, <2>1 DEF Types
  <1> DEFINE L == Left(scene.before)
  <1>5. \A f \in Files : file[f] = IF f \in L THEN "full" ELSE "no"
    BY <1>2
  <1> HIDE DEF L
  <1>6. Sound
    BY <1>5 DEF Sound, Short
  <1>7. Order
    <2>1. SUFFICES ASSUME NEW f \in Files, Exists(f)
                   PROVE  Behind(f)
      BY DEF Order
    <2>2. f \in L
      BY <1>5, <2>1 DEF Exists
    <2>3. Founded(L, f)
      BY <1>3, <2>2, LeftFounded DEF L
    <2>4. \A g \in Files : g \in L => Exists(g) /\ Full(g)
      BY <1>5 DEF Exists, Full
    <2>5. {Freeze, Alarm, Splits, Rules, Secondary} \union Asked \union Model("p4") \subseteq Files
      BY PacketFiles, SplitsFile DEF Asked
    <2>6. QED
      BY <2>3, <2>4, <2>5 DEF Founded, Behind
  <1>8. \A p \in plans : st[p] = "down" /\ Range(todo[p]) = {}
    BY <1>2, Lists
  <1>9. FrozenStays
    BY <1>8 DEF FrozenStays
  <1>10. \A p \in plans : Work(p) /\ Past(p) /\ Turn(p) /\ Fresh(p)
    BY <1>8 DEF Work, Past, Turn, Fresh
  <1>11. QED
    BY <1>4, <1>6, <1>7, <1>9, <1>10 DEF StudyInv

\* Every step.
LEMMA NextInv == StudyInv /\ [Next]_vars => StudyInv'
  <1>1. CASE UNCHANGED vars
    BY <1>1 DEF StudyInv, Types, Sound, Order, FrozenStays, Work, Past, Turn, Fresh, Behind, Exists, Full, Short, Current, vars
  <1>2. ASSUME StudyInv, Next
        PROVE  StudyInv'
    <2>1. plans' = plans
      BY <1>2 DEF Next
    <2>2. PICK p \in plans : Moves(p)
      BY <1>2 DEF Next, Moves
    <2>3. /\ Types /\ Sound /\ Order /\ FrozenStays
          /\ \A q \in plans : Work(q) /\ Past(q) /\ Turn(q) /\ Fresh(q)
      BY <1>2 DEF StudyInv
    <2>4. Change(p) /\ file' \in [Files -> Values]
      BY <2>2, <2>3, Changes
    <2>5. Course(p)
      BY <2>1, <2>2, <2>3, Courses
    <2>6. Types'
      BY <2>1, <2>3, <2>4, <2>5, TypesStep
    <2>7. Sound'
      BY <2>3, <2>4, SoundStep
    <2>8. Order'
      BY <2>3, <2>4, OrderStep
    <2>9. ASSUME NEW q \in plans
          PROVE  Work(q)' /\ Past(q)' /\ Turn(q)' /\ Fresh(q)'
      <3>1. Work(q)'
        <4>1. CASE q = p
          BY <2>3, <2>4, <2>5, <4>1, WorkOwn
        <4>2. CASE q # p
          <5>1. st'[q] = st[q] /\ at'[q] = at[q] /\ todo'[q] = todo[q]
            BY <2>5, <4>2 DEF Course, Rests, Launches, Continues, Alone
          <5>2. QED
            BY <2>3, <2>4, <4>2, <5>1, WorkOther
        <4>3. QED
          BY <4>1, <4>2
      <3>2. Past(q)' /\ Turn(q)' /\ Fresh(q)'
        BY <2>3, <2>4, <2>5, PastStep, TurnStep, FreshStep
      <3>3. QED
        BY <3>1, <3>2
    <2>10. FrozenStays'
      BY <2>1, <2>3, <2>4, <2>5, <2>8, <2>9, FrozenStep
    <2>11. QED
      BY <2>1, <2>6, <2>7, <2>8, <2>9, <2>10 DEF StudyInv
  <1>3. QED
    BY <1>1, <1>2

\* The invariant of the plans: what exists came after what it was made from, a
\* script that runs still has what it asked for, a plan is past a stage only with
\* that stage's output, and nothing is about to be fitted or frozen twice.
THEOREM StudyIsOrdered == Spec => []StudyInv
  BY InitInv, NextInv, PTL DEF Spec

\* No protected episode is derived or scored before everything its scoring uses is
\* frozen and the split assigned, whatever is killed and started again
\* (held_out_campaign_gate, check_readiness --stage confirmatory).
THEOREM ProtectedWaits == Spec => []ProtectedAfterFreeze
  <1>1. StudyInv => ProtectedAfterFreeze
    <2>1. SUFFICES ASSUME StudyInv, NEW f \in Files \intersect ProtectedFiles, Exists(f)
                   PROVE  \A g \in {Freeze, Alarm, Rules, Secondary, Splits, Assignment} : Full(g)
      BY DEF ProtectedAfterFreeze
    <2>2. Order /\ Sound /\ Types
      BY <2>1 DEF StudyInv
    <2>3. Exists(Freeze) /\ Exists(Alarm) /\ Exists(Splits)
      BY <2>1, <2>2 DEF Order, Behind
    <2>4. Assignment \in Files /\ Exists(Assignment)
      BY <2>2, <2>3, SplitsFile DEF Order, Behind
    <2>5. Exists(Rules) /\ Exists(Secondary)
      BY <2>2, <2>3, FittedBefore
    <2>6. {Freeze, Alarm, Rules, Secondary, Splits, Assignment} \subseteq Files
      BY <2>4, PacketFiles, SplitsFile
    <2>7. \A g \in {Freeze, Alarm, Rules, Secondary, Splits, Assignment} : Exists(g) /\ g \in Sealed /\ g \in Files
      BY <2>3, <2>4, <2>5, <2>6 DEF Sealed
    <2>8. \A g \in Files \intersect Sealed : Exists(g) => Full(g)
      BY <2>2 DEF Sound, Exists, Full
    <2>9. QED
      BY <2>7, <2>8
  <1>2. QED
    BY <1>1, StudyIsOrdered, PTL

\* Once the model freeze exists, no script is about to publish again what it names
\* (freeze_model.py, train_predictor.py, select_calibration.py and their refusals).
THEOREM FreezeHolds == Spec => []FrozenStays
  <1>1. StudyInv => FrozenStays
    BY DEF StudyInv
  <1>2. QED
    BY <1>1, StudyIsOrdered, PTL

\* A table that lacks episodes goes unnoticed into no report of the main comparison, and a
\* campaign that is not complete gets no inventory (evaluate_confirmatory.py and its check
\* that the predictors cover the same episodes, build_campaign_inventory.py).
THEOREM NothingShort == Spec => []NoShortReport
  <1>1. StudyInv => NoShortReport
    <2>1. SUFFICES ASSUME StudyInv
                   PROVE  NoShortReport
      OBVIOUS
    <2>2. Order /\ Sound
      BY <2>1 DEF StudyInv
    <2>3. ~Short(Report("held"))
      BY <2>2, MainDerived DEF Sound, Whole
    <2>4. \A d \in {"targeted", "check", "supplement", "held", "severity"} : <<"inventory", d>> \in Files
      BY MainDerived, CampaignsDerived DEF InventoryOf
    <2>5. \A d : <<"inventory", d>>[1] = "inventory" /\ <<"inventory", d>>[2] = d
      OBVIOUS
    <2>6. \A d \in {"targeted", "check", "supplement", "held", "severity"} :
            Exists(<<"inventory", d>>) => Full(<<"completion", d>>)
      BY <2>2, <2>4, <2>5 DEF Order, Behind
    <2>7. QED
      BY <2>3, <2>6 DEF NoShortReport
  <1>2. QED
    BY <1>1, StudyIsOrdered, PTL
=============================================================================

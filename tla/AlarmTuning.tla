---------------------------- MODULE AlarmTuning ----------------------------
(***************************************************************************)
(* From raw scores to the deployed warnings (src/evaluation): a validation *)
(* dataset is extracted and labelled (EventLabels) and scored; its         *)
(* table is calibrated (calibrators.py; the isotonic fit step by step),    *)
(* the method chosen under the Brier and recall constraints, the alarm     *)
(* threshold selected under the clean-mission budget (policy.py), and the  *)
(* alarms replayed with the frozen pair; event_metrics.py, calibration.py  *)
(* and discrimination.py supply the measures.                              *)
(*                                                                         *)
(* Raw scores are 0..Grid; a calibrated score is an integer over Unit,     *)
(* which every denominator that occurs divides, so that all arithmetic is  *)
(* exact.  Counts stand for the rates whose denominator is fixed by the    *)
(* table.  The two logistic fits are numeric: they give any map of the     *)
(* sets TemperatureMaps and PlattMaps.                                     *)
(***************************************************************************)
EXTENDS EventLabels

CONSTANTS
    Grid, Unit,
    Required, Considered, Cooldown,      \* alarm_policy.yaml
    BudgetPercent,        \* false alerts per 100 clean missions
    MaximumCandidates,    \* of select_validation_threshold
    Bins,                 \* reliability_bins
    MaxDropPercent,       \* event_recall_at_budget_max_drop
    TemperatureMaps, PlattMaps

ASSUME TuningOK ==
    /\ {Grid, Unit, Bins} \subseteq Nat \ {0} /\ Required \in 1..Considered
    /\ {Cooldown, BudgetPercent, MaxDropPercent} \subseteq Nat
    /\ Considered \in Nat /\ MaximumCandidates >= 2
    /\ TemperatureMaps \cup PlattMaps \subseteq [0..Grid -> 0..Unit]

VARIABLES
    table,      \* the prediction table: run -> [clean, event, rows]
    stack,      \* the blocks of the isotonic fit
    next,       \* the next distinct score to push
    method,     \* chosen_method
    calibrator, \* the isotonic map 0..Grid -> 0..Unit, then the chosen one
    selected,   \* the report of select_validation_threshold
    warned,     \* run -> the decisions that raise an alarm
    stage

tuningVars == <<dataset, files, table, stack, next, method, calibrator, selected, warned, stage>>

AscendingScores(S) == SortSeq(FoldSet(LAMBDA x, s : Append(s, x), <<>>, S), <)
SumOver(S, op(_)) == FoldSet(LAMBDA x, total : total + op(x), 0, S)
SumSeq(s) == FoldLeft(LAMBDA total, x : total + x, 0, s)

-----------------------------------------------------------------------------
(* Rows.                                                                   *)

\* Every decision of the table, as a pair of run and position.
Decisions == UNION {{run} \X DOMAIN table[run].rows : run \in DOMAIN table}
Row(d) == table[d[1]].rows[d[2]]
Eligible == {d \in Decisions : Row(d).eligibility # "excluded"}
Target(d) == IF Row(d).eligibility = "positive" THEN 1 ELSE 0
CleanRuns == {run \in DOMAIN table : table[run].clean}
Events == {run \in DOMAIN table : table[run].event # None}

-----------------------------------------------------------------------------
(* The alarm policy and its measures under a map of the raw scores.        *)

Above(run, map, threshold, i) == map[table[run].rows[i].raw] >= threshold

Persistent(run, map, threshold, i) ==
    /\ i >= Considered
    /\ Quantify(i - Considered + 1..i, LAMBDA j : Above(run, map, threshold, j)) >= Required

Alarms(run, map, threshold) ==
    LET rows == table[run].rows
    IN FoldLeftDomain(
         LAMBDA found, i :
           IF /\ Persistent(run, map, threshold, i)
              /\ found # <<>> => rows[i].time - rows[Last(found)].time >= Cooldown
           THEN Append(found, i) ELSE found,
         <<>>, rows)

Useful(run, alarms) == SelectSeq(alarms, LAMBDA i : table[run].rows[i].eligibility = "positive")
False(run, alarms) == SelectSeq(alarms, LAMBDA i : table[run].rows[i].eligibility = "negative")

\* Twice the median of a sequence of numbers.
Median2(s) ==
    LET sorted == SortSeq(s, <)  middle == Len(s) \div 2
    IN IF s = <<>> THEN None
       ELSE IF Len(s) % 2 = 1 THEN 2 * sorted[middle + 1]
       ELSE sorted[middle] + sorted[middle + 1]

\* What evaluate_event_warnings says of the alarms of every run.
Metrics(alarmsOf) ==
    LET detected == {run \in Events : Useful(run, alarmsOf[run]) # <<>>}
    IN [recall |-> IF Events = {} THEN None ELSE Cardinality(detected),
        burden |-> SumOver(CleanRuns, LAMBDA run : Len(False(run, alarmsOf[run]))),
        lead |-> Median2(FoldSet(
                   LAMBDA run, s :
                     Append(s, table[run].event
                               - table[run].rows[Head(Useful(run, alarmsOf[run]))].time),
                   <<>>, detected))]

Predicted(map, threshold) == [run \in DOMAIN table |-> Alarms(run, map, threshold)]
WithinBudget(metrics) == 100 * metrics.burden <= BudgetPercent * Cardinality(CleanRuns)

-----------------------------------------------------------------------------
(* The threshold.                                                          *)

Risks(map) == {map[Row(d).raw] : d \in Decisions}

\* Python's round of a \div b: halves go to the even neighbour.
RoundHalfEven(a, b) ==
    LET q == a \div b  r == 2 * (a % b)
    IN IF r > b \/ (r = b /\ q % 2 = 1) THEN q + 1 ELSE q

\* Every distinct score, or that many quantiles of them.
Candidates(map) ==
    LET scores == Risks(map)
        ordered == AscendingScores(scores)
        interior == Max({MaximumCandidates - 2, 1})
        Position(k) == 1 + RoundHalfEven(k * (Len(ordered) - 1), Max({interior - 1, 1}))
    IN {0, Unit} \cup
       (IF Cardinality(scores) + 2 <= MaximumCandidates THEN scores
        ELSE {ordered[Position(k)] : k \in 0..interior - 1})

\* Mutant: the burden is ranked before the recall.
BeforeBurden(a, b) ==
    \/ a.burden > b.burden
    \/ a.burden = b.burden /\ a.recall < b.recall
    \/ a.recall = b.recall /\ a.burden = b.burden /\ a.threshold < b.threshold

\* ranking: recall, then the smaller burden, the longer lead, the threshold.
Before(a, b) ==
    \/ a.recall < b.recall
    \/ a.recall = b.recall /\ a.burden > b.burden
    \/ a.recall = b.recall /\ a.burden = b.burden /\ a.lead < b.lead
    \/ a.recall = b.recall /\ a.burden = b.burden /\ a.lead = b.lead /\ a.threshold < b.threshold

NoThreshold == [threshold |-> None, recall |-> None, burden |-> None, lead |-> None]

\* NoThreshold stands for the ValueError.
SelectThreshold(map) ==
    LET item(t) == [threshold |-> t] @@ Metrics(Predicted(map, t))
        feasible == {i \in {item(t) : t \in Candidates(map)} : WithinBudget(i)}
    IN IF CleanRuns = {} \/ feasible = {} THEN NoThreshold
       ELSE CHOOSE i \in feasible : \A other \in feasible : ~Before(i, other)

-----------------------------------------------------------------------------
(* Calibration quality, on the eligible decisions.                         *)

\* The sum of squared errors: the Brier score but for its denominator.
Brier(map) == SumOver(Eligible, LAMBDA d : (map[Row(d).raw] - Unit * Target(d))
                                            * (map[Row(d).raw] - Unit * Target(d)))

Bin(risk) == Min({(risk * Bins) \div Unit, Bins - 1})

\* The sum over the bins of |predicted - observed|: the ECE likewise.
Ece(map) ==
    LET gap(b) == SumOver({d \in Eligible : Bin(map[Row(d).raw]) = b},
                          LAMBDA d : map[Row(d).raw] - Unit * Target(d))
    IN SumOver(0..Bins - 1, LAMBDA b : IF gap(b) < 0 THEN -gap(b) ELSE gap(b))

-----------------------------------------------------------------------------
(* pool_adjacent_violators.                                                *)

Xs == AscendingScores({Row(d).raw : d \in Eligible})
At(x) == {d \in Eligible : Row(d).raw = x}

\* A block of equal scores, or of merged ones: its weight, the sum of its
\* targets and how many distinct scores it spans.
Point(x) == [weight |-> Cardinality(At(x)), sum |-> SumOver(At(x), Target), count |-> 1]
Merged(a, b) == [weight |-> a.weight + b.weight, sum |-> a.sum + b.sum, count |-> a.count + b.count]
Mean(block) == (Unit * block.sum) \div block.weight        \* exact

\* Mutant: one merge after a push, not as many as it takes.
ViolatorsOnce == Len(stack) > 1 /\ Last(stack).count = 1
                 /\ Mean(stack[Len(stack) - 1]) > Mean(Last(stack))
Violators == Len(stack) > 1 /\ Mean(stack[Len(stack) - 1]) > Mean(Last(stack))

Push ==
    /\ stage = "fit" /\ ~Violators /\ next <= Len(Xs)
    /\ stack' = Append(stack, Point(Xs[next]))
    /\ next' = next + 1
    /\ UNCHANGED <<dataset, files, table, method, calibrator, selected, warned, stage>>

Merge ==
    /\ stage = "fit" /\ Violators
    /\ stack' = Append(Front(Front(stack)), Merged(stack[Len(stack) - 1], Last(stack)))
    /\ UNCHANGED <<dataset, files, table, next, method, calibrator, selected, warned, stage>>

\* np.repeat: the value of the block that holds the i-th distinct score.
Fitted(i) ==
    Mean(stack[CHOOSE b \in DOMAIN stack :
                 /\ SumSeq([k \in 1..b - 1 |-> stack[k].count]) < i
                 /\ i <= SumSeq([k \in 1..b |-> stack[k].count])])

\* np.interp: linear between the fitted scores, constant outside them.
Interpolate(s) ==
    LET below == {i \in DOMAIN Xs : Xs[i] <= s}
        lo == Max(below)
    IN IF below = {} THEN Fitted(1)
       ELSE IF lo = Len(Xs) THEN Fitted(lo)
       ELSE Fitted(lo) + ((Fitted(lo + 1) - Fitted(lo)) * (s - Xs[lo])) \div (Xs[lo + 1] - Xs[lo])

Isotonic == [s \in 0..Grid |-> Interpolate(s)]
Identity == [s \in 0..Grid |-> (s * Unit) \div Grid]

FitDone ==
    /\ stage = "fit" /\ ~Violators /\ next > Len(Xs)
    /\ calibrator' = Isotonic
    /\ stage' = "fitted"
    /\ UNCHANGED <<dataset, files, table, stack, next, method, selected, warned>>

-----------------------------------------------------------------------------
(* select_calibration.py, apply_calibration.py, select_alarm_threshold.py  *)
(* and apply_alarm_policy.py.                                              *)

Methods == <<"identity", "temperature", "platt", "isotonic">>     \* also the preference

\* The recall constraint, against the raw scores; none when they have none.
RecallHolds(recall, reference) ==
    \/ reference = None
    \/ /\ recall # None
       /\ 100 * (reference - recall) <= MaxDropPercent * Cardinality(Events)

Feasible(m, report) ==
    \/ m = "identity"
    \/ /\ report[m].brier <= report["identity"].brier
       /\ RecallHolds(report[m].recall, report["identity"].recall)

\* ranking: ECE, Brier, the larger recall, the preference.
Preferred(a, b, report) ==
    LET key(m) == <<report[m].ece, report[m].brier, -report[m].recall,
                    CHOOSE i \in DOMAIN Methods : Methods[i] = m>>
    IN \E i \in 1..4 : key(a)[i] < key(b)[i] /\ \A j \in 1..i - 1 : key(a)[j] = key(b)[j]

SelectCalibration ==
    /\ stage = "fitted"
    /\ \E temperature \in TemperatureMaps, platt \in PlattMaps :
         LET map == [identity |-> Identity, temperature |-> temperature, platt |-> platt,
                     isotonic |-> calibrator]
             report == [m \in DOMAIN map |->
                          [ece |-> Ece(map[m]), brier |-> Brier(map[m]),
                           recall |-> SelectThreshold(map[m]).recall]]
             feasible == {m \in DOMAIN map : Feasible(m, report)}
         IN /\ method' = CHOOSE m \in feasible :
                            \A other \in feasible \ {m} : Preferred(m, other, report)
            /\ calibrator' = map[method']
    /\ stage' = "calibrated"
    /\ UNCHANGED <<dataset, files, table, stack, next, selected, warned>>

\* The script exits when no threshold is feasible.
SelectAlarmThreshold ==
    /\ stage = "calibrated"
    /\ selected' = SelectThreshold(calibrator)
    /\ stage' = IF selected' = NoThreshold THEN "refused" ELSE "selected"
    /\ UNCHANGED <<dataset, files, table, stack, next, method, calibrator, warned>>

ApplyAlarmPolicy ==
    /\ stage = "selected"
    /\ warned' = Predicted(calibrator, selected.threshold)
    /\ stage' = "applied"
    /\ UNCHANGED <<dataset, files, table, stack, next, method, calibrator, selected>>

TuningInit ==
    /\ LabelsInit /\ table = <<>>
    /\ stack = <<>> /\ next = 1 /\ method = "none" /\ calibrator = Identity
    /\ selected = NoThreshold /\ warned = <<>> /\ stage = "extract"

ExtractDataset ==
    /\ stage = "extract" /\ Extract
    /\ UNCHANGED <<table, stack, next, method, calibrator, selected, warned, stage>>

\* The raw scores of a predictor, beside the labels of the decisions.
PredictDecisions ==
    /\ stage = "extract" /\ AllExtracted
    /\ table' = [run \in DOMAIN dataset |->
                   LET e == dataset[run]
                   IN [clean |-> e.family = "none", event |-> PrimaryEvent(e).time,
                       rows |-> [i \in DOMAIN Labels(e) |->
                                   [time |-> Labels(e)[i].time, raw |-> e.raw[i],
                                    eligibility |-> Labels(e)[i].eligibility]]]]
    /\ warned' = [run \in DOMAIN dataset |-> <<>>]
    /\ stage' = "fit"
    /\ UNCHANGED <<dataset, files, stack, next, method, calibrator, selected>>

TuningNext ==
    \/ ExtractDataset \/ PredictDecisions
    \/ Push \/ Merge \/ FitDone
    \/ SelectCalibration \/ SelectAlarmThreshold \/ ApplyAlarmPolicy

TuningSpec == TuningInit /\ [][TuningNext]_tuningVars

-----------------------------------------------------------------------------
(* Window-level discrimination.                                            *)

Ordered == SortSeq(FoldSet(LAMBDA d, s : Append(s, d), <<>>, Eligible),
                   LAMBDA a, b : Row(a).raw < Row(b).raw)
Positives == {d \in Eligible : Target(d) = 1}
Negatives == Eligible \ Positives
Tied(i) == {j \in DOMAIN Ordered : Row(Ordered[j]).raw = Row(Ordered[i]).raw}

\* Mutant: tied decisions keep the ranks the sort happened to give them.
Rank2Ordinal(i) == 2 * i
Rank2(i) == Min(Tied(i)) + Max(Tied(i))        \* twice the average rank

\* auroc, times 2 * positives * negatives.
Auroc2 == SumOver({i \in DOMAIN Ordered : Target(Ordered[i]) = 1}, Rank2)
          - Cardinality(Positives) * (Cardinality(Positives) + 1)

\* auprc, times positives * Unit: precision at the end of each group of ties.
Auprc ==
    LET n == Len(Ordered)
        boundary == {i \in 1..n : i = Min(Tied(i))}     \* from the highest score down
        tp(i) == Cardinality({j \in i..n : Target(Ordered[j]) = 1})
        previous(i) == IF Max(Tied(i)) = n THEN 0 ELSE tp(Max(Tied(i)) + 1)
    IN SumOver(boundary, LAMBDA i : ((tp(i) - previous(i)) * tp(i) * Unit) \div (n - i + 1))

-----------------------------------------------------------------------------
(* Properties.                                                             *)

\* The stack algorithm computes the isotonic regression: the value at a
\* score is the largest, over the blocks that start at or below it, of the
\* smallest mean over the blocks that end at or above it
\* (pool_adjacent_violators).
IsotonicExact ==
    stage = "fitted" =>
        LET points == [i \in DOMAIN Xs |-> Point(Xs[i])]
            average(j, k) == (Unit * SumSeq([i \in 1..k - j + 1 |-> points[j + i - 1].sum]))
                             \div SumSeq([i \in 1..k - j + 1 |-> points[j + i - 1].weight])
        IN \A i \in DOMAIN Xs :
             Fitted(i) = Max({Min({average(j, k) : k \in i..Len(Xs)}) : j \in 1..i})

\* Thresholds that tell the scores of a map apart in every possible way.
Probes(map) == {0, Unit} \cup Risks(map) \cup {r + 1 : r \in Risks(map) \ {Unit}}
Thinned(map) == Cardinality(Risks(map)) + 2 > MaximumCandidates

\* The deployed pair stays within the clean-mission budget, and, when every
\* score was tried, no threshold in [0, 1] within the budget detects more
\* events: alarms are not monotone in the threshold, an early alarm silences
\* later ones during its cooldown (select_validation_threshold).
ThresholdOptimal ==
    stage = "applied" =>
        /\ WithinBudget(Metrics(warned))
        /\ ~Thinned(calibrator) =>
             \A t \in Probes(calibrator) :
                LET other == Metrics(Predicted(calibrator, t))
                IN WithinBudget(other) => other.recall <= Metrics(warned).recall

\* The labels of a published table are those of its episode's evidence,
\* however often its extraction was killed and started again: the event is
\* the earliest there is, a robot that stands still under command for long
\* enough is one; no eligible decision comes after it, a positive one leaves
\* between TooLate and Horizon, a negative one keeps Guard from every failure
\* and injection, and no other is excluded; both lie within the mission, although the
\* detectors look at the whole recording (label_decision_times, first_primary_event,
\* validate_annotation and the two detectors).
LabelsExact ==
    stage # "extract" =>
      \A run \in DOMAIN table :
        LET e == dataset[run]  event == table[run].event
            certain == LossMoments(e) \cup StuckMoments(e, 1)
                         \cup (IF e.terminal = "none" THEN {} ELSE {e.end})
        IN /\ files[run] = Extracted
           /\ event # None => event \in certain \cup StuckMoments(e, Progress)
           /\ certain # {} => event # None /\ event <= Min(certain)
           /\ event # None => event \in e.start..e.end
           /\ e.onset # None => e.onset \in e.start..e.end
           /\ Len(table[run].rows) =
                Cardinality({t \in FirstWindow(e)..e.end : (t - FirstWindow(e)) % Stride = 0})
           /\ \A i \in DOMAIN table[run].rows :
                LET row == table[run].rows[i]
                    lead == event - row.time
                    clear == e.onset = None \/ Distance(row.time, e.onset) >= Guard
                IN row.eligibility =
                     IF event = None THEN IF clear THEN "negative" ELSE "excluded"
                     ELSE IF lead \in TooLate..Horizon THEN "positive"
                     ELSE IF lead > Horizon /\ lead >= Guard /\ clear THEN "negative"
                     ELSE "excluded"

\* A robot that is told to move and has not come Progress away from where it
\* was StuckSeconds before is immobilised by then.
ImmobilisedByThen ==
    stage # "extract" =>
      \A run \in DOMAIN table :
        LET stuck == StuckMoments(dataset[run], Progress)
        IN stuck # {} => table[run].event # None /\ table[run].event <= Min(stuck)

\* The rank formulas are the pairwise win rate, ties counting half, and the
\* mean over the positives of the precision at their score, whatever order
\* the sort leaves tied decisions in (auroc, auprc, average_precision).
RankMetricsExact ==
    stage = "fit" /\ stack = <<>> =>
        /\ Auroc2 = SumOver(Positives, LAMBDA p : SumOver(Negatives, LAMBDA n :
                        IF Row(p).raw > Row(n).raw THEN 2
                        ELSE IF Row(p).raw = Row(n).raw THEN 1 ELSE 0))
        /\ Auprc = SumOver(Positives, LAMBDA p :
                      LET atLeast(S) == Cardinality({d \in S : Row(d).raw >= Row(p).raw})
                      IN (atLeast(Positives) * Unit) \div atLeast(Eligible))
=============================================================================

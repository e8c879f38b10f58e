----------------------------- MODULE EventLabels -----------------------------
(***************************************************************************)
(* From the recording of an episode to its labelled decisions: the         *)
(* detectors of localisation loss and immobilisation, the primary event,   *)
(* the causal labels (src/labels), and the extraction of a dataset, which  *)
(* writes seven files per episode and may be killed and run again.         *)
(*                                                                         *)
(* Times are natural numbers.  Poses have one coordinate and a yaw.  A     *)
(* recording begins before `start`, when the goal is dispatched, and goes  *)
(* on for a while after `end`, the time of the terminal event.             *)
(* unsafe_perception has no automatic candidate, and a false arrival or a  *)
(* navigation abort differs from a collision only by its rank.             *)
(***************************************************************************)
EXTENDS Integers, FiniteSets, Sequences, SequencesExt, FiniteSetsExt

CONSTANTS
    Cases,                      \* datasets: run -> episode
    Error, LossSeconds, LossGap,       \* localisation_loss: threshold, persistence, gap
    Progress, StuckSeconds, StuckGap,  \* immobilisation
    Fresh,                      \* how far a pose may be from its ground truth, and how
                                \* old the command of an odometry sample may be
    History, Horizon, TooLate, Guard, Stride   \* windowing

None == -1

\* read_evidence sorts the samples, and the detectors refuse a sequence that repeats a
\* stamp (_validate_times).
Samples(s) ==
    /\ s \in Seq(Range(s)) /\ \A i \in DOMAIN s : s[i].t \in Nat /\ s[i].x \in Int
    /\ \A i, j \in DOMAIN s : i < j => s[i].t < s[j].t

Recording(e) ==
    /\ e.onset \in Nat \cup {None} /\ e.start \in Nat /\ e.end \in Nat
    /\ e.terminal \in {"none", "collision", "mission_timeout"}
    /\ Samples(e.amcl) /\ Samples(e.odometry)

ASSUME LabelsOK ==
    /\ {Error, LossSeconds, LossGap, Progress, StuckSeconds, StuckGap, Fresh, History,
        TooLate, Guard, Stride} \subseteq Nat \ {0}
    /\ Horizon \in Nat /\ Horizon > TooLate
    /\ \A set \in Cases : \A run \in DOMAIN set : Recording(set[run])

VARIABLES
    dataset,   \* the recorded episodes
    files      \* run -> the derived files: how many are whole, and whether one more is torn

-----------------------------------------------------------------------------
(* Evidence.                                                               *)

Distance(a, b) == IF a < b THEN b - a ELSE a - b

\* The pose nearest in time, the earlier one of two, unless it is too far.
Nearest(poses, t) ==
    LET near == {i \in DOMAIN poses : Distance(poses[i].t, t) <= Fresh}
    IN IF near = {} THEN None
       ELSE CHOOSE i \in near : \A j \in near \ {i} :
              \/ Distance(poses[i].t, t) < Distance(poses[j].t, t)
              \/ Distance(poses[i].t, t) = Distance(poses[j].t, t) /\ i < j

\* The samples of a sequence at the given positions.
Kept(s, positions) ==
    LET kept[n \in 0..Len(s)] ==
          IF n = 0 THEN <<>>
          ELSE IF n \in positions THEN Append(kept[n - 1], s[n]) ELSE kept[n - 1]
    IN kept[Len(s)]

\* The estimates that have a ground truth, each with its errors.
PoseErrors(e) ==
    LET matched == Kept(e.amcl, {i \in DOMAIN e.amcl : Nearest(e.truth, e.amcl[i].t) # None})
    IN [i \in DOMAIN matched |->
          LET p == matched[i]  truth == e.truth[Nearest(e.truth, p.t)]
          IN [t |-> p.t, x |-> Distance(p.x, truth.x), yaw |-> Distance(p.yaw, truth.yaw)]]

\* The last command up to t, unless it is too old.
CommandAt(e, t) ==
    LET before == {i \in DOMAIN e.commands : e.commands[i].t <= t}
    IN IF before = {} \/ t - e.commands[Max(before)].t > Fresh THEN None ELSE Max(before)

\* The odometry samples with a fresh command.
Motion(e) ==
    LET matched == Kept(e.odometry, {i \in DOMAIN e.odometry : CommandAt(e, e.odometry[i].t) # None})
    IN [i \in DOMAIN matched |->
          [t |-> matched[i].t, x |-> matched[i].x,
           moving |-> e.commands[CommandAt(e, matched[i].t)].moving]]

-----------------------------------------------------------------------------
(* Detectors: one pass over the samples, with a clock per condition.       *)

Broken(before, t, gap) == before # None /\ t - before > gap
Since(clock, holds, t) == IF ~holds THEN None ELSE IF clock = None THEN t ELSE clock
Lasted(clock, t, seconds) == clock # None /\ t - clock >= seconds

\* Defect: translation and yaw share one clock.
LossStepShared(s, sample) ==
    LET cut == Broken(s.last, sample.t, LossGap)
        x == Since(IF cut THEN None ELSE s.x, sample.x > Error \/ sample.yaw > Error, sample.t)
    IN IF s.at # None THEN s
       ELSE [x |-> x, yaw |-> x, last |-> sample.t,
             at |-> IF Lasted(x, sample.t, LossSeconds) THEN sample.t ELSE None]

LossStep(s, sample) ==
    LET cut == Broken(s.last, sample.t, LossGap)
        x == Since(IF cut THEN None ELSE s.x, sample.x > Error, sample.t)
        yaw == Since(IF cut THEN None ELSE s.yaw, sample.yaw > Error, sample.t)
    IN IF s.at # None THEN s
       ELSE [x |-> x, yaw |-> yaw, last |-> sample.t,
             at |-> IF \/ Lasted(x, sample.t, LossSeconds)
                       \/ Lasted(yaw, sample.t, LossSeconds) THEN sample.t ELSE None]

FirstLocalisationLoss(e) ==
    LET s == PoseErrors(e)
        pass[n \in 0..Len(s)] ==
          IF n = 0 THEN [x |-> None, yaw |-> None, last |-> None, at |-> None]
          ELSE LossStep(pass[n - 1], s[n])
    IN pass[Len(s)].at

\* The anchor is where the robot was when the commanded motion began, or when
\* it last had moved far enough.
StuckStep(s, sample) ==
    LET kept == ~Broken(s.last, sample.t, StuckGap) /\ sample.moving /\ s.since # None
        progressed == kept /\ Distance(sample.x, s.anchor) >= Progress
    IN IF s.at # None THEN s
       ELSE IF ~sample.moving THEN [s EXCEPT !.since = None, !.last = sample.t]
       ELSE [since |-> IF kept /\ ~progressed THEN s.since ELSE sample.t,
             anchor |-> IF kept /\ ~progressed THEN s.anchor ELSE sample.x,
             last |-> sample.t,
             at |-> IF kept /\ ~progressed /\ Lasted(s.since, sample.t, StuckSeconds)
                    THEN sample.t ELSE None]

FirstImmobilisation(e) ==
    LET s == Motion(e)
        pass[n \in 0..Len(s)] ==
          IF n = 0 THEN [since |-> None, anchor |-> 0, last |-> None, at |-> None]
          ELSE StuckStep(pass[n - 1], s[n])
    IN pass[Len(s)].at

Precedence == <<"collision", "localisation_loss", "immobilisation", "mission_timeout">>
Rank(class) == CHOOSE i \in DOMAIN Precedence : Precedence[i] = class

\* The earliest candidate, ties by precedence; [time |-> None] without one.
PrimaryEvent(e) ==
    LET found == {c \in {[class |-> "localisation_loss", time |-> FirstLocalisationLoss(e)],
                         [class |-> "immobilisation", time |-> FirstImmobilisation(e)],
                         [class |-> e.terminal, time |-> e.end]} :
                    c.time # None /\ c.class # "none"}
    IN IF found = {} THEN [class |-> "none", time |-> None]
       ELSE CHOOSE c \in found : \A d \in found \ {c} :
              c.time < d.time \/ (c.time = d.time /\ Rank(c.class) < Rank(d.class))

-----------------------------------------------------------------------------
(* Labels.                                                                 *)

FirstWindow(e) == e.start + History

DecisionTimes(e) ==
    [i \in 1..(IF e.end < FirstWindow(e) THEN 0 ELSE 1 + (e.end - FirstWindow(e)) \div Stride) |->
       FirstWindow(e) + (i - 1) * Stride]

EligibilityAt(e, t) ==
    LET event == PrimaryEvent(e).time
        guarded == {event, e.onset} \ {None}
    IN IF event # None /\ t > event - TooLate THEN "excluded"
       ELSE IF event # None /\ t >= event - Horizon THEN "positive"
       ELSE IF \A g \in guarded : Distance(t, g) >= Guard THEN "negative"
       ELSE "excluded"

Labels(e) == [i \in DOMAIN DecisionTimes(e) |->
                [time |-> DecisionTimes(e)[i], eligibility |-> EligibilityAt(e, DecisionTimes(e)[i])]]

-----------------------------------------------------------------------------
(* The extraction of a dataset.  The files of an episode are written in    *)
(* the order operational events, annotation, labels, telemetry, causal     *)
(* features, window features, sequences; only the last appears at once.    *)

Steps == 7
Untouched == [whole |-> 0, torn |-> FALSE]
Extracted == [whole |-> Steps, torn |-> FALSE]

\* What the validator of an annotation asks of its event and its injection.
Inside(e) ==
    /\ PrimaryEvent(e).time # None => PrimaryEvent(e).time \in e.start..e.end
    /\ e.onset # None => e.onset \in e.start..e.end

\* The steps that succeed: no annotation for an event after the terminal one, no
\* labels from an invalid annotation or for an episode shorter than a window.
Possible(e) == IF PrimaryEvent(e).time > e.end THEN 1
               ELSE IF ~Inside(e) \/ DecisionTimes(e) = <<>> THEN 2 ELSE Steps

ExtractEpisode(run) ==
    /\ files[run] = Untouched
    /\ files' = [files EXCEPT ![run] = [whole |-> Possible(dataset[run]), torn |-> FALSE]]
    /\ UNCHANGED dataset

\* The extraction is killed while it writes the file after the first n.
KillExtraction(run) ==
    /\ files[run] = Untouched
    /\ \E n \in 0..Possible(dataset[run]) - 1, torn \in BOOLEAN :
         /\ n + 1 = Steps => ~torn
         /\ files' = [files EXCEPT ![run] = [whole |-> n, torn |-> torn]]
    /\ UNCHANGED dataset

\* Partial outputs are refused until the operator has moved them aside.
MoveAside(run) ==
    /\ files[run] \notin {Untouched, Extracted}
    /\ files' = [files EXCEPT ![run] = Untouched]
    /\ UNCHANGED dataset

\* extract_episode takes an episode for extracted if all its files exist.
Existing(run) == files[run].whole + (IF files[run].torn THEN 1 ELSE 0)
AllExtracted == \A run \in DOMAIN dataset : Existing(run) = Steps

Extract == \E run \in DOMAIN dataset : ExtractEpisode(run) \/ KillExtraction(run) \/ MoveAside(run)

LabelsInit ==
    /\ dataset \in Cases
    /\ files = [run \in DOMAIN dataset |-> Untouched]

-----------------------------------------------------------------------------
(* What the definitions of the events say of the samples.                  *)

Unbroken(samples, i, j, gap) == \A k \in i + 1..j : samples[k].t - samples[k - 1].t <= gap

\* The moments at which one error has been above its threshold for long enough.
LossMoments(e) ==
    LET s == PoseErrors(e)
    IN {s[j].t : j \in {j \in DOMAIN s : \E i \in 1..j :
          /\ s[j].t - s[i].t >= LossSeconds /\ Unbroken(s, i, j, LossGap)
          /\ \/ \A k \in i..j : s[k].x > Error
             \/ \A k \in i..j : s[k].yaw > Error}}

\* The moments up to which the robot was told to move for long enough and was
\* never as far as `reach` from where that time began.
StuckMoments(e, reach) ==
    LET s == Motion(e)
    IN {s[j].t : j \in {j \in DOMAIN s : \E i \in 1..j :
          /\ s[j].t - s[i].t >= StuckSeconds /\ Unbroken(s, i, j, StuckGap)
          /\ \A k \in i..j : s[k].moving /\ Distance(s[k].x, s[i].x) < reach}}
=============================================================================

---------------------------- MODULE TrainingRun ----------------------------
(***************************************************************************)
(* One run of train_predictor.py: the manifests of the development pool    *)
(* and of the validation set are read and checked (src/models/common.py),  *)
(* the negatives of every episode are thinned phase by phase, the model is *)
(* fitted epoch by epoch with early stopping on the validation AUPRC, and  *)
(* the best epoch is published into a directory that must be new.  Any     *)
(* step may raise, which marks the directory as failed, and the process    *)
(* may be killed at any point; the directory stays with what is in it.     *)
(*                                                                         *)
(* A window is a pair of run and position; an episode's labels are in the  *)
(* order of their times.  What an epoch learns is external: its AUPRC is   *)
(* any value of Auprcs, on the scale on which minimum_delta is an integer. *)
(***************************************************************************)
EXTENDS Integers, FiniteSets, Sequences, FiniteSetsExt

CONSTANTS
    Pools,          \* sequences of development manifests
    Selections,     \* validation manifests
    Families,       \* fault families, with the clean one
    Clean,
    Kinds,          \* model kinds: "learned", "autoencoder", "oracle"
    Cap, PhaseBins, \* negative_sampling
    Patience, MinimumDelta, MaxEpochs, Auprcs

NoFamily == "no family"
None == -1

Splits == {"development", "validation", "held_out_map_test"}

\* A row of an extraction manifest, with what its artifacts hold: whether the
\* sequences are the ones of the manifest, and the state of the decisions.
Record == [run : Nat, split : Splits, protected : BOOLEAN, family : Families,
           labels : Seq({0, 1}), intact : BOOLEAN, decisions : {"absent", "good", "bad"}]
Manifests == [published : BOOLEAN, records : Seq(Record)]

ASSUME TrainingOK ==
    /\ {PhaseBins, Patience, MaxEpochs} \subseteq Nat \ {0} /\ {Cap, MinimumDelta} \subseteq Nat
    /\ Auprcs \subseteq Nat /\ Clean \in Families
    /\ Pools \subseteq Seq(Manifests) /\ Selections \subseteq Manifests

VARIABLES
    kind, excluded, pool, selection,     \* the arguments
    todo,           \* the loaded development episodes that are not sampled yet
    chunk,          \* the phases of the current one that are done
    spare,          \* the quota they did not use
    drawn,          \* the negatives drawn from it so far, counted in their order
    windows,        \* the fitting windows
    history,        \* the AUPRC of every epoch
    best, since,    \* best epoch; epochs_without_improvement
    files,          \* what is in the run directory
    stage

args == <<kind, excluded, pool, selection>>
sampling == <<todo, chunk, spare, drawn>>
fitting == <<history, best, since>>
vars == <<args, sampling, windows, fitting, files, stage>>

-----------------------------------------------------------------------------
(* Reading.                                                                *)

\* load_dataset_manifest: published, not empty, and no run is named twice.
Readable(m) ==
    /\ m.published /\ m.records # <<>>
    /\ \A i, j \in DOMAIN m.records : m.records[i].run = m.records[j].run => i = j

\* An episode of a pool is a position: the manifest and the row.
Rows(manifests) == UNION {{i} \X DOMAIN manifests[i].records : i \in DOMAIN manifests}
At(manifests, e) == manifests[e[1]].records[e[2]]

\* exclude_family, over the pool.
Kept(manifests) == {e \in Rows(manifests) : At(manifests, e).family # excluded}

\* Mutant: only the labelled split counts, not the protected flag.
InSplitByLabel(r, split) == r.split = split

\* enforce_split.
InSplit(r, split) == ~r.protected /\ r.split = split

\* load_split_sequences: the kept episodes of every manifest are of the split
\* and have the artifact their manifest names; an exclusion must remove
\* something from the pool.
Loads(manifests, split) ==
    /\ \A i \in DOMAIN manifests : Readable(manifests[i])
    /\ \A e \in Kept(manifests) : InSplit(At(manifests, e), split) /\ At(manifests, e).intact
    /\ excluded # NoFamily => Kept(manifests) # Rows(manifests)

Validation == {At(<<selection>>, e) : e \in Kept(<<selection>>)}

-----------------------------------------------------------------------------
(* Negative sampling.                                                      *)

Labelled(r, label) == {i \in DOMAIN r.labels : r.labels[i] = label}
Negatives(r) == Cardinality(Labelled(r, 0))
NegativeAt(r, i) ==
    CHOOSE p \in Labelled(r, 0) : Cardinality({q \in Labelled(r, 0) : q <= p}) = i
Chunks(n) == IF PhaseBins < n THEN PhaseBins ELSE n

\* np.array_split: n positions in c runs, the longer ones first; and quotas.
Share(n, c, k) == n \div c + (IF k <= n % c THEN 1 ELSE 0)

\* Mutant: the quotas left over by the division go to the last phases.
QuotaFromTheBack(n, k) == LET c == Chunks(n) IN Cap \div c + (IF k > c - (Cap % c) THEN 1 ELSE 0)
Quota(n, k) == Share(Cap, Chunks(n), k)

\* The first k shares together.
Before(n, c, k) == k * (n \div c) + (IF k <= n % c THEN k ELSE n % c)
\* The k-th phase of n negatives, as positions in their order.
Phase(n, k) == Before(n, Chunks(n), k - 1) + 1..Before(n, Chunks(n), k)

Thinned(r) == Negatives(r) > Cap

\* build_training_set: which windows of an episode it keeps.
Wanted(r, kept) ==
    IF kind = "autoencoder"
    THEN IF r.family = Clean THEN kept \cap Labelled(r, 0) ELSE {}
    ELSE kept

\* Episodes are sampled in the order of their run ids.
Current == At(pool, CHOOSE e \in todo : \A other \in todo : At(pool, e).run <= At(pool, other).run)

-----------------------------------------------------------------------------
(* The run.                                                                *)

Fails == stage' = "failed" /\ files' = files \cup {"FAILED"}

\* Mutant: a directory without a record is taken over, with what is in it.
BeginOver ==
    /\ stage = "start"
    /\ IF "training_record" \in files
       THEN stage' = "refused" /\ UNCHANGED files
       ELSE /\ files' = files \cup {"directory"}
            /\ stage' = IF kind = "oracle" THEN "publish" ELSE "load"
    /\ UNCHANGED <<args, sampling, windows, fitting>>

\* An existing directory is refused, so nothing is ever trained twice there.
Begin ==
    /\ stage = "start"
    /\ IF "directory" \in files
       THEN stage' = "refused" /\ UNCHANGED files
       ELSE /\ files' = {"directory"}
            /\ stage' = IF kind = "oracle" THEN "publish" ELSE "load"
    /\ UNCHANGED <<args, sampling, windows, fitting>>

Load ==
    /\ stage = "load"
    /\ IF Loads(pool, "development") /\ Loads(<<selection>>, "validation")
       THEN todo' = Kept(pool) /\ stage' = "sample" /\ UNCHANGED files
       ELSE Fails /\ UNCHANGED todo
    /\ UNCHANGED <<args, chunk, spare, drawn, windows, fitting>>

\* The current episode is done.
Add(kept) ==
    /\ windows' = windows \cup ({Current.run} \X Wanted(Current, kept))
    /\ \E e \in todo : At(pool, e) = Current /\ todo' = todo \ {e}
    /\ chunk' = 0 /\ spare' = 0 /\ drawn' = {}

Sampling == stage = "sample" /\ \E e \in todo : At(pool, e) = Current
Drawn(r) == Thinned(r) /\ (kind = "autoencoder" => r.family = Clean)

\* An episode that is not thinned; the autoencoder passes over fault episodes.
KeepAll ==
    /\ Sampling /\ ~Drawn(Current)
    /\ Add(DOMAIN Current.labels)
    /\ UNCHANGED <<args, fitting, files, stage>>

\* One phase of a thinned episode.
Draw ==
    /\ Sampling /\ Drawn(Current)
    /\ LET n == Negatives(Current)
           allowed == Quota(n, chunk + 1) + spare
           take == Min({Cardinality(Phase(n, chunk + 1)), allowed})
       IN /\ chunk < Chunks(n)
          /\ \E some \in SUBSET Phase(n, chunk + 1) :
               Cardinality(some) = take /\ drawn' = drawn \cup some
          /\ spare' = allowed - take
    /\ chunk' = chunk + 1
    /\ UNCHANGED <<args, todo, windows, fitting, files, stage>>

\* After the last phase, its positives.
KeepDrawn ==
    /\ Sampling /\ Drawn(Current) /\ chunk = Chunks(Negatives(Current))
    /\ Add(Labelled(Current, 1) \cup {NegativeAt(Current, i) : i \in drawn})
    /\ UNCHANGED <<args, fitting, files, stage>>

BothClasses == \A label \in {0, 1} : \E r \in Validation : Labelled(r, label) # {}

\* Without fitting windows or without a validation episode the run fails;
\* without both classes in the validation set it exits, and leaves no FAILED
\* marker.  The decision artifacts of the event-recall log are checked when
\* all are there.
Sampled ==
    /\ stage = "sample" /\ todo = {}
    /\ IF windows = {} \/ Validation = {} THEN Fails
       ELSE IF ~BothClasses THEN stage' = "exited" /\ UNCHANGED files
       ELSE IF /\ \A r \in Validation : r.decisions # "absent"
               /\ \E r \in Validation : r.decisions = "bad"
            THEN Fails
            ELSE stage' = "fit" /\ UNCHANGED files
    /\ UNCHANGED <<args, sampling, windows, fitting>>

Improved(auprc) == best = None \/ auprc > history[best] + MinimumDelta

Epoch ==
    /\ stage = "fit"
    /\ \E auprc \in Auprcs :
         /\ history' = Append(history, auprc)
         /\ IF Improved(auprc)
            THEN best' = Len(history') /\ since' = 0
            ELSE best' = best /\ since' = since + 1
    /\ stage' = IF since' >= Patience \/ Len(history') = MaxEpochs THEN "publish" ELSE stage
    /\ UNCHANGED <<args, sampling, windows, files>>

\* In the order of publication.
Outputs == IF kind = "oracle" THEN <<"checkpoint", "sha256", "training_record">>
           ELSE <<"checkpoint", "sha256", "normalization", "training_record">>

NextOutput == Min({j \in DOMAIN Outputs : Outputs[j] \notin files})

Publish ==
    /\ stage = "publish"
    /\ files' = files \cup {Outputs[NextOutput]}
    /\ stage' = IF NextOutput = Len(Outputs) THEN "done" ELSE stage
    /\ UNCHANGED <<args, sampling, windows, fitting>>

Working == {"load", "sample", "fit", "publish"}

\* An exception while reading, fitting or publishing: the outputs published so
\* far stay beside the marker.
Raises ==
    /\ stage \in Working /\ Fails
    /\ UNCHANGED <<args, sampling, windows, fitting>>

\* The record cannot be written: nothing marks the directory.
RecordRaises ==
    /\ stage = "publish" /\ NextOutput = Len(Outputs)
    /\ stage' = "exited"
    /\ UNCHANGED <<args, sampling, windows, fitting, files>>

\* The process dies; nothing marks the directory.
Kill ==
    /\ stage \in Working
    /\ stage' = "killed"
    /\ UNCHANGED <<args, sampling, windows, fitting, files>>

\* The run is started again with the same arguments.
Again ==
    /\ stage \in {"failed", "exited", "killed", "done"}
    /\ stage' = "start"
    /\ todo' = {} /\ chunk' = 0 /\ spare' = 0 /\ drawn' = {}
    /\ windows' = {} /\ history' = <<>> /\ best' = None /\ since' = 0
    /\ UNCHANGED <<args, files>>

Init ==
    /\ kind \in Kinds /\ excluded \in (Families \ {Clean}) \cup {NoFamily}
    /\ pool \in Pools /\ selection \in Selections
    /\ todo = {} /\ chunk = 0 /\ spare = 0 /\ drawn = {}
    /\ windows = {} /\ history = <<>> /\ best = None /\ since = 0
    /\ files = {} /\ stage = "start"

Step == \/ Begin \/ Load \/ KeepAll \/ Draw \/ KeepDrawn \/ Sampled \/ Epoch \/ Publish
Next == Step \/ Raises \/ RecordRaises \/ Kill \/ Again
Spec == Init /\ [][Next]_vars

-----------------------------------------------------------------------------
(* Properties.                                                             *)

\* Nothing but development windows is fitted: no window of a protected
\* episode, of another split or of the excluded family, and for the
\* autoencoder only negative windows of clean episodes (load_split_sequences,
\* enforce_split, exclude_family, build_training_set).
NothingLeaks ==
    \A w \in windows : \E e \in Rows(pool) : LET r == At(pool, e) IN
        /\ w[1] = r.run
        /\ r.split = "development" /\ ~r.protected /\ r.family # excluded
        /\ kind = "autoencoder" => r.family = Clean /\ w[2] \in Labelled(r, 0)

\* The cap is used up exactly, phase by phase: no phase is too short for its
\* quota, so nothing is spared for a later one, or lost after the last
\* (subsample_negatives).
CapExact ==
    /\ spare = 0
    /\ Cardinality(drawn) = (IF chunk = 0 THEN 0
                             ELSE Before(Cap, Chunks(Negatives(Current)), chunk))

\* The published epoch is within minimum_delta of every epoch that ran and
\* strictly better than those before it, and training did not go on past
\* the patience (train_learned).
BestEpochKept ==
    /\ best # None =>
         /\ \A e \in DOMAIN history : history[e] <= history[best] + MinimumDelta
         /\ \A e \in 1..best - 1 : history[e] < history[best]
         /\ Len(history) = best + since /\ since <= Patience
    /\ stage \in {"publish", "done"} /\ kind # "oracle" =>
         best # None /\ (since = Patience \/ Len(history) = MaxEpochs)

\* A training record stands for a complete model of a run that did not fail,
\* although an earlier attempt in the directory may have failed or been killed
\* with part of the outputs: the plans take its presence for that
\* (run_model_development.py, run_ablations.py, predict_decisions.py).
RecordIsComplete ==
    "training_record" \in files =>
        /\ {Outputs[i] : i \in DOMAIN Outputs} \subseteq files
        /\ "FAILED" \notin files
=============================================================================

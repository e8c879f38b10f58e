--------------------------- MODULE TrainingProofs ---------------------------
(* For any pool of manifests, any cap and number of phases, and any course   *)
(* of the training: only clean development data is fitted, the cap of every  *)
(* thinned episode is used up exactly, the best epoch is kept, and a record  *)
(* stands for a complete model.                                              *)
EXTENDS TrainingRun, FiniteSetTheorems, TLAPS

-----------------------------------------------------------------------------
(* Shares.                                                                   *)

LEMMA Division ==
  ASSUME NEW n \in Nat, NEW c \in Nat \ {0}
  PROVE  /\ n \div c \in Nat /\ n % c \in Nat /\ n % c < c
         /\ n = (n \div c) * c + (n % c)
  BY SMT

LEMMA ShareType ==
  ASSUME NEW n \in Nat, NEW c \in Nat \ {0}, NEW k \in Nat
  PROVE  Share(n, c, k) \in Nat /\ Before(n, c, k) \in Nat
  <1> DEFINE q == n \div c
             r == n % c
  <1>1. q \in Nat /\ r \in Nat /\ k * q \in Nat
    BY Division
  <1>2. Share(n, c, k) = q + (IF k <= r THEN 1 ELSE 0)
    BY DEF Share
  <1>3. Before(n, c, k) = k * q + (IF k <= r THEN k ELSE r)
    BY DEF Before
  <1> HIDE DEF q, r
  <1>4. QED
    BY <1>1, <1>2, <1>3

\* The shares before the k-th one add up.
LEMMA BeforeStep ==
  ASSUME NEW n \in Nat, NEW c \in Nat \ {0}, NEW k \in Nat
  PROVE  /\ Before(n, c, 0) = 0
         /\ Before(n, c, k + 1) = Before(n, c, k) + Share(n, c, k + 1)
  <1> DEFINE q == n \div c
             r == n % c
  <1>1. q \in Nat /\ r \in Nat
    BY Division
  <1>2. (k + 1) * q = k * q + q /\ 0 * q = 0 /\ k * q \in Nat
    BY <1>1
  <1>3. Before(n, c, k + 1) = (k + 1) * q + (IF k + 1 <= r THEN k + 1 ELSE r)
    BY DEF Before
  <1>4. Before(n, c, k) = k * q + (IF k <= r THEN k ELSE r)
    BY DEF Before
  <1>5. Before(n, c, 0) = 0 * q + (IF 0 <= r THEN 0 ELSE r)
    BY DEF Before
  <1>6. Share(n, c, k + 1) = q + (IF k + 1 <= r THEN 1 ELSE 0)
    BY DEF Share
  <1> HIDE DEF q, r
  <1>7. QED
    BY <1>1, <1>2, <1>3, <1>4, <1>5, <1>6

\* A smaller number has smaller shares: the quota of a phase never exceeds
\* its size.
LEMMA SharesGrow ==
  ASSUME NEW m \in Nat, NEW n \in Nat, m < n, NEW c \in Nat \ {0}, NEW k \in Nat
  PROVE  Share(m, c, k) <= Share(n, c, k)
  <1> DEFINE q == m \div c
             r == m % c
             Q == n \div c
             R == n % c
  <1>1. q \in Nat /\ r \in Nat /\ r < c /\ m = q * c + r
    BY Division
  <1>2. Q \in Nat /\ R \in Nat /\ R < c /\ n = Q * c + R
    BY Division
  <1>3. Share(m, c, k) = q + (IF k <= r THEN 1 ELSE 0)
    BY DEF Share
  <1>4. Share(n, c, k) = Q + (IF k <= R THEN 1 ELSE 0)
    BY DEF Share
  <1> HIDE DEF q, r, Q, R
  <1>5. ~(q > Q)
    <2>1. SUFFICES ASSUME q > Q PROVE FALSE
      OBVIOUS
    <2>2. PICK d \in Nat : q = Q + 1 + d
      <3>1. q - Q - 1 \in Nat
        BY <2>1, <1>1, <1>2
      <3>2. QED
        BY <3>1, <1>1, <1>2
    <2>3. q * c = Q * c + c + d * c
      BY <2>2, <1>2
    <2>4. d * c \in Nat /\ Q * c \in Nat
      BY <2>2, <1>2
    <2>5. QED
      BY <2>3, <2>4, <1>1, <1>2
  <1>6. CASE q = Q
    <2>1. q * c = Q * c /\ q * c \in Nat
      BY <1>6, <1>1
    <2>2. r < R
      BY <2>1, <1>1, <1>2
    <2>3. QED
      BY <2>2, <1>6, <1>1, <1>2, <1>3, <1>4
  <1>7. CASE q < Q
    BY <1>7, <1>1, <1>2, <1>3, <1>4
  <1>8. QED
    BY <1>5, <1>6, <1>7, <1>1, <1>2

LEMMA MinOfTwo ==
  ASSUME NEW a \in Nat, NEW b \in Nat, a <= b
  PROVE  Min({b, a}) = a
  <1>1. a \in {b, a} /\ \A y \in {b, a} : a <= y
    OBVIOUS
  <1>2. \A x \in {b, a} : (\A y \in {b, a} : x <= y) => x = a
    OBVIOUS
  <1>3. QED
    BY <1>1, <1>2 DEF Min

-----------------------------------------------------------------------------
(* The episodes.                                                             *)

\* The arguments of the run, and the episodes that wait to be sampled.
Loaded ==
    /\ pool \in Seq(Manifests)
    /\ todo \subseteq {e \in Rows(pool) : InSplit(At(pool, e), "development")
                                            /\ At(pool, e).family # excluded}

LEMMA LoadedType ==
  ASSUME Loaded, NEW e \in todo
  PROVE  At(pool, e) \in Record
  <1>1. PICK i \in DOMAIN pool : e \in {i} \X DOMAIN pool[i].records
    BY DEF Loaded, Rows
  <1>2. pool[i] \in Manifests
    BY <1>1 DEF Loaded
  <1>3. pool[i].records \in Seq(Record)
    BY <1>2 DEF Manifests
  <1>4. e[1] = i /\ e[2] \in DOMAIN pool[i].records
    BY <1>1
  <1>5. QED
    BY <1>3, <1>4 DEF At

LEMMA NegativesType ==
  ASSUME NEW r \in Record
  PROVE  Negatives(r) \in Nat
  <1>1. PICK m \in Nat : DOMAIN r.labels = 1..m
    BY DEF Record
  <1>2. Labelled(r, 0) \subseteq 1..m
    BY <1>1 DEF Labelled
  <1>3. IsFiniteSet(1..m)
    BY FS_Interval
  <1>4. QED
    BY <1>2, <1>3, FS_Subset, FS_CardinalityType DEF Negatives

LEMMA InitLoaded == Init => Loaded
  BY TrainingOK DEF Init, Loaded

LEMMA NextLoaded == Loaded /\ [Next]_vars => Loaded'
  <1> SUFFICES ASSUME Loaded, [Next]_vars PROVE Loaded'
    OBVIOUS
  <1>1. CASE Load
    <2>0. UNCHANGED <<pool, excluded>>
      BY <1>1 DEF Load, args
    <2>1. CASE Loads(pool, "development") /\ todo' = Kept(pool)
      <3>1. \A e \in Kept(pool) : e \in Rows(pool) /\ At(pool, e).family # excluded
        BY DEF Kept
      <3>2. \A e \in Kept(pool) : InSplit(At(pool, e), "development")
        BY <2>1 DEF Loads
      <3>3. QED
        BY <2>0, <2>1, <3>1, <3>2 DEF Loaded, At, Rows
    <2>2. CASE todo' = todo
      BY <2>0, <2>2 DEF Loaded, At, Rows, InSplit
    <2>3. QED
      BY <2>1, <2>2, <1>1 DEF Load
  <1>2. CASE KeepAll \/ KeepDrawn
    <2>1. todo' \subseteq todo /\ UNCHANGED args
      BY <1>2 DEF KeepAll, KeepDrawn, Add
    <2>2. QED
      BY <2>1 DEF Loaded, args, At, Rows, InSplit
  <1>3. CASE Again
    BY <1>3 DEF Again, Loaded, args
  <1>4. CASE UNCHANGED <<args, todo>>
    BY <1>4 DEF Loaded, args, At, Rows, InSplit
  <1>5. QED
    BY <1>1, <1>2, <1>3, <1>4
    DEF Next, Step, Begin, Draw, Sampled, Epoch, Publish, Raises, RecordRaises, Kill, vars,
        sampling

THEOREM SpecLoaded == Spec => []Loaded
  BY InitLoaded, NextLoaded, PTL DEF Spec

-----------------------------------------------------------------------------
(* What is fitted.                                                           *)

LEMMA AddKeepsClean ==
  ASSUME Loaded, NothingLeaks, Sampling, UNCHANGED args,
         NEW kept, Add(kept)
  PROVE  NothingLeaks'
  <1>1. PICK e \in todo : At(pool, e) = Current
    BY DEF Sampling
  <1>2. /\ e \in Rows(pool)
        /\ InSplit(Current, "development") /\ Current.family # excluded
    BY <1>1 DEF Loaded
  <1>a. UNCHANGED <<kind, excluded, pool>>
    BY DEF args
  <1>3. SUFFICES ASSUME NEW w \in windows'
                 PROVE  \E f \in Rows(pool) : LET r == At(pool, f) IN
                          /\ w[1] = r.run
                          /\ r.split = "development" /\ ~r.protected /\ r.family # excluded
                          /\ kind = "autoencoder" => r.family = Clean /\ w[2] \in Labelled(r, 0)
    BY <1>a DEF NothingLeaks, Rows, At, Labelled
  <1>4. CASE w \in windows
    BY <1>4 DEF NothingLeaks
  <1>5. CASE w \in {Current.run} \X Wanted(Current, kept)
    <2>1. w[1] = Current.run /\ w[2] \in Wanted(Current, kept)
      BY <1>5
    <2>2. kind = "autoencoder" => Current.family = Clean /\ w[2] \in Labelled(Current, 0)
      BY <2>1 DEF Wanted
    <2>3. Current.split = "development" /\ ~Current.protected /\ Current.family # excluded
      BY <1>2 DEF InSplit
    <2> HIDE DEF Current
    <2>4. QED
      BY <1>1, <1>2, <2>1, <2>2, <2>3
  <1>6. QED
    BY <1>4, <1>5 DEF Add

\* Nothing but development data is ever fitted.
THEOREM NothingEverLeaks == Spec => []NothingLeaks
  <1>1. Init => NothingLeaks
    BY DEF Init, NothingLeaks
  <1>2. Loaded /\ NothingLeaks /\ [Next]_vars => NothingLeaks'
    <2> SUFFICES ASSUME Loaded, NothingLeaks, [Next]_vars PROVE NothingLeaks'
      OBVIOUS
    <2>1. CASE KeepAll
      BY <2>1, AddKeepsClean DEF KeepAll
    <2>2. CASE KeepDrawn
      BY <2>2, AddKeepsClean DEF KeepDrawn
    <2>3. CASE Again
      BY <2>3 DEF Again, NothingLeaks
    <2>4. CASE UNCHANGED <<args, windows>>
      BY <2>4 DEF NothingLeaks, args, Rows, At, Labelled
    <2>5. QED
      BY <2>1, <2>2, <2>3, <2>4
      DEF Next, Step, Begin, Load, Draw, Sampled, Epoch, Publish, Raises, RecordRaises,
          Kill, vars
  <1>3. QED
    BY <1>1, <1>2, SpecLoaded, PTL DEF Spec

-----------------------------------------------------------------------------
(* The training record.                                                      *)

\* A record stands only in a directory that no run works in any more.
RecordInv ==
    /\ files = {} \/ "directory" \in files
    /\ stage \in Working => /\ "directory" \in files
                            /\ files \cap {"training_record", "FAILED"} = {}
    /\ RecordIsComplete

LEMMA MinBelow ==
  ASSUME NEW S, S \subseteq 1..4, S # {}
  PROVE  Min(S) \in S /\ \A y \in S : Min(S) <= y
  <1>1. S \subseteq {1, 2, 3, 4}
    OBVIOUS
  <1>2. \E x \in S : \A y \in S : x <= y
    <2>1. CASE 1 \in S
      BY <2>1, <1>1
    <2>2. CASE 1 \notin S /\ 2 \in S
      BY <2>2, <1>1
    <2>3. CASE S \cap {1, 2} = {} /\ 3 \in S
      BY <2>3, <1>1
    <2>4. CASE S \subseteq {4}
      <3>1. S = {4}
        BY <2>4
      <3>2. QED
        BY <3>1
    <2>5. QED
      BY <1>1, <2>1, <2>2, <2>3, <2>4
  <1>3. QED
    BY <1>2 DEF Min

LEMMA PublishKeeps ==
  ASSUME RecordInv, Publish
  PROVE  RecordInv'
  <1> DEFINE S == {j \in DOMAIN Outputs : Outputs[j] \notin files}
             i == NextOutput
  <1>1. /\ Len(Outputs) \in {3, 4} /\ DOMAIN Outputs = 1..Len(Outputs)
        /\ Outputs[Len(Outputs)] = "training_record"
        /\ \A j \in DOMAIN Outputs : j # Len(Outputs) => Outputs[j] # "training_record"
        /\ \A j \in DOMAIN Outputs : Outputs[j] # "FAILED"
    <2>1. CASE kind = "oracle"
      BY <2>1 DEF Outputs
    <2>2. CASE kind # "oracle"
      BY <2>2 DEF Outputs
    <2>3. QED
      BY <2>1, <2>2
  <1>2. S \subseteq 1..4 /\ Len(Outputs) \in S
    BY <1>1 DEF Publish, RecordInv, Working
  <1>3. i \in S /\ \A y \in S : i <= y
    BY <1>2, MinBelow DEF NextOutput
  <1>4. files' = files \cup {Outputs[i]} /\ stage' = (IF i = Len(Outputs) THEN "done" ELSE stage)
        /\ stage = "publish" /\ Outputs' = Outputs
    BY DEF Publish, args, Outputs
  <1>5. CASE i = Len(Outputs)
    <2>1. S = {i}
      <3>1. \A y \in S : y \in 1..Len(Outputs) /\ i <= y
        BY <1>1, <1>3
      <3>2. \A y \in S : y = i
        <4> SUFFICES ASSUME NEW y \in S PROVE y = i
          OBVIOUS
        <4>1. y \in 1..Len(Outputs) /\ i <= y /\ Len(Outputs) \in Nat
          BY <3>1, <1>1
        <4> HIDE DEF S, i
        <4>2. QED
          BY <4>1, <1>5
      <3>3. QED
        BY <3>2, <1>3
    <2>2. \A j \in DOMAIN Outputs : Outputs[j] \in files'
      BY <2>1, <1>4
    <2>3. QED
      BY <2>2, <1>1, <1>3, <1>4, <1>5 DEF RecordInv, RecordIsComplete, Working
  <1>6. CASE i # Len(Outputs)
    <2>1. Outputs[i] # "training_record" /\ Outputs[i] # "FAILED"
      BY <1>6, <1>1, <1>3
    <2>2. stage' = "publish"
      BY <1>6, <1>4
    <2>3. QED
      BY <2>1, <2>2, <1>4 DEF RecordInv, RecordIsComplete, Working
  <1>7. QED
    BY <1>5, <1>6

\* A training record stands for a complete model of a run that did not fail.
THEOREM RecordsAreComplete == Spec => []RecordIsComplete
  <1>1. Init => RecordInv
    BY DEF Init, RecordInv, RecordIsComplete, Working
  <1>2. RecordInv /\ [Next]_vars => RecordInv'
    <2> SUFFICES ASSUME RecordInv, [Next]_vars PROVE RecordInv'
      OBVIOUS
    <2> USE DEF RecordInv, RecordIsComplete, Working
    <2>1. CASE Begin
      BY <2>1 DEF Begin, args, Outputs
    <2>2. CASE Load \/ Sampled
      <3>1. /\ stage \in Working
            /\ \/ Fails
               \/ stage' \in {"sample", "exited", "fit"} /\ UNCHANGED files
        BY <2>2, Zenon DEF Load, Sampled
      <3>2. QED
        BY <3>1 DEF Fails
    <2>3. CASE Publish
      BY <2>3, PublishKeeps
    <2>4. CASE KeepAll \/ Draw \/ KeepDrawn \/ UNCHANGED vars
      BY <2>4 DEF KeepAll, Draw, KeepDrawn, vars, args, Outputs
    <2>5. CASE Epoch
      BY <2>5 DEF Epoch, args, Outputs
    <2>6. CASE Kill \/ Again \/ RecordRaises
      BY <2>6 DEF Kill, Again, RecordRaises, args, Outputs
    <2>7. CASE Raises
      BY <2>7 DEF Raises, Fails, args, Outputs
    <2>8. QED
      BY <2>1, <2>2, <2>3, <2>4, <2>5, <2>6, <2>7 DEF Next, Step
  <1>3. RecordInv => RecordIsComplete
    BY DEF RecordInv
  <1>4. QED
    BY <1>1, <1>2, <1>3, PTL DEF Spec

-----------------------------------------------------------------------------
(* Early stopping.                                                           *)

\* The shape of the epochs at every stage.
EpochInv ==
    /\ history \in Seq(Nat) /\ since \in Nat
    /\ IF history = <<>> THEN best = None /\ since = 0
       ELSE best \in 1..Len(history) /\ Len(history) = best + since
    /\ stage \in {"start", "load", "sample"} => history = <<>>
    /\ stage = "fit" => since < Patience /\ Len(history) < MaxEpochs
    /\ BestEpochKept

LEMMA EpochKeeps ==
  ASSUME EpochInv, Epoch
  PROVE  EpochInv'
  <1>1. PICK auprc \in Auprcs :
          /\ history' = Append(history, auprc)
          /\ IF Improved(auprc)
             THEN best' = Len(history') /\ since' = 0
             ELSE best' = best /\ since' = since + 1
    BY DEF Epoch
  <1>2. auprc \in Nat /\ MinimumDelta \in Nat /\ Patience \in Nat /\ MaxEpochs \in Nat
    BY TrainingOK
  <1>3. history \in Seq(Nat) /\ since \in Nat /\ Len(history) \in Nat
    BY DEF EpochInv
  <1>4. /\ history' \in Seq(Nat) /\ Len(history') = Len(history) + 1
        /\ history'[Len(history) + 1] = auprc
        /\ \A e \in 1..Len(history) : history'[e] = history[e] /\ history[e] \in Nat
        /\ DOMAIN history' = 1..Len(history) + 1
    BY <1>1, <1>2, <1>3
  <1>5. /\ stage = "fit" /\ UNCHANGED kind
        /\ stage' = IF since' >= Patience \/ Len(history') = MaxEpochs THEN "publish" ELSE stage
    BY DEF Epoch, args
  <1>6. since < Patience /\ Len(history) < MaxEpochs
    BY <1>5 DEF EpochInv
  <1>7. best # None => /\ best \in 1..Len(history) /\ Len(history) = best + since
                       /\ \A e \in 1..Len(history) : history[e] <= history[best] + MinimumDelta
                       /\ \A e \in 1..best - 1 : history[e] < history[best]
    BY <1>3 DEF EpochInv, BestEpochKept, None
  <1>8. best = None => history = <<>> /\ Len(history) = 0
    BY <1>3 DEF EpochInv, None
  <1>9. since' \in Nat /\ since' <= Patience
    BY <1>1, <1>2, <1>3, <1>6
  <1>10. /\ best' \in 1..Len(history') /\ Len(history') = best' + since'
         /\ \A e \in DOMAIN history' : history'[e] <= history'[best'] + MinimumDelta
         /\ \A e \in 1..best' - 1 : history'[e] < history'[best']
    <2>1. CASE Improved(auprc)
      <3>1. best' = Len(history) + 1 /\ since' = 0
        BY <2>1, <1>1, <1>4
      <3>2. \A e \in 1..Len(history) : history[e] < auprc
        <4>1. CASE best = None
          BY <4>1, <1>8
        <4>2. CASE best # None
          <5>1. auprc > history[best] + MinimumDelta /\ history[best] \in Nat
            BY <4>2, <2>1, <1>4, <1>7 DEF Improved
          <5>2. QED
            BY <5>1, <4>2, <1>2, <1>4, <1>7
        <4>3. QED
          BY <4>1, <4>2
      <3>3. \A e \in 1..Len(history) : history'[e] < history'[best']
        BY <3>1, <3>2, <1>4
      <3>4. history'[best'] \in Nat /\ \A e \in 1..Len(history) : history'[e] \in Nat
        BY <3>1, <1>2, <1>4
      <3>5. \A e \in DOMAIN history' : e \in 1..Len(history) \/ e = best'
        BY <3>1, <1>3, <1>4
      <3>6. \A e \in DOMAIN history' : history'[e] <= history'[best'] + MinimumDelta
        BY <3>3, <3>4, <3>5, <1>2
      <3>7. 1..best' - 1 = 1..Len(history)
        BY <3>1, <1>3
      <3>8. best' \in 1..Len(history') /\ Len(history') = best' + since'
        BY <3>1, <1>3, <1>4
      <3>9. QED
        BY <3>3, <3>6, <3>7, <3>8
    <2>2. CASE ~Improved(auprc)
      <3>1. best # None /\ best \in 1..Len(history) /\ Len(history) = best + since
        BY <2>2, <1>7 DEF Improved
      <3>2. auprc <= history[best] + MinimumDelta /\ history[best] \in Nat
        BY <2>2, <3>1, <1>2, <1>4 DEF Improved
      <3>3. best' = best /\ since' = since + 1
        BY <2>2, <1>1
      <3>4. /\ \A e \in 1..Len(history) : history[e] <= history[best] + MinimumDelta
            /\ \A e \in 1..best - 1 : history[e] < history[best]
        BY <3>1, <1>7
      <3>5. history'[best'] = history[best] /\ \A e \in 1..best - 1 : history'[e] = history[e]
        BY <3>1, <3>3, <1>3, <1>4
      <3>6. history[best] \in Nat /\ auprc <= history[best] + MinimumDelta
        BY <3>2
      <3>7. \A e \in DOMAIN history' : e \in 1..Len(history) \/ history'[e] = auprc
        BY <1>3, <1>4
      <3>8. \A e \in 1..Len(history) : history'[e] = history[e]
        BY <1>3, <1>4
      <3>9. \A e \in DOMAIN history' : history'[e] <= history'[best'] + MinimumDelta
        BY <3>3, <3>4, <3>5, <3>6, <3>7, <3>8
      <3>10. \A e \in 1..best' - 1 : history'[e] < history'[best']
        BY <3>3, <3>4, <3>5
      <3>11. best' \in 1..Len(history') /\ Len(history') = best' + since'
        BY <3>1, <3>3, <1>3, <1>4
      <3>12. QED
        BY <3>9, <3>10, <3>11
    <2>3. QED
      BY <2>1, <2>2
  <1>11. best' # None /\ history' # <<>>
    BY <1>3, <1>4, <1>10 DEF None
  <1>12. stage' = "fit" => since' < Patience /\ Len(history') < MaxEpochs
    BY <1>2, <1>3, <1>4, <1>5, <1>6, <1>9
  <1>13. stage' \in {"publish", "done"} => since' = Patience \/ Len(history') = MaxEpochs
    BY <1>2, <1>5, <1>9
  <1>14. stage' \in {"fit", "publish"}
    BY <1>5
  <1>15. QED
    BY <1>4, <1>9, <1>10, <1>11, <1>12, <1>13, <1>14 DEF EpochInv, BestEpochKept

\* The published epoch is the best one, up to minimum_delta.
THEOREM BestIsKept == Spec => []BestEpochKept
  <1>1. Init => EpochInv
    BY DEF Init, EpochInv, BestEpochKept, None
  <1>2. EpochInv /\ [Next]_vars => EpochInv'
    <2> SUFFICES ASSUME EpochInv, [Next]_vars PROVE EpochInv'
      OBVIOUS
    <2> USE DEF EpochInv, BestEpochKept
    <2>1. CASE Begin
      BY <2>1 DEF Begin, args, fitting
    <2>2. CASE Load
      <3>1. stage = "load" /\ stage' \in {"sample", "failed"} /\ UNCHANGED <<kind, fitting>>
        BY <2>2, Zenon DEF Load, Fails, args
      <3>2. QED
        BY <3>1 DEF fitting
    <2>3. CASE Sampled
      <3>1. /\ stage = "sample" /\ stage' \in {"failed", "exited", "fit"}
            /\ UNCHANGED <<kind, fitting>>
        BY <2>3, Zenon DEF Sampled, Fails, args
      <3>2. {Patience, MaxEpochs} \subseteq Nat \ {0}
        BY TrainingOK
      <3>3. QED
        BY <3>1, <3>2 DEF fitting
    <2>4. CASE Epoch
      BY <2>4, EpochKeeps
    <2>5. CASE Publish
      <3>1. stage = "publish" /\ stage' \in {"publish", "done"} /\ UNCHANGED <<kind, fitting>>
        BY <2>5, Zenon DEF Publish, args
      <3>2. QED
        BY <3>1 DEF fitting
    <2>6. CASE KeepAll \/ Draw \/ KeepDrawn \/ UNCHANGED vars
      BY <2>6 DEF KeepAll, Draw, KeepDrawn, vars, args, fitting
    <2>7. CASE Kill
      BY <2>7 DEF Kill, args, fitting
    <2>8. CASE Again
      BY <2>8 DEF Again, args, None
    <2>9. CASE Raises \/ RecordRaises
      <3>1. stage' \in {"failed", "exited"} /\ UNCHANGED <<kind, fitting>>
        BY <2>9 DEF Raises, Fails, RecordRaises, args
      <3>2. QED
        BY <3>1 DEF fitting
    <2>10. QED
      BY <2>1, <2>2, <2>3, <2>4, <2>5, <2>6, <2>7, <2>8, <2>9 DEF Next, Step
  <1>3. EpochInv => BestEpochKept
    BY DEF EpochInv
  <1>4. QED
    BY <1>1, <1>2, <1>3, PTL DEF Spec

-----------------------------------------------------------------------------
(* The cap.                                                                  *)

\* What the phases drew so far from the current episode.
DrawInv ==
    /\ chunk \in Nat /\ spare = 0 /\ IsFiniteSet(drawn)
    /\ stage \in {"start", "load"} => chunk = 0
    /\ chunk = 0 => drawn = {}
    /\ chunk # 0 =>
         LET n == Negatives(Current) IN
         /\ n \in Nat /\ n > Cap /\ chunk <= Chunks(n)
         /\ drawn \subseteq 1..Before(n, Chunks(n), chunk)
         /\ Cardinality(drawn) = Before(Cap, Chunks(n), chunk)

LEMMA DrawKeeps ==
  ASSUME Loaded, DrawInv, Draw
  PROVE  DrawInv'
  <1> DEFINE n == Negatives(Current)
             c == Chunks(n)
             low == Before(n, c, chunk)
             high == Before(n, c, chunk + 1)
             quota == Share(Cap, c, chunk + 1)
  <1>1. Cap \in Nat /\ PhaseBins \in Nat \ {0}
    BY TrainingOK
  <1>2. n \in Nat /\ n > Cap
    <2>1. PICK e \in todo : At(pool, e) = Current
      BY DEF Draw, Sampling
    <2>2. QED
      BY <2>1, LoadedType, NegativesType DEF Draw, Drawn, Thinned
  <1>3. c \in Nat \ {0} /\ chunk \in Nat /\ chunk < c
    BY <1>1, <1>2 DEF Chunks, Draw, DrawInv
  <1>4. /\ low \in Nat /\ high = low + Share(n, c, chunk + 1)
        /\ Share(n, c, chunk + 1) \in Nat /\ quota \in Nat
        /\ quota <= Share(n, c, chunk + 1)
    <2> HIDE DEF n, c
    <2>1. chunk + 1 \in Nat
      BY <1>3
    <2>2. QED
      BY <2>1, <1>1, <1>2, <1>3, ShareType, BeforeStep, SharesGrow
  <1>5. Phase(n, chunk + 1) = low + 1..high
    <2>1. (chunk + 1) - 1 = chunk
      BY <1>3
    <2>2. Phase(n, chunk + 1) = Before(n, c, (chunk + 1) - 1) + 1..high
      BY DEF Phase
    <2>3. QED
      BY <2>1, <2>2
  <1>6. /\ IsFiniteSet(low + 1..high)
        /\ Cardinality(low + 1..high) = Share(n, c, chunk + 1)
    <2> HIDE DEF low, high, n, c
    <2>1. low + 1 \in Int /\ high \in Int
      BY <1>4
    <2>2. /\ IsFiniteSet(low + 1..high)
          /\ Cardinality(low + 1..high) = IF low + 1 > high THEN 0 ELSE high - (low + 1) + 1
      BY <2>1, FS_Interval
    <2>3. QED
      BY <2>2, <1>4
  <1>7. /\ spare' = 0
        /\ \E some \in SUBSET (low + 1..high) : Cardinality(some) = quota /\ drawn' = drawn \cup some
    <2>1. Quota(n, chunk + 1) + spare = quota
      BY <1>4 DEF Quota, DrawInv
    <2>2. Min({Cardinality(Phase(n, chunk + 1)), quota}) = quota
      BY <1>4, <1>5, <1>6, MinOfTwo
    <2>3. quota - quota = 0
      BY <1>4
    <2>4. QED
      BY <2>1, <2>2, <2>3, <1>5 DEF Draw
  <1>8. PICK some \in SUBSET (low + 1..high) : Cardinality(some) = quota /\ drawn' = drawn \cup some
    BY <1>7
  <1>9. IsFiniteSet(some) /\ IsFiniteSet(drawn)
    BY <1>6, FS_Subset DEF DrawInv
  <1>10. drawn \subseteq 1..low /\ Cardinality(drawn) = Before(Cap, c, chunk)
    <2>1. CASE chunk = 0
      <3>1. Before(Cap, c, 0) = 0
        BY <1>1, <1>3, BeforeStep
      <3>2. QED
        BY <2>1, <3>1, FS_EmptySet DEF DrawInv
    <2>2. CASE chunk # 0
      BY <2>2 DEF DrawInv
    <2>3. QED
      BY <2>1, <2>2
  <1>11. drawn \cap some = {}
    <2> HIDE DEF low, high
    <2>1. \A x \in 1..low : x \notin low + 1..high
      BY <1>4
    <2>2. QED
      BY <2>1, <1>8, <1>10
  <1>12. /\ IsFiniteSet(drawn') /\ Cardinality(drawn') = Before(Cap, c, chunk) + quota
         /\ drawn' \subseteq 1..high
    <2>1. Before(Cap, c, chunk) \in Nat
      BY <1>1, <1>3, ShareType
    <2>2. Cardinality(drawn \cap some) = 0
      BY <1>11, FS_EmptySet
    <2>3. /\ IsFiniteSet(drawn \cup some)
          /\ Cardinality(drawn \cup some)
               = Cardinality(drawn) + Cardinality(some) - Cardinality(drawn \cap some)
      BY <1>9, FS_Union
    <2> HIDE DEF low, high, quota, c
    <2>4. 1..low \subseteq 1..high /\ low + 1..high \subseteq 1..high
      BY <1>4
    <2>5. QED
      BY <2>1, <2>2, <2>3, <2>4, <1>4, <1>8, <1>10
  <1>13. Before(Cap, c, chunk + 1) = Before(Cap, c, chunk) + quota
    BY <1>1, <1>3, BeforeStep
  <1>14. chunk' = chunk + 1 /\ stage' = "sample" /\ Negatives(Current)' = n
    BY DEF Draw, Sampling, args, Current, At, Negatives, Labelled
  <1>15. Chunks(Negatives(Current))' = c /\ Before(Cap, c, chunk)' = Before(Cap, c, chunk + 1)
         /\ Before(n, c, chunk)' = high
    BY <1>14 DEF Chunks, Before
  <1>16. chunk' \in Nat /\ chunk' # 0 /\ chunk' <= c
    BY <1>3, <1>14
  <1>17. /\ n > Cap /\ drawn' \subseteq 1..Before(n, c, chunk)'
         /\ Cardinality(drawn') = Before(Cap, c, chunk)'
    BY <1>2, <1>12, <1>13, <1>15
  <1> HIDE DEF n, c
  <1>18. LET m == Negatives(Current)' IN
           /\ m \in Nat /\ m > Cap /\ chunk' <= Chunks(m)
           /\ drawn' \subseteq 1..Before(m, Chunks(m), chunk')
           /\ Cardinality(drawn') = Before(Cap, Chunks(m), chunk')
    BY <1>2, <1>14, <1>15, <1>16, <1>17 DEF Chunks, c
  <1> HIDE DEF low, high, quota
  <1>19. QED
    BY <1>7, <1>12, <1>14, <1>16, <1>18 DEF DrawInv

\* No phase spares a quota, and the quotas of all phases are the cap.
THEOREM CapIsExact == Spec => []CapExact
  <1>1. Init => DrawInv
    BY FS_EmptySet DEF Init, DrawInv
  <1>2. Loaded /\ DrawInv /\ [Next]_vars => DrawInv'
    <2> SUFFICES ASSUME Loaded, DrawInv, [Next]_vars PROVE DrawInv'
      OBVIOUS
    <2>1. CASE Load
      BY <2>1 DEF Load, Fails, DrawInv
    <2>2. CASE Draw
      BY <2>2, DrawKeeps
    <2>3. CASE KeepAll \/ KeepDrawn
      <3>1. chunk' = 0 /\ spare' = 0 /\ drawn' = {}
        BY <2>3 DEF KeepAll, KeepDrawn, Add
      <3>2. QED
        BY <3>1, FS_EmptySet DEF DrawInv
    <2>4. CASE Again
      BY <2>4, FS_EmptySet DEF Again, DrawInv
    <2>5. CASE UNCHANGED <<args, sampling>> /\ (stage' \in {"start", "load"} => stage \in {"start", "load"})
      <3>1. chunk' = chunk /\ spare' = spare /\ drawn' = drawn /\ Negatives(Current)' = Negatives(Current)
        BY <2>5 DEF sampling, args, Current, At, Negatives, Labelled
      <3>2. QED
        BY <3>1, <2>5 DEF DrawInv, Chunks, Before
    <2>6. CASE \/ Begin \/ Sampled \/ Epoch \/ Publish \/ Raises \/ RecordRaises \/ Kill
               \/ UNCHANGED vars
      <3>1. UNCHANGED <<args, sampling>>
        BY <2>6 DEF Begin, Sampled, Epoch, Publish, Raises, RecordRaises, Kill, vars
      <3>2. stage' \in {"start", "load"} => stage \in {"start", "load"}
        BY <2>6, Zenon
        DEF Begin, Sampled, Fails, Epoch, Publish, Raises, RecordRaises, Kill, vars
      <3>3. QED
        BY <3>1, <3>2, <2>5
    <2>7. QED
      BY <2>1, <2>2, <2>3, <2>4, <2>6 DEF Next, Step
  <1>3. DrawInv => CapExact
    BY FS_EmptySet DEF DrawInv, CapExact
  <1>4. QED
    BY <1>1, <1>2, <1>3, SpecLoaded, PTL DEF Spec

=============================================================================

---------------------------- MODULE MonitorProofs ----------------------------
(* The failure monitor, for any grid, window, alarm policy and length of the *)
(* mission: pruning and suffixes lose nothing, the alarms are those of the   *)
(* policy, and the sidecar covers every request that was sent.               *)
EXTENDS FailureMonitor, FiniteSetTheorems, SequenceTheorems, WellFoundedInduction, TLAPS

-----------------------------------------------------------------------------
(* Least and greatest elements.                                            *)

LEMMA LeastNat ==
  ASSUME NEW T, T \subseteq Nat, T # {}
  PROVE  \E x \in T : \A y \in T : x <= y
  <1>1. \E x \in T : \A y \in T : ~(<<y, x>> \in OpToRel(<, Nat))
    BY NatLessThanWellFounded, WFMin
  <1>2. ASSUME NEW x \in Nat, NEW y \in Nat
        PROVE  <<y, x>> \in OpToRel(<, Nat) <=> y < x
    BY <1>2 DEF OpToRel
  <1>3. PICK x \in T : \A y \in T : ~(<<y, x>> \in OpToRel(<, Nat))
    BY <1>1
  <1>4. ASSUME NEW y \in T
        PROVE  x <= y
    <2>1. x \in Nat /\ y \in Nat
      OBVIOUS
    <2>2. ~(y < x)
      BY <1>2, <1>3, <2>1
    <2>3. QED
      BY <2>1, <2>2
  <1>5. QED
    BY <1>4

\* A set of times that is bounded has a newest one.
LEMMA MaxExists ==
  ASSUME NEW T, NEW bound \in Nat, T \subseteq 0..bound, T # {}
  PROVE  Max(T) \in T /\ \A y \in T : Max(T) >= y
  <1> DEFINE D == {bound - x : x \in T}
  <1>1. D \subseteq Nat /\ D # {}
    <2>1. \A x \in T : bound - x \in Nat
      OBVIOUS
    <2>2. QED
      BY <2>1
  <1>2. PICK d \in D : \A y \in D : d <= y
    <2> HIDE DEF D
    <2>1. QED
      BY <1>1, LeastNat
  <1>3. PICK x \in T : d = bound - x
    BY <1>2
  <1>4. \A y \in T : x >= y
    BY <1>2, <1>3
  <1>5. QED
    BY <1>3, <1>4 DEF Max

-----------------------------------------------------------------------------
(* The inductive invariant.                                                *)

Times == Nat \ {0}
Request == [decision : Nat, sent : Nat, clearance : Nat, poor : BOOLEAN, count : Nat]
Enriched == [row : Nat, past : SUBSET (Nat \X Nat), jump : Nat]

MonitorTypes ==
    /\ now \in Times /\ scan \in Nat /\ start \in Int /\ next \in Times
    /\ arrivals \in Seq([time : Times, next : Times]) /\ samples \in Seq(Times)
    /\ rows \in Seq(Nat) /\ base \in Times /\ lastFix \in Nat /\ tail \in Seq(Enriched)
    /\ scores \in Seq([time : Int, above : BOOLEAN]) /\ alarms \in Seq(Nat)
    /\ pending \in Seq(Request) /\ requests \in Seq(Request) /\ events \in Seq(Nat)
    /\ phase \in {"boot", "refused", "idle", "step", "publish", "request", "closing",
                  "rename", "down", "killed", "promoted"}

\* Nothing is decided before the mission starts.
Anchored ==
    /\ start >= -1
    /\ start = -1 => next = 1 /\ phase # "step"
    /\ phase = "boot" => start = -1

\* A sample that is not in the buffer was too old for the last row already.
BufferSuffices ==
    /\ \A i, j \in DOMAIN samples : i < j => samples[i] < samples[j]
    /\ \A i \in DOMAIN samples : \E j \in DOMAIN arrivals : arrivals[j].time = samples[i]
    /\ \A j \in DOMAIN arrivals :
         /\ arrivals[j].next <= next
         /\ \/ arrivals[j].time \in Range(samples)
            \/ start # -1 /\ arrivals[j].time < GridTime(next - 1) - MaxAge

RowsExact ==
    /\ Len(rows) = next - 1
    /\ \A k \in DOMAIN rows : rows[k] = Select(ReceivedBy(k), GridTime(k))

\* lastFix is the newest row with a pose; the rows from base on reach back to it.
HistoryKept ==
    /\ lastFix = None => \A k \in DOMAIN rows : rows[k] = None
    /\ lastFix # None => /\ lastFix \in DOMAIN rows /\ rows[lastFix] # None /\ base <= lastFix
                         /\ \A k \in DOMAIN rows : rows[k] # None => k <= lastFix
    /\ base = 1 \/ base <= next - 1 - Steps

TailExact ==
    /\ Len(tail) = IF next - 1 < Steps THEN next - 1 ELSE Steps
    /\ \A i \in DOMAIN tail : tail[i] = Enrich(rows, 1, next - 1 - Len(tail) + i)

ScoresFollow ==
    /\ Len(scores) = IF next <= Steps THEN 0 ELSE next - Steps
    /\ \A j \in DOMAIN scores : scores[j].time = GridTime(j + Steps - 1)

\* The alarms, published or pending, are those of the policy; each carries the
\* state of the robot at its own decision.
Warned(r, i) ==
    /\ r.decision = alarms[i] /\ r.count = i - 1
    /\ r.poor <=> rows[r.decision + Steps - 1] = None

AlarmsFollow ==
    /\ alarms = Replay(scores)
    /\ \A i \in DOMAIN alarms : alarms[i] \in 1..Len(scores)
    /\ \A i, j \in DOMAIN alarms : i < j => alarms[i] < alarms[j]

RequestsFollow ==
    /\ Len(alarms) = Len(requests) + Len(pending)
    /\ \A i \in DOMAIN requests : Warned(requests[i], i)
    /\ \A i \in DOMAIN pending : Warned(pending[i], Len(requests) + i)

EventsFollow ==
    /\ Len(events) <= Len(alarms)
    /\ \A i \in DOMAIN events : events[i] = alarms[i]
    /\ Len(requests) <= Len(events) /\ Len(events) <= Len(requests) + 1
    /\ phase \in {"idle", "step", "publish"} => Len(events) = Len(requests)
    /\ phase = "request" => Len(events) = Len(requests) + 1
    /\ phase \in {"boot", "refused"} => Len(events) = 0

\* A file of the sidecar holds exactly the alarms among its decisions.
Held(file) ==
    /\ file.decisions \in Nat /\ file.decisions <= Len(scores)
    /\ file.alarms \in Seq(Nat) /\ Len(file.alarms) <= Len(alarms)
    /\ \A i \in 1..Len(file.alarms) : file.alarms[i] = alarms[i]
    /\ \A i \in DOMAIN alarms : i <= Len(file.alarms) <=> alarms[i] <= file.decisions

SidecarFollows ==
    /\ phase = "rename" => partial = Sidecar
    /\ phase = "down" => final = Sidecar
    /\ final # NoFile => phase \in {"down", "promoted"} /\ Held(final)
    /\ partial # NoFile => Held(partial)
    /\ phase \in {"idle", "step", "publish", "request", "closing", "rename"} => partial # NoFile
    /\ phase = "promoted" => final # NoFile

MonitorInv ==
    MonitorTypes /\ Anchored /\ BufferSuffices /\ RowsExact /\ HistoryKept /\ TailExact
      /\ ScoresFollow /\ AlarmsFollow /\ RequestsFollow /\ EventsFollow /\ SidecarFollows

-----------------------------------------------------------------------------
(* The grid, the selection of a sample, and the pruning of the buffer.     *)

LEMMA Parameters ==
  /\ Stride \in Nat \ {0} /\ Steps \in Nat \ {0} /\ MaxAge \in Nat \ {0}
  /\ Required \in Nat /\ Required >= 1 /\ Required <= Considered
  /\ Considered \in Nat /\ Cooldown \in Nat
  BY MonitorOK

\* Grid points are integers, and in order.
LEMMA GridOrder ==
  ASSUME start \in Int, NEW i \in Nat, NEW j \in Nat, i <= j
  PROVE  GridTime(i) \in Int /\ GridTime(j) \in Int /\ GridTime(i) <= GridTime(j)
  <1> DEFINE d == j - i
  <1>1. d \in Nat /\ j = i + d
    OBVIOUS
  <1>2. d * Stride \in Nat /\ i * Stride \in Int
    BY <1>1, Parameters
  <1>3. j * Stride = i * Stride + d * Stride
    <2> HIDE DEF d
    <2>1. QED
      BY <1>1, Parameters
  <1> HIDE DEF d
  <1>4. QED
    BY <1>2, <1>3 DEF GridTime

\* What Select returns depends on the samples that are fresh, and on nothing else.
Fresh(times, time) == {t \in times : t <= time /\ time - t <= MaxAge}

LEMMA GreatestUnique ==
  ASSUME NEW T, T \subseteq Int, NEW m \in T, \A y \in T : m >= y
  PROVE  Max(T) = m
  <1>1. \A x \in T : (\A y \in T : x >= y) => x = m
    OBVIOUS
  <1>2. QED
    BY <1>1 DEF Max

LEMMA PastHasNewest ==
  ASSUME NEW times, times \subseteq Times, NEW time \in Int,
         NEW T, T = {t \in times : t <= time}, T # {}
  PROVE  Max(T) \in T /\ \A y \in T : Max(T) >= y
  <1>1. \A t \in T : t \in Nat /\ t <= time
    BY DEF Times
  <1>2. time \in Nat
    BY <1>1
  <1>3. T \subseteq 0..time
    BY <1>1, <1>2
  <1>4. QED
    BY <1>2, <1>3, MaxExists

LEMMA SelectIsFresh ==
  ASSUME NEW times, times \subseteq Times, NEW time \in Int
  PROVE  /\ Fresh(times, time) = {} => Select(times, time) = None
         /\ Fresh(times, time) # {} => Select(times, time) = Max(Fresh(times, time))
  <1> DEFINE past == {t \in times : t <= time}
             old == past = {} \/ time - Max(past) > MaxAge
  <1>1. Select(times, time) = IF old THEN None ELSE Max(past)
    BY DEF Select
  <1>2. past # {} => Max(past) \in past /\ \A y \in past : Max(past) >= y
    BY PastHasNewest
  <1>3. MaxAge \in Nat /\ \A t \in times : t \in Nat
    BY Parameters DEF Times
  <1>4. CASE Fresh(times, time) = {}
    <2>1. past # {} => ~(time - Max(past) <= MaxAge)
      BY <1>2, <1>4 DEF Fresh
    <2>2. past # {} => Max(past) \in Int
      BY <1>2, <1>3
    <2>3. past # {} => time - Max(past) > MaxAge
      BY <2>1, <2>2, <1>3
    <2>4. QED
      BY <1>1, <1>4, <2>3
  <1>5. CASE Fresh(times, time) # {}
    <2>1. PICK f \in times : f <= time /\ time - f <= MaxAge
      BY <1>5 DEF Fresh
    <2>2. past # {}
      BY <2>1
    <2>3. Max(past) \in Int /\ f \in Int /\ f <= Max(past)
      BY <1>2, <1>3, <2>1, <2>2
    <2>4. time - Max(past) <= MaxAge
      BY <2>1, <2>3, <1>3
    <2>5. Max(past) \in Fresh(times, time)
      BY <1>2, <2>2, <2>4 DEF Fresh
    <2>6. \A y \in Fresh(times, time) : Max(past) >= y
      BY <1>2, <2>2 DEF Fresh
    <2>7. Fresh(times, time) \subseteq Int
      BY <1>3 DEF Fresh
    <2>8. Max(Fresh(times, time)) = Max(past)
      <3> HIDE DEF past
      <3>1. QED
        BY <2>5, <2>6, <2>7, GreatestUnique
    <2>9. QED
      BY <1>1, <1>3, <1>5, <2>2, <2>3, <2>4, <2>8
  <1>6. QED
    BY <1>4, <1>5

LEMMA SelectType ==
  ASSUME NEW times, times \subseteq Times, NEW time \in Int
  PROVE  Select(times, time) \in Nat
  <1> DEFINE F == Fresh(times, time)
  <1>1. \A t \in F : t \in Nat /\ t <= time
    BY DEF Fresh, Times
  <1>2. CASE F = {}
    BY <1>2, SelectIsFresh DEF None
  <1>3. CASE F # {}
    <2> HIDE DEF F
    <2>1. time \in Nat /\ F \subseteq 0..time
      BY <1>1, <1>3
    <2>2. Max(F) \in F
      BY <1>3, <2>1, MaxExists
    <2>3. QED
      BY <1>3, <2>1, <2>2, SelectIsFresh DEF F
  <1>4. QED
    BY <1>2, <1>3

LEMMA SelectSame ==
  ASSUME NEW A, A \subseteq Times, NEW B, B \subseteq Times, NEW time \in Int,
         Fresh(A, time) = Fresh(B, time)
  PROVE  Select(A, time) = Select(B, time)
  <1>1. CASE Fresh(A, time) = {}
    BY <1>1, SelectIsFresh
  <1>2. CASE Fresh(A, time) # {}
    <2>1. Select(A, time) = Max(Fresh(A, time))
      BY <1>2, SelectIsFresh
    <2>2. Select(B, time) = Max(Fresh(B, time))
      BY <1>2, SelectIsFresh
    <2>3. QED
      BY <2>1, <2>2
  <1>3. QED
    BY <1>1, <1>2

\* Pruning keeps the order, and drops nothing but what is too old.
LEMMA PruneKeeps ==
  ASSUME NEW s \in Seq(Times), \A i, j \in DOMAIN s : i < j => s[i] < s[j], NEW time \in Int
  PROVE  /\ Prune(s, time) \in Seq(Times)
         /\ \A i, j \in DOMAIN Prune(s, time) : i < j => Prune(s, time)[i] < Prune(s, time)[j]
         /\ Range(Prune(s, time)) \subseteq Range(s)
         /\ \A i \in DOMAIN s : s[i] \in Range(Prune(s, time)) \/ s[i] < time - MaxAge
  <1> DEFINE old == {i \in 1..(Len(s) - 1) : s[i + 1] <= time - MaxAge}
             m == Max(old) + 1
  <1>1. Prune(s, time) = IF old = {} THEN s ELSE SubSeq(s, m, Len(s))
    BY DEF Prune
  <1>2. CASE old = {}
    BY <1>1, <1>2 DEF Range
  <1>3. CASE old # {}
    <2>1. old \subseteq 0..Len(s) /\ Len(s) \in Nat
      OBVIOUS
    <2>2. Max(old) \in old
      <3> HIDE DEF old
      <3>1. QED
        BY <1>3, <2>1, MaxExists
    <2>3. m \in 2..Len(s) /\ s[m] <= time - MaxAge
      BY <2>2
    <2> HIDE DEF m, old
    <2> DEFINE p == SubSeq(s, m, Len(s))
    <2>4. /\ p \in Seq(Times) /\ Len(p) = Len(s) - m + 1
          /\ \A i \in 1..Len(p) : p[i] = s[m + i - 1]
      BY <2>3, <2>1, SubSeqProperties
    <2>5. DOMAIN p = 1..Len(p) /\ DOMAIN s = 1..Len(s)
      BY <2>4
    <2> HIDE DEF p
    <2>6. \A i \in 1..Len(p) : m + i - 1 \in DOMAIN s
      BY <2>4, <2>5, <2>3, <2>1
    <2>7. ASSUME NEW i \in DOMAIN p, NEW j \in DOMAIN p, i < j
          PROVE  p[i] < p[j]
      <3>1. i \in 1..Len(p) /\ j \in 1..Len(p) /\ i \in Nat /\ j \in Nat /\ m \in Nat
        BY <2>1, <2>3, <2>4, <2>5
      <3>2. p[i] = s[m + i - 1] /\ p[j] = s[m + j - 1]
        BY <2>4, <3>1
      <3>3. m + i - 1 \in DOMAIN s /\ m + j - 1 \in DOMAIN s /\ m + i - 1 < m + j - 1
        BY <2>6, <2>7, <3>1
      <3>4. s[m + i - 1] < s[m + j - 1]
        BY <3>3
      <3>5. QED
        BY <3>2, <3>4
    <2>8. Range(p) \subseteq Range(s)
      BY <2>4, <2>5, <2>6 DEF Range
    <2>9. ASSUME NEW i \in DOMAIN s
          PROVE  s[i] \in Range(p) \/ s[i] < time - MaxAge
      <3>1. CASE i >= m
        <4>1. i - m + 1 \in DOMAIN p /\ p[i - m + 1] = s[i]
          BY <3>1, <2>3, <2>1, <2>4, <2>5
        <4>2. QED
          BY <4>1 DEF Range
      <3>2. CASE i < m
        <4>1. m \in DOMAIN s /\ i < m
          BY <3>2, <2>3, <2>1, <2>5
        <4>2. s[i] \in Times /\ s[m] \in Times /\ s[i] < s[m]
          BY <4>1
        <4>3. s[m] <= time - MaxAge
          BY <2>3
        <4>4. QED
          BY <4>2, <4>3, Parameters DEF Times
      <3>3. QED
        BY <3>1, <3>2, <2>3, <2>5
    <2>10. Prune(s, time) = p
      BY <1>1, <1>3 DEF p
    <2>11. QED
      BY <2>4, <2>7, <2>8, <2>9, <2>10
  <1>4. QED
    BY <1>2, <1>3

-----------------------------------------------------------------------------
(* The rows of a window.                                                   *)

\* What Enrich returns depends on the rows from..k only.
LEMMA EnrichFrame ==
  ASSUME NEW q, NEW r, NEW from \in Int, NEW k \in Int, from <= k,
         \A j \in from..k : q[j] = r[j]
  PROVE  Enrich(q, from, k) = Enrich(r, from, k)
  <1>1. \A j \in from..(k - 1) : q[j] = r[j]
    OBVIOUS
  <1>2. {j \in from..(k - 1) : q[j] # None} = {j \in from..(k - 1) : r[j] # None}
    BY <1>1
  <1>3. \A j \in {i \in from..k : i >= k - Steps} : q[j] = r[j]
    OBVIOUS
  <1>4. {<<j, q[j]>> : j \in {i \in from..k : i >= k - Steps}}
          = {<<j, r[j]>> : j \in {i \in from..k : i >= k - Steps}}
    BY <1>3
  <1>5. q[k] = r[k]
    OBVIOUS
  <1>6. QED
    BY <1>2, <1>4, <1>5 DEF Enrich

\* A suffix that reaches back Steps rows, and to the last fix, is as good as all rows.
LEMMA EnrichSuffix ==
  ASSUME NEW r, NEW from \in Nat, NEW k \in Nat, 1 <= from, from <= k,
         from = 1 \/ from <= k - Steps,
         \A j \in 1..(k - 1) : r[j] # None =>
             \E m \in from..(k - 1) : j <= m /\ r[m] # None
  PROVE  Enrich(r, from, k) = Enrich(r, 1, k)
  <1> DEFINE F == {j \in from..(k - 1) : r[j] # None}
             G == {j \in 1..(k - 1) : r[j] # None}
  <1>1. F \subseteq G /\ G \subseteq 0..k
    OBVIOUS
  <1>2. F = {} <=> G = {}
    BY <1>1
  <1>3. G # {} => Max(F) = Max(G)
    <2> SUFFICES ASSUME G # {} PROVE Max(F) = Max(G)
      OBVIOUS
    <2>1. \A j \in G : \E m \in F : j <= m
      OBVIOUS
    <2> HIDE DEF F, G
    <2>2. Max(G) \in G /\ \A y \in G : Max(G) >= y
      BY <1>1, MaxExists
    <2>3. PICK m \in F : Max(G) <= m
      BY <2>1, <2>2
    <2>0. \A x \in G : x \in Nat
      BY <1>1
    <2>9. m \in G
      BY <2>3, <1>1
    <2>4. m \in G /\ Max(G) >= m /\ Max(G) \in Nat /\ m \in Nat
      BY <2>0, <2>2, <2>9
    <2>5. Max(G) = m
      BY <2>3, <2>4
    <2>6. m \in F /\ F \subseteq Int /\ \A y \in F : m >= y
      BY <2>2, <2>3, <2>5, <1>1
    <2>7. QED
      BY <2>5, <2>6, GreatestUnique
  <1>4. {i \in from..k : i >= k - Steps} = {i \in 1..k : i >= k - Steps}
    BY Parameters
  <1> HIDE DEF F, G
  <1>5. Enrich(r, from, k) = [row |-> k, past |-> {<<j, r[j]>> : j \in {i \in from..k : i >= k - Steps}},
                              jump |-> IF r[k] = None \/ F = {} THEN None ELSE Max(F)]
    BY DEF Enrich, F
  <1>6. Enrich(r, 1, k) = [row |-> k, past |-> {<<j, r[j]>> : j \in {i \in 1..k : i >= k - Steps}},
                           jump |-> IF r[k] = None \/ G = {} THEN None ELSE Max(G)]
    BY DEF Enrich, G
  <1>7. QED
    BY <1>2, <1>3, <1>4, <1>5, <1>6

LEMMA EnrichType ==
  ASSUME NEW r \in Seq(Nat), NEW k \in 1..Len(r)
  PROVE  Enrich(r, 1, k) \in Enriched
  <1> DEFINE F == {j \in 1..(k - 1) : r[j] # None}
             P == {<<j, r[j]>> : j \in {i \in 1..k : i >= k - Steps}}
             J == IF r[k] = None \/ F = {} THEN None ELSE Max(F)
  <1>0. Len(r) \in Nat /\ k \in Nat /\ \A j \in 1..k : r[j] \in Nat
    OBVIOUS
  <1>1. F \subseteq 0..k
    BY <1>0
  <1>2. J \in Nat
    <2> HIDE DEF F
    <2>1. F # {} => Max(F) \in F
      BY <1>0, <1>1, MaxExists
    <2>2. \A x \in F : x \in Nat
      BY <1>0, <1>1
    <2>3. F # {} => Max(F) \in Nat
      BY <2>1, <2>2
    <2>4. QED
      BY <2>3 DEF None
  <1>3. P \subseteq Nat \X Nat
    BY <1>0
  <1>4. Enrich(r, 1, k) = [row |-> k, past |-> P, jump |-> J]
    BY DEF Enrich
  <1> HIDE DEF P, J
  <1>5. QED
    BY <1>0, <1>2, <1>3, <1>4 DEF Enriched

-----------------------------------------------------------------------------
(* The replay of the alarm policy.                                         *)

Score == [time : Int, above : BOOLEAN]

Raises(s, i, before) ==
    /\ Persistent(s, i)
    /\ before # <<>> => s[i].time - s[Last(before)].time >= Cooldown

\* f holds the alarms among the first i decisions, for every i up to n.
IsRun(s, n, f) ==
    f = [i \in 0..n |->
            IF i = 0 THEN <<>>
            ELSE IF Raises(s, i, f[i - 1]) THEN Append(f[i - 1], i) ELSE f[i - 1]]

LEMMA ReplayIsRun ==
  ASSUME NEW s
  PROVE  Replay(s) = (CHOOSE f : IsRun(s, Len(s), f))[Len(s)]
  BY DEF Replay, IsRun, Raises

LEMMA RunSteps ==
  ASSUME NEW s, NEW n \in Nat, NEW f, IsRun(s, n, f)
  PROVE  /\ f[0] = <<>>
         /\ \A i \in 1..n : f[i] = IF Raises(s, i, f[i - 1]) THEN Append(f[i - 1], i) ELSE f[i - 1]
  <1> DEFINE g == [i \in 0..n |->
                     IF i = 0 THEN <<>>
                     ELSE IF Raises(s, i, f[i - 1]) THEN Append(f[i - 1], i) ELSE f[i - 1]]
  <1>1. f = g
    BY DEF IsRun
  <1>2. g[0] = <<>>
    OBVIOUS
  <1>3. \A i \in 1..n : g[i] = IF Raises(s, i, f[i - 1]) THEN Append(f[i - 1], i) ELSE f[i - 1]
    OBVIOUS
  <1> HIDE DEF g
  <1>4. QED
    BY <1>1, <1>2, <1>3

\* A function that takes the steps of a run is one.
LEMMA RunBySteps ==
  ASSUME NEW s, NEW n \in Nat, NEW f, f = [i \in 0..n |-> f[i]], f[0] = <<>>,
         \A i \in 1..n : f[i] = IF Raises(s, i, f[i - 1]) THEN Append(f[i - 1], i) ELSE f[i - 1]
  PROVE  IsRun(s, n, f)
  <1> DEFINE e(i) == IF i = 0 THEN <<>>
                     ELSE IF Raises(s, i, f[i - 1]) THEN Append(f[i - 1], i) ELSE f[i - 1]
  <1>1. ASSUME NEW i \in 0..n
        PROVE  f[i] = e(i)
    <2>1. CASE i = 0
      BY <2>1
    <2>2. CASE i # 0
      <3>1. i \in 1..n
        BY <2>2
      <3>2. QED
        BY <2>2, <3>1
    <2>3. QED
      BY <2>1, <2>2
  <1>2. f = [i \in 0..n |-> e(i)]
    <2> HIDE DEF e
    <2>1. QED
      BY <1>1
  <1>3. QED
    BY <1>2 DEF IsRun

LEMMA RunExists ==
  ASSUME NEW s, NEW n \in Nat
  PROVE  \E f : IsRun(s, n, f)
  <1> DEFINE T == {m \in Nat : ~\E f : IsRun(s, m, f)}
  <1>1. SUFFICES ASSUME T # {} PROVE FALSE
    OBVIOUS
  <1>2. PICK m \in T : \A y \in T : m <= y
    <2>1. T \subseteq Nat
      OBVIOUS
    <2> HIDE DEF T
    <2>2. QED
      BY <1>1, <2>1, LeastNat
  <1>3. CASE m = 0
    <2> DEFINE f == [i \in 0..0 |-> <<>>]
    <2>1. f[0] = <<>> /\ f = [i \in 0..0 |-> f[i]]
      OBVIOUS
    <2>2. \A i \in 1..0 : FALSE
      OBVIOUS
    <2> HIDE DEF f
    <2>3. IsRun(s, 0, f)
      BY <2>1, <2>2, RunBySteps
    <2>4. QED
      BY <1>2, <1>3, <2>3
  <1>4. CASE m # 0
    <2>1. m - 1 \in Nat /\ m \in Nat /\ m - 1 \notin T
      BY <1>2, <1>4
    <2>2. PICK g : IsRun(s, m - 1, g)
      BY <2>1
    <2>3. /\ g[0] = <<>>
          /\ \A i \in 1..(m - 1) :
               g[i] = IF Raises(s, i, g[i - 1]) THEN Append(g[i - 1], i) ELSE g[i - 1]
      BY <2>1, <2>2, RunSteps
    <2> DEFINE last == IF Raises(s, m, g[m - 1]) THEN Append(g[m - 1], m) ELSE g[m - 1]
               f == [i \in 0..m |-> IF i = m THEN last ELSE g[i]]
    <2>4. f[m] = last /\ (\A i \in 0..(m - 1) : f[i] = g[i]) /\ f = [i \in 0..m |-> f[i]]
      <3> HIDE DEF last
      <3>1. QED
        BY <2>1
    <2>5. f[0] = <<>>
      BY <2>1, <2>3, <2>4
    <2> HIDE DEF f
    <2>6. ASSUME NEW i \in 1..m
          PROVE  f[i] = IF Raises(s, i, f[i - 1]) THEN Append(f[i - 1], i) ELSE f[i - 1]
      <3> HIDE DEF T
      <3>0. i - 1 \in 0..(m - 1)
        BY <2>1
      <3>1. i - 1 \in 0..(m - 1) /\ f[i - 1] = g[i - 1]
        BY <2>4, <3>0
      <3>2. CASE i = m
        BY <2>4, <3>1, <3>2
      <3>3. CASE i # m
        <4>1. i \in 1..(m - 1) /\ i \in 0..(m - 1)
          BY <2>1, <3>3
        <4>2. f[i] = g[i]
          BY <2>4, <4>1
        <4>3. QED
          BY <2>3, <3>1, <4>1, <4>2
      <3>4. QED
        BY <3>2, <3>3
    <2>7. IsRun(s, m, f)
      BY <2>1, <2>4, <2>5, <2>6, RunBySteps
    <2>8. QED
      BY <1>2, <2>7
  <1>5. QED
    BY <1>3, <1>4

\* Whether a decision raises an alarm depends on the decisions up to it.
LEMMA RaisesSame ==
  ASSUME NEW q, NEW s, NEW i \in Nat \ {0}, \A j \in 1..i : q[j] = s[j],
         NEW before \in Seq(Nat), \A a \in DOMAIN before : before[a] \in 1..i
  PROVE  Raises(q, i, before) <=> Raises(s, i, before)
  <1> DEFINE C(r) == {j \in (i - Considered + 1)..i : r[j].above}
  <1>1. ASSUME i >= Considered
        PROVE  C(q) = C(s)
    <2>1. \A j \in (i - Considered + 1)..i : j \in 1..i
      BY <1>1, Parameters
    <2>2. QED
      BY <2>1
  <1>2. Persistent(q, i) <=> Persistent(s, i)
    <2>1. \A r : Persistent(r, i) <=> i >= Considered /\ Cardinality(C(r)) >= Required
      BY DEF Persistent
    <2> HIDE DEF C
    <2>2. QED
      BY <1>1, <2>1
  <1>3. ASSUME before # <<>>
        PROVE  q[Last(before)] = s[Last(before)]
    <2>1. Len(before) \in DOMAIN before
      BY <1>3, EmptySeq
    <2>2. QED
      BY <2>1 DEF Last
  <1>4. q[i] = s[i]
    OBVIOUS
  <1>5. QED
    BY <1>2, <1>3, <1>4 DEF Raises

LEMMA RunType ==
  ASSUME NEW s, NEW n \in Nat, NEW f, IsRun(s, n, f)
  PROVE  \A i \in 0..n : f[i] \in Seq(Nat) /\ \A a \in DOMAIN f[i] : f[i][a] \in 1..i
  <1> DEFINE Good(i) == f[i] \in Seq(Nat) /\ \A a \in DOMAIN f[i] : f[i][a] \in 1..i
             T == {i \in 0..n : ~Good(i)}
  <1>1. SUFFICES ASSUME T # {} PROVE FALSE
    OBVIOUS
  <1>2. PICK m \in T : \A y \in T : m <= y
    <2>1. T \subseteq Nat
      OBVIOUS
    <2> HIDE DEF T
    <2>2. QED
      BY <1>1, <2>1, LeastNat
  <1>3. m \in 0..n /\ ~Good(m)
    BY <1>2
  <1>4. m # 0
    <2>0. f[0] = <<>>
      BY RunSteps
    <2>1. Good(0)
      BY <2>0
    <2>2. QED
      BY <1>3, <2>1
  <1>5. m \in Nat /\ m - 1 \in 0..n /\ m \in 1..n
    BY <1>3, <1>4
  <1>6. Good(m - 1)
    <2>1. m - 1 \notin T
      <3> HIDE DEF T
      <3>1. QED
        BY <1>2, <1>5
    <2>2. QED
      BY <1>5, <2>1
  <1>7. f[m] = IF Raises(s, m, f[m - 1]) THEN Append(f[m - 1], m) ELSE f[m - 1]
    BY <1>5, RunSteps
  <1> DEFINE b == f[m - 1]
  <1>8. b \in Seq(Nat) /\ \A a \in DOMAIN b : b[a] \in 1..m
    BY <1>5, <1>6
  <1>9. Append(b, m) \in Seq(Nat) /\ \A a \in DOMAIN Append(b, m) : Append(b, m)[a] \in 1..m
    <2> HIDE DEF b, Good, T
    <2>1. QED
      BY <1>5, <1>8
  <1>10. f[m] = b \/ f[m] = Append(b, m)
    BY <1>7
  <1>11. Good(m)
    <2> HIDE DEF b, T
    <2>1. QED
      BY <1>8, <1>9, <1>10
  <1>12. QED
    BY <1>3, <1>11

Agree(q, s, n) == \A i \in 1..n : q[i] = s[i]

LEMMA RunPrefix ==
  ASSUME NEW q, NEW s, NEW n \in Nat, NEW m \in Nat, n <= m, Agree(q, s, n),
         NEW f, IsRun(q, n, f), NEW g, IsRun(s, m, g)
  PROVE  \A i \in 0..n : f[i] = g[i]
  <1> DEFINE T == {i \in 0..n : f[i] # g[i]}
  <1>1. SUFFICES ASSUME T # {} PROVE FALSE
    OBVIOUS
  <1>2. PICK k \in T : \A y \in T : k <= y
    <2>1. T \subseteq Nat
      OBVIOUS
    <2> HIDE DEF T
    <2>2. QED
      BY <1>1, <2>1, LeastNat
  <1>3. k \in 0..n /\ f[k] # g[k]
    BY <1>2
  <1>4. k # 0
    <2>1. f[0] = <<>> /\ g[0] = <<>>
      BY RunSteps
    <2>2. QED
      BY <1>3, <2>1
  <1>5. k \in Nat \ {0} /\ k - 1 \in 0..n /\ k \in 1..n /\ k \in 1..m
    BY <1>3, <1>4
  <1>6. f[k - 1] = g[k - 1]
    <2>1. k - 1 \notin T
      <3> HIDE DEF T
      <3>1. QED
        BY <1>2, <1>5
    <2>2. QED
      BY <1>5, <2>1
  <1>7. /\ f[k] = IF Raises(q, k, f[k - 1]) THEN Append(f[k - 1], k) ELSE f[k - 1]
        /\ g[k] = IF Raises(s, k, g[k - 1]) THEN Append(g[k - 1], k) ELSE g[k - 1]
    BY <1>5, RunSteps
  <1>8. Raises(q, k, f[k - 1]) <=> Raises(s, k, f[k - 1])
    <2> HIDE DEF T
    <2>1. \A j \in 1..k : q[j] = s[j]
      BY <1>5 DEF Agree
    <2>2. f[k - 1] \in Seq(Nat) /\ \A a \in DOMAIN f[k - 1] : f[k - 1][a] \in 1..(k - 1)
      BY <1>5, RunType
    <2>3. \A a \in DOMAIN f[k - 1] : f[k - 1][a] \in 1..k
      BY <2>2, <1>5
    <2>4. QED
      BY <1>5, <2>1, <2>2, <2>3, RaisesSame
  <1>9. QED
    BY <1>3, <1>6, <1>7, <1>8

\* The alarms of the first decisions stay; only the new one may be added.
LEMMA ReplayEmpty == Replay(<<>>) = <<>>
  <1>1. PICK f : IsRun(<<>>, 0, f)
    BY RunExists
  <1>2. Len(<<>>) = 0
    OBVIOUS
  <1> DEFINE g == CHOOSE h : IsRun(<<>>, 0, h)
  <1>3. IsRun(<<>>, 0, g)
    BY <1>1
  <1>4. Replay(<<>>) = g[0]
    BY <1>2, ReplayIsRun
  <1> HIDE DEF g
  <1>5. QED
    BY <1>3, <1>4, RunSteps

LEMMA ReplayAppend ==
  ASSUME NEW s \in Seq(Score), NEW x \in Score,
         NEW q, q = Append(s, x), NEW n, n = Len(s) + 1
  PROVE  /\ Replay(s) \in Seq(Nat) /\ \A a \in DOMAIN Replay(s) : Replay(s)[a] \in 1..Len(s)
         /\ Replay(q) = IF Raises(q, n, Replay(s)) THEN Append(Replay(s), n) ELSE Replay(s)
  <1> DEFINE f == CHOOSE h : IsRun(s, Len(s), h)
             g == CHOOSE h : IsRun(q, Len(q), h)
  <1>1. Len(s) \in Nat /\ Len(q) = n /\ n \in Nat /\ n >= 1 /\ n - 1 = Len(s)
    BY AppendProperties
  <1>2. IsRun(s, Len(s), f) /\ IsRun(q, n, g)
    BY <1>1, RunExists
  <1>3. Replay(s) = f[Len(s)] /\ Replay(q) = g[n]
    BY <1>1, ReplayIsRun
  <1>4. \A i \in 1..Len(s) : s[i] = q[i]
    BY AppendProperties
  <1> HIDE DEF f, g
  <1> DEFINE m == Len(s)
  <1>9. m \in 0..m /\ m \in Nat /\ n \in 1..n /\ m <= n
    BY <1>1
  <1>10. IsRun(s, m, f) /\ IsRun(q, n, g) /\ Agree(s, q, m)
    BY <1>1, <1>2, <1>4 DEF Agree
  <1> HIDE DEF m
  <1>11. \A i \in 0..m : f[i] = g[i]
    <2>1. m \in Nat /\ n \in Nat /\ m <= n
      BY <1>1, <1>9
    <2>2. QED
      BY <1>10, <2>1, RunPrefix
  <1>5. f[Len(s)] = g[Len(s)]
    BY <1>9, <1>11 DEF m
  <1>6. g[n] = IF Raises(q, n, g[n - 1]) THEN Append(g[n - 1], n) ELSE g[n - 1]
    <2>1. \A i \in 1..n : g[i] = IF Raises(q, i, g[i - 1]) THEN Append(g[i - 1], i) ELSE g[i - 1]
      BY <1>1, <1>10, RunSteps
    <2>2. QED
      BY <1>9, <2>1
  <1>7. f[Len(s)] \in Seq(Nat) /\ \A a \in DOMAIN f[Len(s)] : f[Len(s)][a] \in 1..Len(s)
    <2>1. \A i \in 0..m : f[i] \in Seq(Nat) /\ \A a \in DOMAIN f[i] : f[i][a] \in 1..i
      BY <1>9, <1>10, RunType
    <2>2. QED
      BY <1>9, <2>1 DEF m
  <1>8. QED
    BY <1>1, <1>3, <1>5, <1>6, <1>7

-----------------------------------------------------------------------------
(* The steps that touch neither the telemetry nor the window.              *)

LEMMA InitMonitor == Init => MonitorInv
  <1> SUFFICES ASSUME Init PROVE MonitorInv
    OBVIOUS
  <1>1. MonitorTypes
    BY DEF Init, MonitorTypes, Times, None
  <1>2. Anchored /\ BufferSuffices /\ RowsExact /\ HistoryKept
    BY DEF Init, Anchored, BufferSuffices, RowsExact, HistoryKept, None
  <1>3. TailExact /\ ScoresFollow
    BY Parameters DEF Init, TailExact, ScoresFollow
  <1>4. AlarmsFollow
    BY ReplayEmpty DEF Init, AlarmsFollow
  <1>5. RequestsFollow /\ EventsFollow /\ SidecarFollows
    BY DEF Init, RequestsFollow, EventsFollow, SidecarFollows, NoFile
  <1>6. QED
    BY <1>1, <1>2, <1>3, <1>4, <1>5 DEF MonitorInv

\* What the window and the decisions rest on.
Core == <<telemetry, window, decided>>

LEMMA CoreKept ==
  ASSUME MonitorInv, UNCHANGED <<arrivals, samples, start, window, decided>>
  PROVE  BufferSuffices' /\ RowsExact' /\ HistoryKept' /\ TailExact' /\ ScoresFollow'
           /\ AlarmsFollow'
  <1>0. UNCHANGED <<arrivals, samples, start, next, rows, base, lastFix, tail, scores, alarms>>
    BY DEF window, decided
  <1>1. BufferSuffices'
    BY <1>0 DEF MonitorInv, BufferSuffices, GridTime
  <1>2. RowsExact'
    BY <1>0 DEF MonitorInv, RowsExact, GridTime, ReceivedBy
  <1>3. HistoryKept'
    BY <1>0 DEF MonitorInv, HistoryKept
  <1>4. TailExact'
    BY <1>0 DEF MonitorInv, TailExact
  <1>5. ScoresFollow'
    BY <1>0 DEF MonitorInv, ScoresFollow, GridTime
  <1>6. AlarmsFollow'
    BY <1>0 DEF MonitorInv, AlarmsFollow
  <1>7. QED
    BY <1>1, <1>2, <1>3, <1>4, <1>5, <1>6

LEMMA SidecarHeld ==
  ASSUME MonitorInv
  PROVE  Held(Sidecar) /\ Sidecar # NoFile
  <1>1. /\ Sidecar.decisions = Len(scores) /\ Sidecar.alarms = alarms /\ NoFile.decisions = -1
        /\ Len(scores) \in Nat /\ Len(alarms) \in Nat
        /\ alarms \in Seq(Nat) /\ DOMAIN alarms = 1..Len(alarms)
    BY DEF MonitorInv, MonitorTypes, Sidecar, NoFile
  <1>2. \A i \in DOMAIN alarms : alarms[i] <= Len(scores) /\ i <= Len(alarms)
    BY <1>1 DEF MonitorInv, AlarmsFollow
  <1>3. Held(Sidecar)
    BY <1>1, <1>2 DEF Held
  <1>4. QED
    BY <1>1, <1>3

\* The files are kept with the decisions.
LEMMA FilesKept ==
  ASSUME MonitorInv, UNCHANGED <<scores, alarms>>, UNCHANGED files
  PROVE  (final # NoFile => Held(final))' /\ (partial # NoFile => Held(partial))'
  <1>1. UNCHANGED <<partial, final>>
    BY DEF files
  <1>2. QED
    BY <1>1 DEF MonitorInv, SidecarFollows, Held, NoFile

LEMMA BootKeeps ==
  ASSUME MonitorInv, Boot
  PROVE  MonitorInv'
  <1>0. /\ UNCHANGED <<arrivals, samples, start, window, decided>>
        /\ UNCHANGED <<now, scan, pending, events, requests, final>>
        /\ UNCHANGED <<next, rows, base, lastFix, tail, scores, alarms>>
        /\ phase = "boot" /\ phase' \in {"idle", "refused"}
    BY DEF Boot, clock, telemetry, window, decided, published
  <1>1. MonitorTypes' /\ Anchored'
    BY <1>0 DEF MonitorInv, MonitorTypes, Anchored
  <1>2. BufferSuffices' /\ RowsExact' /\ HistoryKept' /\ TailExact' /\ ScoresFollow'
          /\ AlarmsFollow'
    BY <1>0, CoreKept
  <1>3. RequestsFollow'
    BY <1>0 DEF MonitorInv, RequestsFollow, Warned
  <1>4. EventsFollow'
    BY <1>0 DEF MonitorInv, EventsFollow, MonitorTypes
  <1>5. SidecarFollows'
    <2> DEFINE first == [decisions |-> 0, alarms |-> <<>>]
    <2>1. Len(scores) = 0 /\ Len(alarms) = 0 /\ DOMAIN alarms = 1..0
      <3>1. next = 1 /\ scores \in Seq(Score) /\ alarms \in Seq(Nat)
        BY <1>0 DEF MonitorInv, MonitorTypes, Anchored, Score
      <3>2. Len(scores) = 0
        BY <3>1, Parameters DEF MonitorInv, ScoresFollow
      <3>3. \A i \in DOMAIN alarms : alarms[i] \in 1..0
        BY <3>2 DEF MonitorInv, AlarmsFollow
      <3>4. Len(alarms) \in Nat /\ DOMAIN alarms = 1..Len(alarms)
        BY <3>1
      <3>5. Len(alarms) # 0 => 1 \in DOMAIN alarms
        BY <3>4
      <3>6. Len(alarms) = 0
        BY <3>3, <3>5
      <3>7. QED
        BY <3>2, <3>4, <3>6
    <2>2. first.decisions = 0 /\ first.alarms = <<>> /\ NoFile.decisions = -1
      BY DEF NoFile
    <2>3. partial' = IF phase' = "idle" THEN first ELSE partial
      BY DEF Boot
    <2> HIDE DEF first
    <2>5. (final # NoFile => Held(final))' /\ (partial # NoFile => Held(partial))
      BY <1>0 DEF MonitorInv, SidecarFollows, Held, NoFile
    <2>7. (partial # NoFile => Held(partial))'
      <3>1. CASE partial' = first
        <4>1. /\ partial'.decisions = 0 /\ partial'.alarms = <<>> /\ Len(partial'.alarms) = 0
              /\ partial'.alarms \in Seq(Nat) /\ 1..0 = {}
          <5>1. <<>> \in Seq(Nat) /\ Len(<<>>) = 0 /\ 1..0 = {}
            OBVIOUS
          <5>2. partial'.decisions = 0 /\ partial'.alarms = <<>>
            BY <2>2, <3>1, Zenon
          <5>3. QED
            BY <5>1, <5>2, Zenon
        <4>2. scores' = scores /\ alarms' = alarms
          BY <1>0
        <4>3. QED
          BY <2>1, <4>1, <4>2 DEF Held
      <3>2. CASE partial' = partial
        BY <1>0, <2>5, <3>2 DEF Held, NoFile
      <3>3. QED
        BY <2>3, <3>1, <3>2
    <2>8. phase' = "idle" => partial' # NoFile
      BY <2>2, <2>3
    <2>9. QED
      BY <1>0, <2>5, <2>7, <2>8 DEF MonitorInv, SidecarFollows, NoFile
  <1>6. QED
    BY <1>1, <1>2, <1>3, <1>4, <1>5 DEF MonitorInv

\* The clock, a scan, the end of a tick and the interrupt.
LEMMA QuietKeeps ==
  ASSUME MonitorInv, Clock \/ ReceiveScan \/ Tick \/ StepDone \/ TickDone \/ Interrupt
  PROVE  MonitorInv'
  <1>0. /\ UNCHANGED <<arrivals, samples, start, window, decided>>
        /\ UNCHANGED <<pending, events, requests, final>>
        /\ UNCHANGED <<next, rows, base, lastFix, tail, scores, alarms>>
    BY DEF Clock, ReceiveScan, Tick, StepDone, TickDone, Interrupt, clock, telemetry, window,
           decided, published, files
  <1>a. /\ phase \in {"idle", "step", "publish", "request"}
        /\ \/ phase' = phase
           \/ phase' = "closing"
           \/ phase = "idle" /\ phase' = "step" /\ start # -1
           \/ phase = "step" /\ phase' = "publish"
           \/ phase = "publish" /\ phase' = "idle"
    BY DEF Clock, ReceiveScan, Tick, StepDone, TickDone, Interrupt
  <1>b. now' \in Times /\ scan' \in Nat
    <2>1. (now' = now \/ now' = now + 1) /\ scan' \in {scan, now, None}
      BY DEF Clock, ReceiveScan, Tick, StepDone, TickDone, Interrupt, clock, telemetry
    <2>2. now \in Nat \ {0} /\ scan \in Nat /\ None \in Nat
      BY DEF MonitorInv, MonitorTypes, Times, None
    <2>3. QED
      BY <2>1, <2>2 DEF Times
  <1>1. MonitorTypes' /\ Anchored'
    BY <1>0, <1>a, <1>b DEF MonitorInv, MonitorTypes, Anchored
  <1>2. BufferSuffices' /\ RowsExact' /\ HistoryKept' /\ TailExact' /\ ScoresFollow'
          /\ AlarmsFollow'
    BY <1>0, CoreKept
  <1>3. RequestsFollow'
    BY <1>0 DEF MonitorInv, RequestsFollow, Warned
  <1>4. EventsFollow'
    BY <1>0, <1>a DEF MonitorInv, EventsFollow
  <1>5. SidecarFollows'
    <2>1. partial' = partial \/ partial' = Sidecar
      BY DEF Clock, ReceiveScan, Tick, StepDone, TickDone, Interrupt, files
    <2>2. (final # NoFile => Held(final))' /\ (partial # NoFile => Held(partial))
      BY <1>0 DEF MonitorInv, SidecarFollows, Held, NoFile
    <2>3. (partial # NoFile => Held(partial))'
      <3>1. CASE partial' = Sidecar
        BY <1>0, <3>1, SidecarHeld DEF Held
      <3>2. CASE partial' = partial
        BY <1>0, <2>2, <3>2 DEF Held, NoFile
      <3>3. QED
        BY <2>1, <3>1, <3>2
    <2>4. partial' # NoFile
      BY <1>a, <2>1, SidecarHeld DEF MonitorInv, SidecarFollows
    <2>5. final = NoFile
      BY <1>a DEF MonitorInv, SidecarFollows
    <2>6. QED
      BY <1>0, <1>a, <2>3, <2>4, <2>5 DEF SidecarFollows, NoFile
  <1>6. QED
    BY <1>1, <1>2, <1>3, <1>4, <1>5 DEF MonitorInv

\* The end of the node, and what its runner publishes.
LEMMA CloseKeeps ==
  ASSUME MonitorInv, CloseSnapshot \/ CloseRename \/ Kill \/ Promote
  PROVE  MonitorInv'
  <1>0. /\ UNCHANGED <<arrivals, samples, start, window, decided>>
        /\ UNCHANGED <<now, scan, pending, events, requests>>
        /\ UNCHANGED <<next, rows, base, lastFix, tail, scores, alarms>>
        /\ phase' \in {"rename", "down", "killed", "promoted"}
    BY DEF CloseSnapshot, CloseRename, Kill, Promote, clock, telemetry, window, decided,
           published
  <1>1. MonitorTypes' /\ Anchored'
    BY <1>0 DEF MonitorInv, MonitorTypes, Anchored
  <1>2. BufferSuffices' /\ RowsExact' /\ HistoryKept' /\ TailExact' /\ ScoresFollow'
          /\ AlarmsFollow'
    BY <1>0, CoreKept
  <1>3. RequestsFollow'
    BY <1>0 DEF MonitorInv, RequestsFollow, Warned
  <1>4. EventsFollow'
    BY <1>0 DEF MonitorInv, EventsFollow
  <1>5. SidecarFollows'
    <2>0. /\ Sidecar' = Sidecar /\ NoFile' = NoFile
          /\ Held(partial) /\ partial' = partial => Held(partial)'
          /\ Held(partial) /\ final' = partial => Held(final)'
      BY <1>0 DEF Sidecar, NoFile, Held
    <2>f. /\ final # NoFile => phase \in {"down", "promoted"}
          /\ partial # NoFile => Held(partial)
          /\ phase = "rename" => partial = Sidecar
      BY DEF MonitorInv, SidecarFollows
    <2>1. CASE CloseSnapshot
      <3>1. /\ partial' = Sidecar /\ final' = final /\ phase = "closing" /\ phase' = "rename"
        BY <2>1 DEF CloseSnapshot
      <3>2. Held(partial)'
        BY <1>0, <3>1, SidecarHeld DEF Held
      <3>3. QED
        BY <2>0, <2>f, <3>1, <3>2, SidecarHeld DEF SidecarFollows
    <2>2. CASE CloseRename
      <3>1. /\ final' = partial /\ partial' = NoFile /\ phase = "rename" /\ phase' = "down"
        BY <2>2 DEF CloseRename
      <3>2. final' = Sidecar /\ Held(final)'
        BY <2>0, <2>f, <3>1, SidecarHeld
      <3>3. QED
        BY <2>0, <3>1, <3>2, SidecarHeld DEF SidecarFollows
    <2>3. CASE Kill
      <3>1. UNCHANGED <<partial, final>> /\ phase \notin {"down", "promoted"} /\ phase' = "killed"
        BY <2>3 DEF Kill, files
      <3>2. QED
        BY <2>0, <2>f, <3>1 DEF SidecarFollows
    <2>4. CASE Promote
      <3>1. /\ partial # NoFile /\ final' = partial /\ partial' = NoFile
            /\ phase' = "promoted"
        BY <2>4 DEF Promote
      <3>2. QED
        BY <2>0, <2>f, <3>1 DEF SidecarFollows
    <2>5. QED
      BY <2>1, <2>2, <2>3, <2>4
  <1>6. QED
    BY <1>1, <1>2, <1>3, <1>4, <1>5 DEF MonitorInv

-----------------------------------------------------------------------------
(* Telemetry.                                                              *)

Received == {a.time : a \in Range(arrivals)}

LEMMA ReceivedTimes ==
  ASSUME MonitorTypes
  PROVE  /\ Received \subseteq Times
         /\ \A k : ReceivedBy(k) \subseteq Times
         /\ Range(samples) \subseteq Times
  <1> DEFINE Arrival == [time : Times, next : Times]
  <1>0. arrivals \in Seq(Arrival) /\ samples \in Seq(Times)
    BY DEF MonitorTypes
  <1>a. \A i \in DOMAIN arrivals : arrivals[i] \in Arrival
    <2> HIDE DEF Arrival
    <2>1. QED
      BY <1>0
  <1>1. \A i \in DOMAIN arrivals : arrivals[i].time \in Times
    BY <1>a
  <1>2. \A a \in Range(arrivals) : a.time \in Times
    BY <1>1 DEF Range
  <1>3. Received \subseteq Times /\ \A k : ReceivedBy(k) \subseteq Times
    BY <1>2 DEF Received, ReceivedBy
  <1>4. \A i \in DOMAIN samples : samples[i] \in Times
    BY <1>0
  <1>5. QED
    BY <1>3, <1>4 DEF Range

\* A sample is received: it cannot change a row that was computed before.
LEMMA ReceiveKeeps ==
  ASSUME MonitorInv, Receive
  PROVE  MonitorInv'
  <1>0. /\ UNCHANGED <<now, scan, start, phase, pending, events, requests, partial, final>>
        /\ UNCHANGED <<next, rows, base, lastFix, tail, scores, alarms>>
        /\ samples' = Append(samples, now)
        /\ arrivals' = Append(arrivals, [time |-> now, next |-> next])
        /\ samples # <<>> => Last(samples) < now
    BY DEF Receive, clock, window, decided, published, files
  <1>t. MonitorTypes
    BY DEF MonitorInv
  <1>n. now \in Times /\ now \in Int /\ next \in Times /\ next \in Nat
    BY <1>t DEF MonitorTypes, Times
  <1> DEFINE arrival == [time |-> now, next |-> next]
  <1>a. /\ arrival \in [time : Times, next : Times]
        /\ arrival.time = now /\ arrival.next = next
    BY <1>n
  <1>b. /\ samples \in Seq(Times) /\ arrivals \in Seq([time : Times, next : Times])
        /\ arrivals' = Append(arrivals, arrival)
    BY <1>0, <1>t DEF MonitorTypes
  <1> HIDE DEF arrival
  <1>c. /\ samples' \in Seq(Times) /\ DOMAIN samples' = 1..(Len(samples) + 1)
        /\ DOMAIN samples = 1..Len(samples) /\ Len(samples) \in Nat
        /\ \A i \in DOMAIN samples : samples'[i] = samples[i]
        /\ samples'[Len(samples) + 1] = now
    BY <1>0, <1>b, <1>n
  <1>d. /\ arrivals' \in Seq([time : Times, next : Times])
        /\ DOMAIN arrivals' = 1..(Len(arrivals) + 1)
        /\ DOMAIN arrivals = 1..Len(arrivals) /\ Len(arrivals) \in Nat
        /\ \A i \in DOMAIN arrivals : arrivals'[i] = arrivals[i]
        /\ arrivals'[Len(arrivals) + 1] = arrival
    BY <1>a, <1>b
  <1>1. MonitorTypes' /\ Anchored'
    BY <1>0, <1>c, <1>d DEF MonitorInv, MonitorTypes, Anchored
  <1>2. BufferSuffices'
    <2>1. \A i \in DOMAIN samples : samples[i] < now
      <3>1. ASSUME NEW i \in DOMAIN samples
            PROVE  samples[i] < now
        <4>1. samples # <<>> /\ Len(samples) \in DOMAIN samples
          BY <1>c, <3>1
        <4>2. samples[Len(samples)] < now
          BY <1>0, <4>1 DEF Last
        <4>3. i = Len(samples) \/ samples[i] < samples[Len(samples)]
          BY <1>c, <4>1 DEF MonitorInv, BufferSuffices
        <4>4. samples[i] \in Int /\ samples[Len(samples)] \in Int
          BY <1>b, <4>1 DEF Times
        <4>5. QED
          BY <4>2, <4>3, <4>4, <1>n
      <3>2. QED
        BY <3>1
    <2>2. ASSUME NEW i \in DOMAIN samples', NEW j \in DOMAIN samples', i < j
          PROVE  samples'[i] < samples'[j]
      <3>1. i \in DOMAIN samples /\ (j \in DOMAIN samples \/ j = Len(samples) + 1)
        BY <1>c, <2>2
      <3>2. QED
        BY <1>c, <2>1, <2>2, <3>1 DEF MonitorInv, BufferSuffices
    <2>3. ASSUME NEW i \in DOMAIN samples'
          PROVE  \E j \in DOMAIN arrivals' : arrivals'[j].time = samples'[i]
      <3>1. CASE i \in DOMAIN samples
        <4>1. PICK j \in DOMAIN arrivals : arrivals[j].time = samples[i]
          BY <3>1 DEF MonitorInv, BufferSuffices
        <4>2. QED
          BY <1>c, <1>d, <3>1, <4>1
      <3>2. CASE i = Len(samples) + 1
        <4>1. Len(arrivals) + 1 \in DOMAIN arrivals'
          BY <1>d
        <4>2. QED
          BY <1>a, <1>c, <1>d, <3>2, <4>1
      <3>3. QED
        BY <1>c, <3>1, <3>2
    <2>4. Range(samples) \subseteq Range(samples') /\ now \in Range(samples')
      BY <1>c DEF Range
    <2>5. ASSUME NEW j \in DOMAIN arrivals'
          PROVE  /\ arrivals'[j].next <= next
                 /\ \/ arrivals'[j].time \in Range(samples')
                    \/ start # -1 /\ arrivals'[j].time < GridTime(next - 1) - MaxAge
      <3>1. CASE j \in DOMAIN arrivals
        BY <1>d, <2>4, <3>1 DEF MonitorInv, BufferSuffices
      <3>2. CASE j = Len(arrivals) + 1
        BY <1>a, <1>d, <1>n, <2>4, <3>2
      <3>3. QED
        BY <1>d, <3>1, <3>2
    <2>6. UNCHANGED <<start, next>>
      BY <1>0
    <2>7. (GridTime(next - 1))' = GridTime(next - 1)
      BY <2>6 DEF GridTime
    <2>8. QED
      BY <2>2, <2>3, <2>5, <2>6, <2>7 DEF BufferSuffices, GridTime
  <1>3. RowsExact'
    <2>1. ASSUME NEW k \in Nat, k < next
          PROVE  ReceivedBy(k)' = ReceivedBy(k)
      <3> DEFINE A == {b \in Range(arrivals) : b.next <= k}
                 B == {b \in Range(arrivals') : b.next <= k}
      <3>1. Range(arrivals') = Range(arrivals) \cup {arrival}
        BY <1>d DEF Range
      <3>2. ~(arrival.next <= k)
        BY <1>a, <1>n, <2>1
      <3>3. A = B
        BY <3>1, <3>2
      <3> HIDE DEF A, B
      <3>4. {a.time : a \in A} = {a.time : a \in B}
        BY <3>3
      <3>5. QED
        BY <3>4 DEF ReceivedBy, A, B
    <2>2. Len(rows) = next - 1 /\ rows \in Seq(Nat)
      BY <1>t DEF MonitorInv, RowsExact, MonitorTypes
    <2>3. \A k \in DOMAIN rows : k \in Nat /\ k < next
      BY <2>2, <1>n
    <2>4. \A k \in DOMAIN rows : GridTime(k)' = GridTime(k)
      BY <1>0 DEF GridTime
    <2>5. \A k \in DOMAIN rows : rows[k] = Select(ReceivedBy(k)', GridTime(k)')
      BY <2>1, <2>3, <2>4 DEF MonitorInv, RowsExact
    <2>6. QED
      BY <1>0, <2>2, <2>5 DEF RowsExact, ReceivedBy, GridTime
  <1>4. HistoryKept' /\ TailExact' /\ ScoresFollow'
    BY <1>0 DEF MonitorInv, HistoryKept, TailExact, ScoresFollow, GridTime
  <1>5. AlarmsFollow' /\ RequestsFollow' /\ EventsFollow' /\ SidecarFollows'
    BY <1>0 DEF MonitorInv, AlarmsFollow, RequestsFollow, Warned, EventsFollow, SidecarFollows,
                Sidecar, Held, NoFile
  <1>6. QED
    BY <1>1, <1>2, <1>3, <1>4, <1>5 DEF MonitorInv

LEMMA MissionKeeps ==
  ASSUME MonitorInv, MissionStarted
  PROVE  MonitorInv'
  <1>0. /\ UNCHANGED <<now, arrivals, samples, scan, phase, pending, events, requests, partial,
                       final>>
        /\ UNCHANGED <<next, rows, base, lastFix, tail, scores, alarms>>
        /\ start = -1 /\ start' = now /\ phase = "idle"
    BY DEF MissionStarted, clock, window, decided, published, files
  <1>t. now \in Nat /\ now >= 1 /\ next = 1 /\ rows \in Seq(Nat) /\ scores \in Seq(Score)
    BY <1>0 DEF MonitorInv, MonitorTypes, Times, Anchored, Score
  <1>n. Len(rows) = 0 /\ Len(scores) = 0
    BY <1>t, Parameters DEF MonitorInv, RowsExact, ScoresFollow
  <1>e. DOMAIN rows = {} /\ DOMAIN scores = {}
    BY <1>t, <1>n
  <1>1. MonitorTypes' /\ Anchored'
    BY <1>0, <1>t DEF MonitorInv, MonitorTypes, Anchored
  <1>2. BufferSuffices'
    BY <1>0 DEF MonitorInv, BufferSuffices
  <1>3. RowsExact'
    BY <1>0, <1>t, <1>n, <1>e DEF RowsExact
  <1>4. HistoryKept' /\ TailExact'
    BY <1>0 DEF MonitorInv, HistoryKept, TailExact
  <1>5. ScoresFollow'
    BY <1>0, <1>t, <1>e DEF MonitorInv, ScoresFollow
  <1>6. AlarmsFollow' /\ RequestsFollow' /\ EventsFollow' /\ SidecarFollows'
    BY <1>0 DEF MonitorInv, AlarmsFollow, RequestsFollow, Warned, EventsFollow, SidecarFollows,
                Sidecar, Held, NoFile
  <1>7. QED
    BY <1>1, <1>2, <1>3, <1>4, <1>5, <1>6 DEF MonitorInv

-----------------------------------------------------------------------------
(* Publication.                                                            *)

LEMMA PublishKeeps ==
  ASSUME MonitorInv, PublishEvent \/ PublishRequest
  PROVE  MonitorInv'
  <1>0. /\ UNCHANGED <<arrivals, samples, start, window, decided>>
        /\ UNCHANGED <<now, scan, partial, final>>
        /\ UNCHANGED <<next, rows, base, lastFix, tail, scores, alarms>>
    BY DEF PublishEvent, PublishRequest, clock, telemetry, window, decided, files
  <1>t. MonitorTypes /\ now \in Nat
    BY DEF MonitorInv, MonitorTypes, Times
  <1>f. /\ Len(alarms) = Len(requests) + Len(pending)
        /\ \A i \in DOMAIN requests : Warned(requests[i], i)
        /\ \A i \in DOMAIN pending : Warned(pending[i], Len(requests) + i)
    BY DEF MonitorInv, RequestsFollow
  <1>q. /\ requests \in Seq(Request) /\ pending \in Seq(Request) /\ events \in Seq(Nat)
        /\ DOMAIN requests = 1..Len(requests) /\ Len(requests) \in Nat
        /\ DOMAIN pending = 1..Len(pending) /\ Len(pending) \in Nat
        /\ DOMAIN events = 1..Len(events) /\ Len(events) \in Nat /\ Len(alarms) \in Nat
    BY <1>t DEF MonitorTypes
  <1>p. pending # <<>> /\ Len(pending) >= 1 /\ Head(pending) = pending[1]
    <2>1. Len(pending) >= 1
      <3>1. CASE PublishEvent
        BY <1>q, <3>1, EmptySeq DEF PublishEvent
      <3>2. CASE PublishRequest
        BY <1>f, <1>q, <3>2 DEF PublishRequest, MonitorInv, EventsFollow
      <3>3. QED
        BY <3>1, <3>2
    <2>2. QED
      BY <1>q, <2>1, EmptySeq
  <1>h. pending[1] \in Request /\ Warned(pending[1], Len(requests) + 1)
    BY <1>f, <1>p, <1>q
  <1>2. BufferSuffices' /\ RowsExact' /\ HistoryKept' /\ TailExact' /\ ScoresFollow'
          /\ AlarmsFollow'
    BY <1>0, CoreKept
  <1>3. CASE PublishEvent
    <2>0. /\ phase = "publish" /\ phase' = "request" /\ UNCHANGED <<pending, requests>>
          /\ events' = Append(events, pending[1].decision)
      BY <1>3, <1>p DEF PublishEvent
    <2>d. pending[1].decision \in Nat /\ pending[1].decision = alarms[Len(requests) + 1]
      BY <1>h DEF Request, Warned
    <2>e. /\ events' \in Seq(Nat) /\ DOMAIN events' = 1..(Len(events) + 1)
          /\ Len(events') = Len(events) + 1
          /\ \A i \in DOMAIN events : events'[i] = events[i]
          /\ events'[Len(events) + 1] = pending[1].decision
      BY <1>q, <2>0, <2>d
    <2>1. MonitorTypes' /\ Anchored'
      BY <1>0, <2>0, <2>e DEF MonitorInv, MonitorTypes, Anchored
    <2>2. RequestsFollow'
      BY <1>0, <2>0 DEF MonitorInv, RequestsFollow, Warned
    <2>3. EventsFollow'
      <3>1. Len(events) = Len(requests) /\ \A i \in DOMAIN events : events[i] = alarms[i]
        BY <2>0 DEF MonitorInv, EventsFollow
      <3>2. \A i \in DOMAIN events' : i \in DOMAIN events \/ i = Len(events) + 1
        BY <1>q, <2>e
      <3>3. \A i \in DOMAIN events' : events'[i] = alarms[i]
        BY <2>d, <2>e, <3>1, <3>2
      <3>4. Len(events') <= Len(alarms) /\ Len(events') = Len(requests) + 1
        BY <1>f, <1>p, <1>q, <2>e, <3>1
      <3>5. QED
        BY <1>0, <1>q, <2>0, <2>e, <3>3, <3>4 DEF EventsFollow
    <2>4. SidecarFollows'
      BY <1>0, <2>0 DEF MonitorInv, SidecarFollows, Held, NoFile
    <2>5. QED
      BY <1>2, <2>1, <2>2, <2>3, <2>4 DEF MonitorInv
  <1>4. CASE PublishRequest
    <2> DEFINE sent == [pending[1] EXCEPT !.sent = now]
    <2>0. /\ phase = "request" /\ phase' = "publish" /\ UNCHANGED events
          /\ requests' = Append(requests, sent) /\ pending' = Tail(pending)
      BY <1>4, <1>p DEF PublishRequest
    <2>s. sent \in Request /\ Warned(sent, Len(requests) + 1)
      BY <1>h, <1>t DEF Request, Warned
    <2> HIDE DEF sent
    <2>r. /\ requests' \in Seq(Request) /\ DOMAIN requests' = 1..(Len(requests) + 1)
          /\ Len(requests') = Len(requests) + 1
          /\ \A i \in DOMAIN requests : requests'[i] = requests[i]
          /\ requests'[Len(requests) + 1] = sent
      BY <1>q, <2>0, <2>s
    <2>p. /\ pending' \in Seq(Request) /\ Len(pending') = Len(pending) - 1
          /\ DOMAIN pending' = 1..(Len(pending) - 1)
          /\ \A i \in 1..(Len(pending) - 1) : pending'[i] = pending[i + 1]
      BY <1>p, <1>q, <2>0, HeadTailProperties
    <2>1. MonitorTypes' /\ Anchored'
      BY <1>0, <2>0, <2>r, <2>p DEF MonitorInv, MonitorTypes, Anchored
    <2>2. RequestsFollow'
      <3>1. ASSUME NEW i \in DOMAIN requests'
            PROVE  Warned(requests'[i], i)
        <4>1. i \in DOMAIN requests \/ i = Len(requests) + 1
          BY <1>q, <2>r
        <4>2. QED
          BY <1>f, <2>r, <2>s, <4>1
      <3>2. ASSUME NEW i \in DOMAIN pending'
            PROVE  Warned(pending'[i], Len(requests') + i)
        <4>1. i + 1 \in DOMAIN pending /\ i \in Nat /\ pending'[i] = pending[i + 1]
          BY <1>q, <2>p
        <4>2. Warned(pending[i + 1], Len(requests) + (i + 1))
          BY <1>f, <4>1
        <4>3. Len(requests') + i = Len(requests) + (i + 1)
          BY <1>q, <2>r, <4>1
        <4>4. QED
          BY <4>1, <4>2, <4>3
      <3>3. Len(alarms) = Len(requests') + Len(pending')
        BY <1>f, <1>q, <2>r, <2>p
      <3>4. QED
        BY <1>0, <3>1, <3>2, <3>3 DEF RequestsFollow, Warned
    <2>3. EventsFollow'
      <3>1. Len(events) = Len(requests) + 1
        BY <2>0 DEF MonitorInv, EventsFollow
      <3>2. QED
        BY <1>0, <1>q, <2>0, <2>r, <3>1 DEF MonitorInv, EventsFollow
    <2>4. SidecarFollows'
      BY <1>0, <2>0 DEF MonitorInv, SidecarFollows, Held, NoFile
    <2>5. QED
      BY <1>2, <2>1, <2>2, <2>3, <2>4 DEF MonitorInv
  <1>5. QED
    BY <1>3, <1>4

-----------------------------------------------------------------------------
(* One round of step(): a row, the window, a decision.                     *)

\* The row that is computed is the one computed from all samples received.
LEMMA NewRowExact ==
  ASSUME MonitorInv, start # -1
  PROVE  /\ Select(Range(samples), GridTime(next)) = Select(ReceivedBy(next), GridTime(next))
         /\ Select(Range(samples), GridTime(next)) \in Nat
  <1>t. MonitorTypes /\ start \in Int /\ next \in Nat /\ next - 1 \in Nat /\ next - 1 <= next
    BY DEF MonitorInv, MonitorTypes, Times
  <1>1. /\ GridTime(next) \in Int /\ GridTime(next - 1) \in Int
        /\ GridTime(next - 1) <= GridTime(next)
    BY <1>t, GridOrder
  <1> DEFINE G == GridTime(next)
             B == GridTime(next - 1)
  <1>2. Range(samples) \subseteq Times /\ ReceivedBy(next) \subseteq Times
    BY <1>t, ReceivedTimes
  <1>3. ASSUME NEW t \in Range(samples)
        PROVE  t \in ReceivedBy(next)
    <2>1. PICK i \in DOMAIN samples : t = samples[i]
      BY DEF Range
    <2>2. PICK j \in DOMAIN arrivals : arrivals[j].time = t
      BY <2>1 DEF MonitorInv, BufferSuffices
    <2>3. arrivals[j] \in Range(arrivals) /\ arrivals[j].next <= next
      BY <2>2 DEF MonitorInv, BufferSuffices, Range
    <2>4. QED
      BY <2>2, <2>3 DEF ReceivedBy
  <1>4. ASSUME NEW t \in ReceivedBy(next), G - t <= MaxAge
        PROVE  t \in Range(samples)
    <2>1. PICK a \in Range(arrivals) : t = a.time
      BY DEF ReceivedBy
    <2>2. PICK j \in DOMAIN arrivals : a = arrivals[j]
      BY DEF Range
    <2>3. t \in Range(samples) \/ t < B - MaxAge
      BY <2>1, <2>2 DEF MonitorInv, BufferSuffices
    <2>4. t \in Int /\ MaxAge \in Int /\ B \in Int /\ G \in Int /\ B <= G
      BY <1>1, <1>2, Parameters DEF Times
    <2> HIDE DEF B, G
    <2>5. ~(t < B - MaxAge)
      BY <1>4, <2>4 DEF G
    <2>6. QED
      BY <2>3, <2>5
  <1> HIDE DEF B
  <1>5. Fresh(Range(samples), G) = Fresh(ReceivedBy(next), G)
    <2>1. \A t : t \in Fresh(Range(samples), G) <=> t \in Fresh(ReceivedBy(next), G)
      BY <1>3, <1>4 DEF Fresh
    <2>2. /\ \A t \in Fresh(Range(samples), G) : t \in Range(samples)
          /\ \A t \in Fresh(ReceivedBy(next), G) : t \in ReceivedBy(next)
      BY DEF Fresh
    <2>3. Fresh(Range(samples), G) \subseteq Fresh(ReceivedBy(next), G)
      BY <2>1
    <2>4. Fresh(ReceivedBy(next), G) \subseteq Fresh(Range(samples), G)
      BY <2>1
    <2>5. QED
      BY <2>3, <2>4
  <1>6. QED
    BY <1>1, <1>2, <1>5, SelectSame, SelectType

\* What a round does to the rows.
LEMMA NewRow ==
  ASSUME MonitorInv, Advance
  PROVE  /\ start \in Int /\ start # -1 /\ next \in Nat /\ next >= 1 /\ next' = next + 1
         /\ rows' \in Seq(Nat) /\ Len(rows') = next /\ DOMAIN rows' = 1..next
         /\ rows' = Append(rows, rows'[next])
         /\ rows'[next] = Select(ReceivedBy(next), GridTime(next))
         /\ rows \in Seq(Nat) /\ DOMAIN rows = 1..(next - 1)
         /\ \A k \in DOMAIN rows : rows'[k] = rows[k]
  <1>1. MonitorTypes /\ start # -1 /\ Len(rows) = next - 1
    BY DEF MonitorInv, Anchored, RowsExact, Advance
  <1>2. start \in Int /\ next \in Nat /\ next >= 1 /\ rows \in Seq(Nat)
    BY <1>1 DEF MonitorTypes, Times
  <1> DEFINE row == Select(Range(samples), GridTime(next))
  <1>3. rows' = Append(rows, row) /\ next' = next + 1
    BY DEF Advance
  <1>4. row \in Nat /\ row = Select(ReceivedBy(next), GridTime(next))
    BY <1>1, NewRowExact
  <1> HIDE DEF row
  <1>5. /\ rows' \in Seq(Nat) /\ Len(rows') = next /\ DOMAIN rows' = 1..next
        /\ rows'[next] = row /\ DOMAIN rows = 1..(next - 1)
        /\ \A k \in DOMAIN rows : rows'[k] = rows[k]
    BY <1>1, <1>2, <1>3, <1>4
  <1>6. QED
    BY <1>1, <1>2, <1>3, <1>4, <1>5

LEMMA AdvanceBuffer ==
  ASSUME MonitorInv, Advance
  PROVE  BufferSuffices' /\ samples' \in Seq(Times) /\ RowsExact'
  <1>0. /\ samples' = Prune(samples, GridTime(next)) /\ UNCHANGED <<arrivals, start>>
    BY DEF Advance
  <1>n. /\ start \in Int /\ start # -1 /\ next \in Nat /\ next >= 1 /\ next' = next + 1
        /\ next' - 1 = next /\ next - 1 \in Nat
    BY NewRow
  <1>g. /\ GridTime(next) \in Int /\ GridTime(next - 1) \in Int
        /\ GridTime(next - 1) <= GridTime(next)
    BY <1>n, GridOrder
  <1>s. samples \in Seq(Times) /\ \A i, j \in DOMAIN samples : i < j => samples[i] < samples[j]
    BY DEF MonitorInv, MonitorTypes, BufferSuffices
  <1>1. /\ samples' \in Seq(Times)
        /\ \A i, j \in DOMAIN samples' : i < j => samples'[i] < samples'[j]
        /\ Range(samples') \subseteq Range(samples)
        /\ \A i \in DOMAIN samples : samples[i] \in Range(samples')
                                       \/ samples[i] < GridTime(next) - MaxAge
    BY <1>0, <1>g, <1>s, PruneKeeps
  <1>2. ASSUME NEW i \in DOMAIN samples'
        PROVE  \E j \in DOMAIN arrivals : arrivals[j].time = samples'[i]
    <2>1. samples'[i] \in Range(samples)
      BY <1>1 DEF Range
    <2>2. PICK k \in DOMAIN samples : samples'[i] = samples[k]
      BY <2>1 DEF Range
    <2>3. QED
      BY <2>2 DEF MonitorInv, BufferSuffices
  <1>3. ASSUME NEW j \in DOMAIN arrivals
        PROVE  /\ arrivals[j].next <= next + 1
               /\ \/ arrivals[j].time \in Range(samples')
                  \/ arrivals[j].time < GridTime(next) - MaxAge
    <2>t. arrivals[j].time \in Int /\ arrivals[j].next \in Int
      <3> DEFINE Arrival == [time : Times, next : Times]
      <3>1. arrivals \in Seq(Arrival)
        BY DEF MonitorInv, MonitorTypes
      <3> HIDE DEF Arrival
      <3>2. arrivals[j] \in Arrival
        BY <3>1
      <3>3. QED
        BY <3>2 DEF Arrival, Times
    <2>1. arrivals[j].next <= next + 1
      <3>1. arrivals[j].next <= next
        BY DEF MonitorInv, BufferSuffices
      <3>2. QED
        BY <3>1, <2>t, <1>n
    <2>2. CASE arrivals[j].time \in Range(samples)
      <3>1. PICK i \in DOMAIN samples : samples[i] = arrivals[j].time
        BY <2>2 DEF Range
      <3>2. QED
        BY <1>1, <2>1, <3>1
    <2>3. CASE arrivals[j].time < GridTime(next - 1) - MaxAge
      BY <1>g, <2>1, <2>3, <2>t, Parameters
    <2>4. QED
      BY <2>2, <2>3 DEF MonitorInv, BufferSuffices
  <1>4. BufferSuffices'
    <2>1. (GridTime(next - 1))' = GridTime(next)
      BY <1>0, <1>n DEF GridTime
    <2>2. QED
      BY <1>0, <1>n, <1>1, <1>2, <1>3, <2>1 DEF BufferSuffices, GridTime
  <1>5. RowsExact'
    <2>1. \A k : ReceivedBy(k)' = ReceivedBy(k) /\ GridTime(k)' = GridTime(k)
      BY <1>0 DEF ReceivedBy, GridTime
    <2>2. \A k \in DOMAIN rows' : k \in DOMAIN rows \/ k = next
      BY NewRow
    <2>3. \A k \in DOMAIN rows : rows[k] = Select(ReceivedBy(k), GridTime(k))
      BY DEF MonitorInv, RowsExact
    <2>4. \A k \in DOMAIN rows' : rows'[k] = Select(ReceivedBy(k), GridTime(k))
      BY <2>2, <2>3, NewRow
    <2>5. Len(rows') = next' - 1
      BY <1>n, NewRow
    <2>6. QED
      BY <1>0, <2>4, <2>5 DEF RowsExact, ReceivedBy, GridTime
  <1>6. QED
    BY <1>1, <1>4, <1>5

LEMMA MaxOfTwo ==
  ASSUME NEW a \in Int, NEW b \in Int
  PROVE  Max({a, b}) = IF a >= b THEN a ELSE b
  <1>1. CASE a >= b
    <2>1. \A y \in {a, b} : a >= y
      BY <1>1
    <2>2. QED
      BY <1>1, <2>1, GreatestUnique
  <1>2. CASE ~(a >= b)
    <2>1. \A y \in {a, b} : b >= y
      BY <1>2
    <2>2. QED
      BY <1>2, <2>1, GreatestUnique
  <1>3. QED
    BY <1>1, <1>2

LEMMA MinOfTwo ==
  ASSUME NEW a \in Int, NEW b \in Int
  PROVE  Min({a, b}) = IF a <= b THEN a ELSE b
  <1>1. \A x \in {a, b} : (\A y \in {a, b} : x <= y) => x = IF a <= b THEN a ELSE b
    OBVIOUS
  <1>2. \E x \in {a, b} : \A y \in {a, b} : x <= y
    OBVIOUS
  <1>3. QED
    BY <1>1, <1>2 DEF Min

\* The suffix that a row is enriched from reaches back far enough.
LEMMA SuffixReaches ==
  ASSUME MonitorInv, start # -1
  PROVE  LET from == SuffixStart(next)
         IN /\ from \in Nat /\ 1 <= from /\ from <= next
            /\ from = 1 \/ from <= next - Steps
            /\ lastFix # None => from <= lastFix
  <1>1. base \in Nat /\ base >= 1 /\ next \in Nat /\ next >= 1 /\ lastFix \in Nat
    BY DEF MonitorInv, MonitorTypes, Times
  <1>2. base = 1 \/ base <= next - 1 - Steps
    BY DEF MonitorInv, HistoryKept
  <1>3. lastFix # None => base <= lastFix
    BY DEF MonitorInv, HistoryKept
  <1>4. Steps \in Nat /\ Steps >= 1 /\ next - Steps \in Int
    BY <1>1, Parameters
  <1> DEFINE reach == IF lastFix = None THEN next - Steps ELSE Min({next - Steps, lastFix})
  <1>5. SuffixStart(next) = Max({base, reach})
    BY DEF SuffixStart
  <1>6. /\ reach \in Int /\ reach <= next - Steps
        /\ lastFix # None => reach <= lastFix
    BY <1>1, <1>4, MinOfTwo
  <1> HIDE DEF reach
  <1>7. SuffixStart(next) = IF base >= reach THEN base ELSE reach
    BY <1>1, <1>5, <1>6, MaxOfTwo
  <1> DEFINE from == SuffixStart(next)
  <1>8. from = base \/ (from = reach /\ base <= reach)
    BY <1>1, <1>6, <1>7
  <1> HIDE DEF from
  <1>9. from \in Nat /\ 1 <= from /\ from <= next /\ (from = 1 \/ from <= next - Steps)
    BY <1>1, <1>2, <1>4, <1>6, <1>8
  <1>10. lastFix # None => from <= lastFix
    BY <1>1, <1>3, <1>6, <1>8
  <1>11. QED
    BY <1>9, <1>10 DEF from

LEMMA AdvanceHistory ==
  ASSUME MonitorInv, Advance
  PROVE  HistoryKept' /\ base' \in Times /\ lastFix' \in Nat
  <1>n. /\ start # -1 /\ next \in Nat /\ next >= 1 /\ next' = next + 1
        /\ DOMAIN rows' = 1..next /\ DOMAIN rows = 1..(next - 1)
        /\ \A k \in DOMAIN rows : rows'[k] = rows[k]
    BY NewRow
  <1>0. /\ base' = SuffixStart(next)
        /\ lastFix' = IF rows'[next] # None THEN next ELSE lastFix
    BY DEF Advance
  <1>1. /\ base' \in Nat /\ 1 <= base' /\ base' <= next
        /\ base' = 1 \/ base' <= next - Steps
        /\ lastFix # None => base' <= lastFix
    BY <1>0, <1>n, SuffixReaches
  <1>2. lastFix \in Nat
    BY DEF MonitorInv, MonitorTypes
  <1>3. /\ lastFix = None => \A k \in DOMAIN rows : rows[k] = None
        /\ lastFix # None => /\ lastFix \in DOMAIN rows /\ rows[lastFix] # None
                             /\ \A k \in DOMAIN rows : rows[k] # None => k <= lastFix
    BY DEF MonitorInv, HistoryKept
  <1>4. \A k \in DOMAIN rows' : k \in DOMAIN rows \/ k = next
    BY <1>n
  <1>5. base' = 1 \/ base' <= next' - 1 - Steps
    BY <1>n, <1>1, Parameters
  <1>6. CASE rows'[next] # None
    <2>1. lastFix' = next /\ next \in DOMAIN rows' /\ next # None
      BY <1>0, <1>6, <1>n DEF None
    <2>2. \A k \in DOMAIN rows' : k <= next
      BY <1>n
    <2>3. QED
      BY <1>1, <1>5, <1>6, <1>n, <2>1, <2>2 DEF HistoryKept, Times
  <1>7. CASE rows'[next] = None
    <2>1. lastFix' = lastFix
      BY <1>0, <1>7
    <2>2. lastFix' = None => \A k \in DOMAIN rows' : rows'[k] = None
      BY <1>3, <1>4, <1>7, <1>n, <2>1
    <2>3. lastFix' # None =>
             /\ lastFix' \in DOMAIN rows' /\ rows'[lastFix'] # None /\ base' <= lastFix'
             /\ \A k \in DOMAIN rows' : rows'[k] # None => k <= lastFix'
      <3> SUFFICES ASSUME lastFix # None
                   PROVE  /\ lastFix \in DOMAIN rows' /\ rows'[lastFix] # None
                          /\ base' <= lastFix
                          /\ \A k \in DOMAIN rows' : rows'[k] # None => k <= lastFix
        BY <2>1
      <3>1. lastFix \in DOMAIN rows' /\ rows'[lastFix] # None
        BY <1>3, <1>n
      <3>2. \A k \in DOMAIN rows' : rows'[k] # None => k <= lastFix
        BY <1>3, <1>4, <1>7, <1>n
      <3>3. QED
        BY <1>1, <3>1, <3>2
    <2>4. QED
      BY <1>1, <1>2, <1>5, <2>1, <2>2, <2>3 DEF HistoryKept, Times
  <1>8. QED
    BY <1>6, <1>7

\* The new row of the window is the one enriched from the whole mission.
LEMMA NewTailRow ==
  ASSUME MonitorInv, Advance
  PROVE  /\ Enrich(rows', SuffixStart(next), next) = Enrich(rows', 1, next)
         /\ Enrich(rows', 1, next) \in Enriched
         /\ \A k \in 1..(next - 1) : Enrich(rows', 1, k) = Enrich(rows, 1, k)
  <1>n. /\ start # -1 /\ next \in Nat /\ next >= 1 /\ rows' \in Seq(Nat) /\ Len(rows') = next
        /\ DOMAIN rows' = 1..next /\ DOMAIN rows = 1..(next - 1)
        /\ \A k \in DOMAIN rows : rows'[k] = rows[k]
    BY NewRow
  <1> DEFINE from == SuffixStart(next)
  <1>1. /\ from \in Nat /\ 1 <= from /\ from <= next
        /\ from = 1 \/ from <= next - Steps
        /\ lastFix # None => from <= lastFix
    BY <1>n, SuffixReaches
  <1> HIDE DEF from
  <1>2. /\ lastFix = None => \A k \in DOMAIN rows : rows[k] = None
        /\ lastFix # None => /\ lastFix \in DOMAIN rows /\ rows[lastFix] # None
                             /\ \A k \in DOMAIN rows : rows[k] # None => k <= lastFix
    BY DEF MonitorInv, HistoryKept
  <1>3. \A j \in 1..(next - 1) : rows'[j] # None =>
           \E m \in from..(next - 1) : j <= m /\ rows'[m] # None
    <2> SUFFICES ASSUME NEW j \in 1..(next - 1), rows'[j] # None
                 PROVE  \E m \in from..(next - 1) : j <= m /\ rows'[m] # None
      OBVIOUS
    <2>1. j \in DOMAIN rows /\ rows[j] # None
      BY <1>n
    <2>2. /\ lastFix # None /\ lastFix \in DOMAIN rows /\ rows[lastFix] # None /\ j <= lastFix
          /\ from <= lastFix
      BY <1>1, <1>2, <2>1
    <2>3. lastFix \in from..(next - 1) /\ rows'[lastFix] # None
      BY <1>1, <1>n, <2>2
    <2>4. QED
      BY <2>2, <2>3
  <1>4. Enrich(rows', from, next) = Enrich(rows', 1, next)
    <2> DEFINE r == rows'
    <2>1. \A j \in 1..(next - 1) : r[j] # None =>
             \E m \in from..(next - 1) : j <= m /\ r[m] # None
      BY <1>3
    <2> HIDE DEF r
    <2>2. Enrich(r, from, next) = Enrich(r, 1, next)
      BY <1>1, <1>n, <2>1, EnrichSuffix
    <2>3. QED
      BY <2>2 DEF r
  <1>5. Enrich(rows', 1, next) \in Enriched
    BY <1>n, EnrichType
  <1>6. ASSUME NEW k \in 1..(next - 1)
        PROVE  Enrich(rows', 1, k) = Enrich(rows, 1, k)
    <2>1. k \in Int /\ 1 <= k /\ \A j \in 1..k : rows'[j] = rows[j]
      BY <1>n
    <2>2. QED
      BY <2>1, EnrichFrame
  <1>7. QED
    BY <1>4, <1>5, <1>6 DEF from

LEMMA AdvanceTail ==
  ASSUME MonitorInv, Advance
  PROVE  TailExact' /\ tail' \in Seq(Enriched)
  <1>n. /\ next \in Nat /\ next >= 1 /\ next' = next + 1
    BY NewRow
  <1> DEFINE W == Len(tail)
             new == Enrich(rows', 1, next)
             all == Append(tail, new)
             row(k) == Enrich(rows', 1, k)
  <1>1. tail' = IF Len(all) > Steps THEN Tail(all) ELSE all
    BY NewTailRow DEF Advance
  <1>2. tail \in Seq(Enriched) /\ new \in Enriched
    BY NewTailRow DEF MonitorInv, MonitorTypes
  <1>3. W = (IF next - 1 < Steps THEN next - 1 ELSE Steps) /\ Steps \in Nat /\ Steps >= 1
    BY Parameters DEF MonitorInv, TailExact
  <1>4. W \in Nat /\ W <= next - 1 /\ W <= Steps
    BY <1>n, <1>3
  <1>5. \A i \in 1..W : tail[i] = row(next - 1 - W + i)
    <2> SUFFICES ASSUME NEW i \in 1..W PROVE tail[i] = row(next - 1 - W + i)
      OBVIOUS
    <2>1. i \in DOMAIN tail
      BY <1>2
    <2>2. tail[i] = Enrich(rows, 1, next - 1 - W + i)
      BY <2>1 DEF MonitorInv, TailExact
    <2>3. next - 1 - W + i \in 1..(next - 1)
      BY <1>n, <1>4
    <2> HIDE DEF W
    <2>4. QED
      BY <2>2, <2>3, NewTailRow
  <1>6. row(next) = new
    OBVIOUS
  <1> HIDE DEF new, row
  <1>7. /\ all \in Seq(Enriched) /\ Len(all) = W + 1
        /\ \A i \in 1..W : all[i] = tail[i]
        /\ all[W + 1] = new
    BY <1>2
  <1> HIDE DEF W, all
  <1>8. \A i \in 1..(W + 1) : all[i] = row(next - 1 - W + i)
    <2> SUFFICES ASSUME NEW i \in 1..(W + 1) PROVE all[i] = row(next - 1 - W + i)
      OBVIOUS
    <2>1. CASE i \in 1..W
      BY <1>5, <1>7, <2>1
    <2>2. CASE i = W + 1
      <3>1. next - 1 - W + i = next
        BY <1>n, <1>4, <2>2
      <3>2. QED
        BY <1>6, <1>7, <2>2, <3>1
    <2>3. QED
      BY <1>4, <2>1, <2>2
  <1>9. CASE Len(all) > Steps
    <2>1. W = Steps /\ next - 1 >= Steps
      BY <1>n, <1>3, <1>4, <1>7, <1>9
    <2>2. /\ tail' = Tail(all) /\ all # <<>>
      BY <1>1, <1>4, <1>7, <1>9
    <2>3. /\ tail' \in Seq(Enriched) /\ Len(tail') = W /\ DOMAIN tail' = 1..W
          /\ \A i \in 1..W : tail'[i] = all[i + 1]
      BY <1>4, <1>7, <2>2, HeadTailProperties
    <2>4. ASSUME NEW i \in DOMAIN tail'
          PROVE  tail'[i] = row(next' - 1 - Len(tail') + i)
      <3>1. i + 1 \in 1..(W + 1) /\ i \in 1..W
        BY <1>4, <2>3
      <3>2. next - 1 - W + (i + 1) = next' - 1 - Len(tail') + i
        BY <1>n, <1>4, <2>3, <3>1
      <3>3. QED
        BY <1>8, <2>3, <3>1, <3>2
    <2>5. Len(tail') = IF next' - 1 < Steps THEN next' - 1 ELSE Steps
      BY <1>n, <1>3, <2>1, <2>3
    <2>6. QED
      BY <2>3, <2>4, <2>5 DEF TailExact, row
  <1>10. CASE ~(Len(all) > Steps)
    <2>1. W = next - 1 /\ next <= Steps
      BY <1>n, <1>3, <1>4, <1>7, <1>10
    <2>2. tail' = all
      BY <1>1, <1>10
    <2>3. tail' \in Seq(Enriched) /\ Len(tail') = W + 1 /\ DOMAIN tail' = 1..(W + 1)
      BY <1>4, <1>7, <2>2
    <2>4. ASSUME NEW i \in DOMAIN tail'
          PROVE  tail'[i] = row(next' - 1 - Len(tail') + i)
      <3>1. next - 1 - W + i = next' - 1 - Len(tail') + i
        BY <1>n, <1>4, <2>3
      <3>2. QED
        BY <1>8, <2>2, <2>3, <3>1
    <2>5. Len(tail') = IF next' - 1 < Steps THEN next' - 1 ELSE Steps
      BY <1>n, <1>3, <2>1, <2>3
    <2>6. QED
      BY <2>3, <2>4, <2>5 DEF TailExact, row
  <1>11. QED
    BY <1>9, <1>10

\* What a round does to the scores: nothing, or one more.
Scored(above) ==
    /\ scores' = Append(scores, [time |-> GridTime(next), above |-> above])
    /\ LET alarm == Replay(scores') # <<>> /\ Last(Replay(scores')) = Len(scores')
       IN /\ alarms' = IF alarm THEN Append(alarms, Len(scores')) ELSE alarms
          /\ pending' = IF alarm
                        THEN Append(pending, RobotState(next, rows'[next]))
                        ELSE pending

LEMMA NewScore ==
  ASSUME MonitorInv, Advance
  PROVE  \/ next < Steps /\ UNCHANGED <<scores, alarms, pending>>
         \/ /\ next >= Steps /\ Len(scores) = next - Steps
            /\ \E above \in BOOLEAN : Scored(above)
  <1>n. next \in Nat /\ next >= 1 /\ next' = next + 1
    BY NewRow
  <1>1. Len(tail') = IF next < Steps THEN next ELSE Steps
    BY <1>n, AdvanceTail DEF TailExact
  <1>2. Len(tail') < Steps <=> next < Steps
    BY <1>n, <1>1, Parameters
  <1>3. Len(scores) = IF next <= Steps THEN 0 ELSE next - Steps
    BY DEF MonitorInv, ScoresFollow
  <1>4. Decide(tail')
    BY DEF Advance
  <1>5. CASE next < Steps
    BY <1>2, <1>4, <1>5 DEF Decide, decided
  <1>6. CASE ~(next < Steps)
    <2>1. next >= Steps /\ Len(scores) = next - Steps
      BY <1>n, <1>3, <1>6, Parameters
    <2>2. QED
      BY <1>2, <1>4, <1>6, <2>1 DEF Decide, Scored
  <1>7. QED
    BY <1>5, <1>6

\* The new decision raises an alarm when the policy says so.
LEMMA NewAlarm ==
  ASSUME MonitorInv, Advance, next >= Steps
  PROVE  LET n == Len(scores) + 1
         IN /\ n \in Nat /\ n + Steps - 1 = next /\ Len(scores') = n /\ scores' \in Seq(Score)
            /\ DOMAIN scores = 1..(n - 1) /\ DOMAIN scores' = 1..n
            /\ \A j \in DOMAIN scores : scores'[j] = scores[j]
            /\ scores'[n].time = GridTime(next)
            /\ alarms' = Replay(scores')
            /\ \/ /\ Raises(scores', n, alarms)
                  /\ alarms' = Append(alarms, n)
                  /\ pending' = Append(pending, RobotState(next, rows'[next]))
               \/ /\ ~Raises(scores', n, alarms)
                  /\ UNCHANGED <<alarms, pending>>
  <1> DEFINE n == Len(scores) + 1
  <1>n. /\ next \in Nat /\ next >= 1 /\ Steps \in Nat /\ start \in Int
    BY NewRow, Parameters
  <1>1. Len(scores) = next - Steps /\ \E above \in BOOLEAN : Scored(above)
    BY <1>n, NewScore
  <1>2. PICK above \in BOOLEAN : Scored(above)
    BY <1>1
  <1> DEFINE x == [time |-> GridTime(next), above |-> above]
             alarm == Replay(scores') # <<>> /\ Last(Replay(scores')) = Len(scores')
  <1>3. x \in Score /\ x.time = GridTime(next)
    BY <1>n, GridOrder DEF Score
  <1>4. scores \in Seq(Score) /\ scores' = Append(scores, x)
    BY <1>2 DEF MonitorInv, MonitorTypes, Score, Scored
  <1>5. alarms = Replay(scores) /\ \A i \in DOMAIN alarms : alarms[i] \in 1..Len(scores)
    BY DEF MonitorInv, AlarmsFollow
  <1>6. alarms \in Seq(Nat)
    BY DEF MonitorInv, MonitorTypes
  <1>a. /\ alarms' = IF alarm THEN Append(alarms, Len(scores')) ELSE alarms
        /\ pending' = IF alarm THEN Append(pending, RobotState(next, rows'[next])) ELSE pending
    BY <1>2 DEF Scored
  <1> HIDE DEF x
  <1>7. /\ n \in Nat /\ n + Steps - 1 = next /\ Len(scores') = n /\ scores' \in Seq(Score)
        /\ DOMAIN scores = 1..(n - 1) /\ DOMAIN scores' = 1..n
        /\ \A j \in DOMAIN scores : scores'[j] = scores[j]
        /\ scores'[n] = x
    BY <1>n, <1>1, <1>3, <1>4
  <1> HIDE DEF n, alarm
  <1>8. Replay(scores') = IF Raises(scores', n, alarms) THEN Append(alarms, n) ELSE alarms
    BY <1>3, <1>4, <1>5, ReplayAppend DEF n
  <1>9. CASE Raises(scores', n, alarms)
    <2>1. Replay(scores') = Append(alarms, n)
      BY <1>8, <1>9
    <2>2. Append(alarms, n) # <<>> /\ Last(Append(alarms, n)) = n
      BY <1>6, <1>7 DEF Last
    <2>3. alarm
      BY <1>7, <2>1, <2>2 DEF alarm
    <2>4. QED
      BY <1>3, <1>7, <1>9, <1>a, <2>1, <2>3 DEF n
  <1>10. CASE ~Raises(scores', n, alarms)
    <2>1. Replay(scores') = alarms
      BY <1>8, <1>10
    <2>2. ASSUME alarms # <<>>
          PROVE  Last(alarms) # n
      <3>1. Len(alarms) \in DOMAIN alarms
        BY <1>6, <2>2, EmptySeq
      <3>2. alarms[Len(alarms)] \in 1..(n - 1)
        BY <1>5, <1>7, <3>1 DEF n
      <3>3. QED
        BY <1>7, <3>2 DEF Last
    <2>3. ~alarm
      BY <1>7, <2>1, <2>2 DEF alarm
    <2>4. QED
      BY <1>3, <1>7, <1>10, <1>a, <2>1, <2>3 DEF n
  <1>11. QED
    BY <1>9, <1>10 DEF n

\* Warned(r, i) after the step.
WarnedNext(r, i) ==
    /\ r.decision = alarms'[i] /\ r.count = i - 1
    /\ r.poor <=> rows'[r.decision + Steps - 1] = None

LEMMA AdvanceDecisions ==
  ASSUME MonitorInv, Advance
  PROVE  /\ ScoresFollow' /\ AlarmsFollow' /\ RequestsFollow'
         /\ scores' \in Seq(Score) /\ alarms' \in Seq(Nat) /\ pending' \in Seq(Request)
         /\ Len(alarms) <= Len(alarms')
         /\ \A i \in 1..Len(alarms) : alarms'[i] = alarms[i]
  <1>n. /\ next \in Nat /\ next >= 1 /\ next' = next + 1 /\ start \in Int
        /\ Steps \in Nat /\ Steps >= 1
        /\ DOMAIN rows = 1..(next - 1) /\ \A k \in DOMAIN rows : rows'[k] = rows[k]
    BY NewRow, Parameters
  <1>0. UNCHANGED <<start, requests>>
    BY DEF Advance, published
  <1>t. /\ scores \in Seq(Score) /\ alarms \in Seq(Nat) /\ pending \in Seq(Request)
        /\ requests \in Seq(Request) /\ scan \in Nat
        /\ Len(alarms) \in Nat /\ Len(pending) \in Nat /\ Len(requests) \in Nat
        /\ DOMAIN alarms = 1..Len(alarms) /\ DOMAIN pending = 1..Len(pending)
        /\ DOMAIN requests = 1..Len(requests) /\ DOMAIN scores = 1..Len(scores)
    BY DEF MonitorInv, MonitorTypes, Score
  <1>s. /\ Len(scores) = IF next <= Steps THEN 0 ELSE next - Steps
        /\ \A j \in DOMAIN scores : scores[j].time = GridTime(j + Steps - 1)
    BY DEF MonitorInv, ScoresFollow
  <1>a. /\ alarms = Replay(scores)
        /\ \A i \in DOMAIN alarms : alarms[i] \in 1..Len(scores)
        /\ \A i, j \in DOMAIN alarms : i < j => alarms[i] < alarms[j]
    BY DEF MonitorInv, AlarmsFollow
  <1>f. /\ Len(alarms) = Len(requests) + Len(pending)
        /\ \A i \in DOMAIN requests : Warned(requests[i], i)
        /\ \A i \in DOMAIN pending : Warned(pending[i], Len(requests) + i)
    BY DEF MonitorInv, RequestsFollow
  <1>g. \A k : GridTime(k)' = GridTime(k)
    BY <1>0 DEF GridTime
  \* A request that was made stays right.
  <1>w. ASSUME \A i \in DOMAIN alarms : alarms'[i] = alarms[i],
               NEW r, NEW i \in DOMAIN alarms, Warned(r, i)
        PROVE  WarnedNext(r, i)
    <2>1. r.decision = alarms[i] /\ alarms[i] \in 1..Len(scores) /\ alarms'[i] = alarms[i]
      BY <1>a, <1>w DEF Warned
    <2>2. r.decision + Steps - 1 \in DOMAIN rows
      BY <1>n, <1>s, <2>1
    <2>3. rows'[r.decision + Steps - 1] = rows[r.decision + Steps - 1]
      BY <1>n, <2>2
    <2>4. QED
      BY <1>w, <2>1, <2>3 DEF Warned, WarnedNext
  <1>1. CASE next < Steps
    <2>0. UNCHANGED <<scores, alarms, pending>>
      BY <1>n, <1>1, NewScore
    <2>1. ScoresFollow'
      <3>1. Len(scores') = IF next' <= Steps THEN 0 ELSE next' - Steps
        BY <1>n, <1>s, <1>1, <2>0
      <3>2. \A j \in DOMAIN scores' : scores'[j].time = GridTime(j + Steps - 1)
        BY <1>s, <2>0
      <3>3. QED
        BY <1>0, <3>1, <3>2 DEF ScoresFollow, GridTime
    <2>2. AlarmsFollow'
      BY <1>a, <2>0 DEF AlarmsFollow
    <2>3. \A i \in DOMAIN requests : i \in DOMAIN alarms
      BY <1>f, <1>t
    <2>4. \A i \in DOMAIN pending : Len(requests) + i \in DOMAIN alarms
      BY <1>f, <1>t
    <2>5. RequestsFollow'
      BY <1>0, <1>f, <1>w, <2>0, <2>3, <2>4 DEF RequestsFollow, Warned, WarnedNext
    <2>6. QED
      BY <1>t, <2>0, <2>1, <2>2, <2>5
  <1>2. CASE next >= Steps
    <2> DEFINE n == Len(scores) + 1
               state == RobotState(next, rows'[next])
    <2>0. /\ n \in Nat /\ n + Steps - 1 = next /\ Len(scores') = n /\ scores' \in Seq(Score)
          /\ DOMAIN scores = 1..(n - 1) /\ DOMAIN scores' = 1..n
          /\ \A j \in DOMAIN scores : scores'[j] = scores[j]
          /\ scores'[n].time = GridTime(next)
          /\ alarms' = Replay(scores')
      BY <1>2, NewAlarm
    <2>a. \/ alarms' = Append(alarms, n) /\ pending' = Append(pending, state)
          \/ UNCHANGED <<alarms, pending>>
      BY <1>2, NewAlarm
    <2>p. /\ state.decision = n /\ state.count = Len(alarms)
          /\ state.poor <=> rows'[next] = None
          /\ state \in Request
      <3>1. state = [decision |-> n, sent |-> None,
                     clearance |-> IF scan # None /\ GridTime(next) - scan <= ScanMaxAge
                                   THEN scan ELSE None,
                     poor |-> rows'[next] = None, count |-> Len(alarms)]
        BY DEF RobotState
      <3> HIDE DEF state, n
      <3>2. state.decision = n /\ state.count = Len(alarms) /\ (state.poor <=> rows'[next] = None)
        BY <3>1
      <3>3. state \in Request
        BY <1>t, <2>0, <3>1 DEF Request, None
      <3>4. QED
        BY <3>2, <3>3
    <2>b. Len(scores) = n - 1
      BY <1>t
    <2> HIDE DEF n, state
    <2>1. ScoresFollow'
      <3>1. Len(scores') = IF next' <= Steps THEN 0 ELSE next' - Steps
        BY <1>n, <1>2, <2>0
      <3>2. ASSUME NEW j \in DOMAIN scores'
            PROVE  scores'[j].time = GridTime(j + Steps - 1)
        <4>1. j \in DOMAIN scores \/ j = n
          BY <2>0
        <4>2. QED
          BY <1>s, <2>0, <4>1
      <3>3. QED
        BY <1>0, <3>1, <3>2 DEF ScoresFollow, GridTime
    <2>2. CASE alarms' = Append(alarms, n) /\ pending' = Append(pending, state)
      <3>1. /\ alarms' \in Seq(Nat) /\ DOMAIN alarms' = 1..(Len(alarms) + 1)
            /\ Len(alarms') = Len(alarms) + 1
            /\ \A i \in DOMAIN alarms : alarms'[i] = alarms[i]
            /\ alarms'[Len(alarms) + 1] = n
        BY <1>t, <2>0, <2>2
      <3>2. /\ pending' \in Seq(Request) /\ DOMAIN pending' = 1..(Len(pending) + 1)
            /\ Len(pending') = Len(pending) + 1
            /\ \A i \in DOMAIN pending : pending'[i] = pending[i]
            /\ pending'[Len(pending) + 1] = state
        BY <1>t, <2>p, <2>2
      <3>3. \A i \in DOMAIN alarms' : i \in DOMAIN alarms \/ i = Len(alarms) + 1
        BY <1>t, <3>1
      <3>4. AlarmsFollow'
        <4>1. \A i \in DOMAIN alarms' : alarms'[i] \in 1..Len(scores')
          BY <1>a, <2>0, <2>b, <3>1, <3>3
        <4>2. ASSUME NEW i \in DOMAIN alarms', NEW j \in DOMAIN alarms', i < j
              PROVE  alarms'[i] < alarms'[j]
          <5>1. i \in DOMAIN alarms /\ i \in Nat /\ j \in Nat
            BY <1>t, <3>1, <4>2
          <5>2. alarms[i] \in 1..(n - 1) /\ alarms'[i] = alarms[i]
            BY <1>a, <2>b, <3>1, <5>1
          <5>3. CASE j \in DOMAIN alarms
            BY <1>a, <3>1, <4>2, <5>1, <5>2, <5>3
          <5>4. CASE j = Len(alarms) + 1
            BY <2>0, <3>1, <5>2, <5>4
          <5>5. QED
            BY <3>3, <5>3, <5>4
        <4>3. QED
          BY <2>0, <4>1, <4>2 DEF AlarmsFollow
      <3>5. \A i \in DOMAIN requests : i \in DOMAIN alarms
        BY <1>f, <1>t
      <3>6. \A i \in DOMAIN requests : WarnedNext(requests[i], i)
        BY <1>f, <1>w, <3>1, <3>5
      <3>7. ASSUME NEW i \in DOMAIN pending'
            PROVE  WarnedNext(pending'[i], Len(requests) + i)
        <4>1. CASE i \in DOMAIN pending
          <5>1. Len(requests) + i \in DOMAIN alarms /\ pending'[i] = pending[i]
            BY <1>f, <1>t, <3>2, <4>1
          <5>2. Warned(pending[i], Len(requests) + i)
            BY <1>f, <4>1
          <5>3. QED
            BY <1>w, <3>1, <5>1, <5>2
        <4>2. CASE i = Len(pending) + 1
          <5>1. Len(requests) + i = Len(alarms) + 1 /\ Len(requests) + i - 1 = Len(alarms)
            BY <1>f, <1>t, <4>2
          <5>2. pending'[i] = state
            BY <3>2, <4>2
          <5>3. QED
            BY <2>0, <2>p, <3>1, <5>1, <5>2 DEF WarnedNext
        <4>3. QED
          BY <1>t, <3>2, <4>1, <4>2
      <3>8. Len(alarms') = Len(requests) + Len(pending')
        BY <1>f, <1>t, <3>1, <3>2
      <3>9. RequestsFollow'
        BY <1>0, <3>6, <3>7, <3>8 DEF RequestsFollow, Warned, WarnedNext
      <3>10. QED
        <4>1. DOMAIN alarms = 1..Len(alarms) /\ Len(alarms) \in Nat
          BY <1>t
        <4>2. Len(alarms) <= Len(alarms')
          BY <3>1, <4>1
        <4>3. \A i \in 1..Len(alarms) : alarms'[i] = alarms[i]
          BY <3>1, <4>1
        <4>4. QED
          BY <2>0, <2>1, <3>1, <3>2, <3>4, <3>9, <4>2, <4>3
    <2>3. CASE UNCHANGED <<alarms, pending>>
      <3>1. \A i \in DOMAIN alarms : alarms'[i] \in 1..Len(scores')
        BY <1>a, <2>0, <2>3, <2>b
      <3>2. AlarmsFollow'
        BY <1>a, <2>0, <2>3, <3>1 DEF AlarmsFollow
      <3>3. /\ \A i \in DOMAIN requests : i \in DOMAIN alarms
            /\ \A i \in DOMAIN pending : Len(requests) + i \in DOMAIN alarms
        BY <1>f, <1>t
      <3>4. /\ \A i \in DOMAIN requests : WarnedNext(requests[i], i)
            /\ \A i \in DOMAIN pending : WarnedNext(pending[i], Len(requests) + i)
        BY <1>f, <1>w, <2>3, <3>3
      <3>5. RequestsFollow'
        BY <1>0, <1>f, <2>3, <3>4 DEF RequestsFollow, Warned, WarnedNext
      <3>6. QED
        BY <1>t, <2>0, <2>1, <2>3, <3>2, <3>5
    <2>4. QED
      BY <2>a, <2>2, <2>3
  <1>3. QED
    BY <1>1, <1>2, <1>n

LEMMA AdvanceKeeps ==
  ASSUME MonitorInv, Advance
  PROVE  MonitorInv'
  <1>0. /\ UNCHANGED <<now, arrivals, scan, start, phase, events, requests, partial, final>>
        /\ phase = "step" /\ start # -1 /\ next' = next + 1
    BY NewRow DEF Advance, clock, published, files
  <1>d. /\ ScoresFollow' /\ AlarmsFollow' /\ RequestsFollow'
        /\ scores' \in Seq(Score) /\ alarms' \in Seq(Nat) /\ pending' \in Seq(Request)
        /\ Len(alarms) <= Len(alarms')
        /\ \A i \in 1..Len(alarms) : alarms'[i] = alarms[i]
    BY AdvanceDecisions
  <1>1. BufferSuffices' /\ RowsExact' /\ HistoryKept' /\ TailExact'
    BY AdvanceBuffer, AdvanceHistory, AdvanceTail
  <1>2. MonitorTypes'
    <2>1. /\ samples' \in Seq(Times) /\ rows' \in Seq(Nat) /\ base' \in Times
          /\ lastFix' \in Nat /\ tail' \in Seq(Enriched) /\ next' \in Times
      BY AdvanceBuffer, AdvanceHistory, AdvanceTail, NewRow DEF Times
    <2>2. QED
      BY <1>0, <1>d, <2>1 DEF MonitorInv, MonitorTypes, Score
  <1>3. Anchored'
    BY <1>0 DEF MonitorInv, Anchored
  <1>4. EventsFollow'
    <2>1. /\ events \in Seq(Nat) /\ alarms \in Seq(Nat) /\ Len(events) \in Nat
          /\ DOMAIN events = 1..Len(events) /\ Len(alarms) \in Nat /\ Len(alarms') \in Nat
      BY <1>d DEF MonitorInv, MonitorTypes
    <2>2. Len(events) <= Len(alarms) /\ \A i \in DOMAIN events : events[i] = alarms[i]
      BY DEF MonitorInv, EventsFollow
    <2>3. Len(events) <= Len(alarms')
      BY <1>d, <2>1, <2>2
    <2>4. \A i \in DOMAIN events : i \in 1..Len(alarms)
      BY <2>1, <2>2
    <2>5. \A i \in DOMAIN events : events[i] = alarms'[i]
      BY <1>d, <2>2, <2>4
    <2>6. QED
      BY <1>0, <2>3, <2>5 DEF MonitorInv, EventsFollow
  <1>5. SidecarFollows'
    <2>1. partial # NoFile /\ Held(partial) /\ final = NoFile
      BY <1>0 DEF MonitorInv, SidecarFollows
    <2>2. /\ Len(scores) \in Nat /\ Len(alarms) \in Nat /\ alarms \in Seq(Nat)
          /\ DOMAIN alarms = 1..Len(alarms)
      BY DEF MonitorInv, MonitorTypes
    <2>3. /\ Len(scores') \in Nat /\ Len(scores') >= Len(scores)
          /\ Len(alarms') \in Nat /\ Len(alarms') >= Len(alarms)
          /\ DOMAIN alarms' = 1..Len(alarms')
          /\ \A i \in DOMAIN alarms' : i \in DOMAIN alarms \/ alarms'[i] > Len(scores)
      <3>n. next \in Nat /\ Steps \in Nat
        BY NewRow, Parameters
      <3>1. CASE next < Steps
        <4>1. ~(next >= Steps)
          BY <3>n, <3>1
        <4>2. scores' = scores /\ alarms' = alarms
          BY <4>1, NewScore
        <4>3. QED
          BY <2>2, <4>2
      <3>2. CASE next >= Steps
        <4>1. /\ Len(scores') = Len(scores) + 1
              /\ alarms' = Append(alarms, Len(scores) + 1) \/ alarms' = alarms
          BY <3>2, NewAlarm
        <4>2. QED
          BY <2>2, <4>1
      <3>3. QED
        BY <3>n, <3>1, <3>2
    <2>4. Held(partial)'
      <3>1. /\ partial' = partial /\ partial.decisions \in Nat /\ partial.decisions <= Len(scores)
            /\ partial.alarms \in Seq(Nat) /\ Len(partial.alarms) \in Nat
            /\ Len(partial.alarms) <= Len(alarms)
            /\ \A i \in 1..Len(partial.alarms) : partial.alarms[i] = alarms[i]
            /\ \A i \in DOMAIN alarms : i <= Len(partial.alarms) <=> alarms[i] <= partial.decisions
        BY <1>0, <2>1 DEF Held
      <3>2. \A i \in 1..Len(partial.alarms) : partial.alarms[i] = alarms'[i]
        <4> DEFINE m == Len(partial.alarms)
        <4>1. \A i \in 1..m : i \in 1..Len(alarms)
          BY <2>2, <3>1
        <4>2. \A i \in 1..Len(alarms) : alarms'[i] = alarms[i]
          BY <1>d
        <4>3. QED
          BY <3>1, <4>1, <4>2
      <3>3. ASSUME NEW i \in DOMAIN alarms'
            PROVE  i <= Len(partial.alarms) <=> alarms'[i] <= partial.decisions
        <4>1. CASE i \in DOMAIN alarms
          BY <1>d, <2>2, <3>1, <4>1
        <4>2. CASE i \notin DOMAIN alarms
          <5>1. alarms'[i] \in Nat /\ i \in Nat /\ i > Len(alarms) /\ alarms'[i] > Len(scores)
            BY <1>d, <2>2, <2>3, <4>2
          <5>2. QED
            BY <2>2, <3>1, <5>1
        <4>3. QED
          BY <4>1, <4>2
      <3>4. QED
        BY <2>2, <2>3, <3>1, <3>2, <3>3 DEF Held
    <2>5. QED
      BY <1>0, <2>1, <2>4 DEF SidecarFollows, NoFile
  <1>6. QED
    BY <1>d, <1>1, <1>2, <1>3, <1>4, <1>5 DEF MonitorInv

LEMMA StutterKeeps ==
  ASSUME MonitorInv, UNCHANGED vars
  PROVE  MonitorInv'
  <1>0. /\ UNCHANGED <<arrivals, samples, start, window, decided>>
        /\ UNCHANGED <<now, scan, phase, pending, events, requests, partial, final>>
        /\ UNCHANGED <<next, rows, base, lastFix, tail, scores, alarms>>
    BY DEF vars, clock, telemetry, window, decided, published, files
  <1>1. MonitorTypes' /\ Anchored'
    BY <1>0 DEF MonitorInv, MonitorTypes, Anchored
  <1>2. BufferSuffices' /\ RowsExact' /\ HistoryKept' /\ TailExact' /\ ScoresFollow'
          /\ AlarmsFollow'
    BY <1>0, CoreKept
  <1>3. RequestsFollow' /\ EventsFollow' /\ SidecarFollows'
    BY <1>0 DEF MonitorInv, RequestsFollow, Warned, EventsFollow, SidecarFollows, Sidecar,
                Held, NoFile
  <1>4. QED
    BY <1>1, <1>2, <1>3 DEF MonitorInv

\* The invariant of the monitor is inductive.
THEOREM MonitorInvariant == Spec => []MonitorInv
  <1>1. Init => MonitorInv
    BY InitMonitor
  <1>2. MonitorInv /\ [Next]_vars => MonitorInv'
    <2> SUFFICES ASSUME MonitorInv, [Next]_vars PROVE MonitorInv'
      OBVIOUS
    <2>1. CASE Boot
      BY <2>1, BootKeeps
    <2>2. CASE Clock \/ ReceiveScan \/ Tick \/ StepDone \/ TickDone \/ Interrupt
      BY <2>2, QuietKeeps
    <2>3. CASE Receive
      BY <2>3, ReceiveKeeps
    <2>4. CASE MissionStarted
      BY <2>4, MissionKeeps
    <2>5. CASE Advance
      BY <2>5, AdvanceKeeps
    <2>6. CASE PublishEvent \/ PublishRequest
      BY <2>6, PublishKeeps
    <2>7. CASE CloseSnapshot \/ CloseRename \/ Kill \/ Promote
      BY <2>7, CloseKeeps
    <2>8. CASE UNCHANGED vars
      BY <2>8, StutterKeeps
    <2>9. QED
      BY <2>1, <2>2, <2>3, <2>4, <2>5, <2>6, <2>7, <2>8 DEF Next
  <1>3. QED
    BY <1>1, <1>2, PTL DEF Spec

-----------------------------------------------------------------------------
(* The properties.                                                         *)

\* Whatever the delays of the ticks and the pruning of the buffer, every row and
\* every window is the one computed from all samples received by then, and a
\* request says that the robot is lost when no pose was fresh at its decision.
THEOREM WindowIsExact == Spec => []WindowExact
  <1>1. MonitorInv => WindowExact
    <2> SUFFICES ASSUME MonitorInv PROVE WindowExact
      OBVIOUS
    <2>1. \A k \in DOMAIN rows : rows[k] = Select(ReceivedBy(k), GridTime(k))
      BY DEF MonitorInv, RowsExact
    <2>2. \A i \in DOMAIN tail : tail[i] = Enrich(rows, 1, next - 1 - Len(tail) + i)
      BY DEF MonitorInv, TailExact
    <2>3. ASSUME NEW i \in DOMAIN requests
          PROVE  LET k == requests[i].decision + Steps - 1
                 IN requests[i].poor <=> Select(ReceivedBy(k), GridTime(k)) = None
      <3> DEFINE k == requests[i].decision + Steps - 1
      <3>1. /\ requests[i].decision = alarms[i]
            /\ requests[i].poor <=> rows[k] = None
        BY DEF MonitorInv, RequestsFollow, Warned
      <3>2. i \in DOMAIN alarms
        BY DEF MonitorInv, MonitorTypes, RequestsFollow
      <3>3. alarms[i] \in 1..Len(scores)
        BY <3>2 DEF MonitorInv, AlarmsFollow
      <3>4. Len(scores) = IF next <= Steps THEN 0 ELSE next - Steps
        BY DEF MonitorInv, ScoresFollow
      <3>5. Len(rows) = next - 1 /\ DOMAIN rows = 1..Len(rows) /\ next \in Nat
        BY DEF MonitorInv, MonitorTypes, RowsExact, Times
      <3>6. k \in DOMAIN rows
        BY <3>1, <3>3, <3>4, <3>5, Parameters
      <3>7. QED
        BY <2>1, <3>1, <3>6
    <2>4. QED
      BY <2>1, <2>2, <2>3 DEF WindowExact
  <1>2. QED
    BY <1>1, MonitorInvariant, PTL

\* Requests follow their events in the order of the alarms; a sidecar that the node
\* closed itself holds every alarm that was announced, one that was promoted after
\* a kill is a record of the node's at an earlier decision, and a node that was
\* ready leaves one of the two.
THEOREM SidecarIsComplete == Spec => []SidecarCovers
  <1>1. MonitorInv => SidecarCovers
    <2> SUFFICES ASSUME MonitorInv PROVE SidecarCovers
      OBVIOUS
    <2>t. /\ events \in Seq(Nat) /\ alarms \in Seq(Nat) /\ requests \in Seq(Request)
          /\ DOMAIN events = 1..Len(events) /\ DOMAIN requests = 1..Len(requests)
          /\ Len(events) \in Nat /\ Len(requests) \in Nat /\ Len(alarms) \in Nat
          /\ DOMAIN alarms = 1..Len(alarms)
      BY DEF MonitorInv, MonitorTypes
    <2>1. /\ Len(requests) <= Len(events) /\ Len(events) <= Len(alarms)
          /\ \A i \in DOMAIN events : events[i] = alarms[i]
      BY DEF MonitorInv, EventsFollow
    <2>2. ASSUME NEW i \in DOMAIN requests
          PROVE  requests[i].decision = events[i] /\ requests[i].count = i - 1
      <3>1. i \in DOMAIN events
        BY <2>t, <2>1
      <3>2. requests[i].decision = alarms[i] /\ requests[i].count = i - 1
        BY DEF MonitorInv, RequestsFollow, Warned
      <3>3. QED
        BY <2>1, <3>1, <3>2
    <2>3. IsPrefix(events, alarms)
      <3> DEFINE n == Len(events)
      <3>1. n \in Nat /\ n <= Len(alarms) /\ \A i \in 1..n : events[i] = alarms[i]
        BY <2>t, <2>1
      <3>2. SubSeq(events, 1, n) = [i \in 1..n |-> events[i]]
        BY <2>t
      <3>3. SubSeq(alarms, 1, n) = [i \in 1..n |-> alarms[i]]
        BY <2>t, <3>1
      <3> HIDE DEF n
      <3>4. [i \in 1..n |-> events[i]] = [i \in 1..n |-> alarms[i]]
        BY <3>1
      <3>5. QED
        BY <3>1, <3>2, <3>3, <3>4 DEF IsPrefix, n
    <2>4. phase = "down" => final.alarms = alarms /\ final.decisions = Len(scores)
      BY DEF MonitorInv, SidecarFollows, Sidecar
    <2>5. final # NoFile => IsRecord(final)
      <3> SUFFICES ASSUME final # NoFile PROVE IsRecord(final)
        OBVIOUS
      <3>1. Held(final) /\ Len(scores) \in Nat
        BY DEF MonitorInv, MonitorTypes, SidecarFollows
      <3> DEFINE f == final.alarms
                 n == Len(f)
      <3>2. /\ f \in Seq(Nat) /\ n \in Nat /\ n <= Len(alarms)
            /\ \A i \in 1..n : f[i] = alarms[i]
        BY <3>1 DEF Held
      <3>3. SubSeq(f, 1, n) = [i \in 1..n |-> f[i]]
        BY <3>2
      <3>4. SubSeq(alarms, 1, n) = [i \in 1..n |-> alarms[i]]
        BY <2>t, <3>2
      <3>5. IsPrefix(f, alarms)
        <4> HIDE DEF f
        <4> DEFINE m == Len(f)
        <4>1. [i \in 1..m |-> f[i]] = [i \in 1..m |-> alarms[i]]
          BY <3>2
        <4>2. QED
          BY <3>2, <3>3, <3>4, <4>1 DEF IsPrefix
      <3>6. QED
        BY <3>1, <3>5 DEF IsRecord, Held
    <2>6. /\ phase \in {"idle", "step", "publish", "request", "closing", "rename"} =>
                partial # NoFile
          /\ phase \in {"down", "promoted"} => final # NoFile
      BY SidecarHeld DEF MonitorInv, SidecarFollows
    <2>7. QED
      BY <2>1, <2>2, <2>3, <2>4, <2>5, <2>6 DEF SidecarCovers
  <1>2. QED
    BY <1>1, MonitorInvariant, PTL

-----------------------------------------------------------------------------
(* The alarms are those of the policy: the replay of the policy over all   *)
(* decisions, which keeps the time of the last alarm only, against the     *)
(* statement of the policy, which looks at every earlier alarm.            *)

RecentOf(s, i) == {j \in DOMAIN s : j <= i /\ j > i - Considered}
HighOf(s, i) == {j \in RecentOf(s, i) : s[j].above}
Cooling(s, al, i) == \E a \in Range(al) : a < i /\ s[i].time - s[a].time < Cooldown
ByPolicy(s, al, i) ==
    /\ Cardinality(RecentOf(s, i)) = Considered /\ Cardinality(HighOf(s, i)) >= Required
    /\ ~Cooling(s, al, i)

LEMMA ExactIsPolicy ==
  /\ AlarmsExact <=> \A i \in DOMAIN scores : (i \in Range(alarms) <=> ByPolicy(scores, alarms, i))
  BY DEF AlarmsExact, ByPolicy, RecentOf, HighOf, Cooling

\* The decision that is replayed last raises an alarm as the policy says.
LEMMA RaisesIsPolicy ==
  ASSUME NEW s \in Seq(Score), NEW n \in Nat \ {0}, Len(s) = n,
         NEW al \in Seq(Nat), \A a \in DOMAIN al : al[a] \in 1..(n - 1),
         \A a, b \in DOMAIN al : a < b => al[a] < al[b],
         \A i, j \in DOMAIN s : i <= j => s[i].time <= s[j].time
  PROVE  Raises(s, n, al) <=> ByPolicy(s, al, n)
  <1>p. Considered \in Nat /\ Considered >= 1 /\ Cooldown \in Nat
    BY Parameters
  <1>d. DOMAIN s = 1..n /\ \A j \in 1..n : s[j].time \in Int
    <2>1. DOMAIN s = 1..n /\ \A j \in 1..n : s[j] \in Score
      OBVIOUS
    <2>2. QED
      BY <2>1 DEF Score
  <1> DEFINE C == Considered
             low == IF n >= C THEN n - C + 1 ELSE 1
  <1>1. RecentOf(s, n) = low..n
    BY <1>d, <1>p DEF RecentOf
  <1>2. low \in Int /\ low <= n /\ (n - low + 1 = C <=> n >= C)
    BY <1>p
  <1>3. Cardinality(RecentOf(s, n)) = n - low + 1
    <2> HIDE DEF low
    <2>1. Cardinality(low..n) = n - low + 1
      BY <1>2, FS_Interval
    <2>2. QED
      BY <1>1, <2>1
  <1>4. Cardinality(RecentOf(s, n)) = Considered <=> n >= Considered
    BY <1>2, <1>3
  <1>5. n >= C => HighOf(s, n) = {j \in (n - C + 1)..n : s[j].above}
    BY <1>1 DEF HighOf
  <1>6. Persistent(s, n) <=> /\ Cardinality(RecentOf(s, n)) = Considered
                             /\ Cardinality(HighOf(s, n)) >= Required
    BY <1>4, <1>5 DEF Persistent
  <1> HIDE DEF low, C
  <1>7. ASSUME al # <<>>
        PROVE  /\ Last(al) \in Range(al) /\ Last(al) \in 1..(n - 1)
               /\ \A a \in Range(al) : a \in 1..(n - 1) /\ a <= Last(al)
    <2> DEFINE m == Len(al)
    <2>1. m \in DOMAIN al /\ DOMAIN al = 1..m /\ Last(al) = al[m]
      BY <1>7, EmptySeq DEF Last
    <2> HIDE DEF m
    <2>2. ASSUME NEW x \in DOMAIN al
          PROVE  al[x] \in 1..(n - 1) /\ al[x] <= al[m]
      <3>1. x \in Int /\ m \in Int /\ x <= m /\ al[x] \in 1..(n - 1) /\ al[m] \in 1..(n - 1)
        BY <2>1
      <3>2. x = m \/ al[x] < al[m]
        BY <2>1, <3>1
      <3>3. QED
        BY <3>1, <3>2
    <2>3. QED
      BY <2>1, <2>2 DEF Range
  <1>8. Cooling(s, al, n) <=> al # <<>> /\ s[n].time - s[Last(al)].time < Cooldown
    <2>1. CASE al = <<>>
      <3>1. Range(al) = {}
        BY <2>1 DEF Range
      <3>2. QED
        BY <2>1, <3>1 DEF Cooling
    <2>2. CASE al # <<>>
      <3>1. Last(al) < n /\ Last(al) \in 1..n /\ s[Last(al)].time \in Int /\ s[n].time \in Int
        BY <1>7, <1>d, <2>2
      <3>2. ASSUME s[n].time - s[Last(al)].time < Cooldown
            PROVE  Cooling(s, al, n)
        BY <1>7, <2>2, <3>1, <3>2 DEF Cooling
      <3>3. ASSUME Cooling(s, al, n)
            PROVE  s[n].time - s[Last(al)].time < Cooldown
        <4>1. PICK a \in Range(al) : a < n /\ s[n].time - s[a].time < Cooldown
          BY <3>3 DEF Cooling
        <4>2. a \in 1..(n - 1) /\ a <= Last(al)
          BY <1>7, <2>2
        <4>3. a \in 1..n /\ s[a].time <= s[Last(al)].time /\ s[a].time \in Int
          BY <1>d, <3>1, <4>2
        <4>4. QED
          BY <1>p, <3>1, <4>1, <4>3
      <3>4. QED
        BY <2>2, <3>2, <3>3
    <2>3. QED
      BY <2>1, <2>2
  <1>9. (al # <<>> => s[n].time - s[Last(al)].time >= Cooldown) <=> ~Cooling(s, al, n)
    <2>1. CASE al = <<>>
      BY <1>8, <2>1
    <2>2. CASE al # <<>>
      <3>1. Last(al) \in 1..n
        BY <1>7, <2>2
      <3>2. s[Last(al)].time \in Int /\ s[n].time \in Int
        BY <1>d, <3>1
      <3>3. QED
        BY <1>8, <1>p, <2>2, <3>2
    <2>3. QED
      BY <2>1, <2>2
  <1>10. QED
    BY <1>6, <1>9 DEF Raises, ByPolicy

\* A later decision changes nothing for an earlier one.
LEMMA PolicyStays ==
  ASSUME NEW s \in Seq(Score), NEW q \in Seq(Score), NEW n \in Nat, Len(s) = n, Len(q) = n + 1,
         Agree(q, s, n), NEW al, NEW bl, Range(al) \subseteq 1..n,
         Range(bl) = Range(al) \/ Range(bl) = Range(al) \cup {n + 1},
         NEW i \in 1..n
  PROVE  /\ ByPolicy(q, bl, i) <=> ByPolicy(s, al, i)
         /\ i \in Range(bl) <=> i \in Range(al)
  <1>1. DOMAIN s = 1..n /\ DOMAIN q = 1..(n + 1) /\ i \in Nat /\ i # n + 1
    OBVIOUS
  <1>2. RecentOf(q, i) = RecentOf(s, i)
    BY <1>1, Parameters DEF RecentOf
  <1>3. \A j \in RecentOf(s, i) : q[j] = s[j]
    BY <1>1 DEF RecentOf, Agree
  <1>4. HighOf(q, i) = HighOf(s, i)
    BY <1>2, <1>3 DEF HighOf
  <1>5. Cooling(q, bl, i) <=> Cooling(s, al, i)
    <2>1. \A a \in Range(al) : q[a] = s[a]
      BY DEF Agree
    <2>2. \A a \in Range(bl) : a < i => a \in Range(al)
      BY <1>1
    <2>3. Range(al) \subseteq Range(bl)
      OBVIOUS
    <2>4. q[i] = s[i]
      BY DEF Agree
    <2>5. QED
      BY <2>1, <2>2, <2>3, <2>4 DEF Cooling
  <1>6. QED
    BY <1>1, <1>2, <1>4, <1>5 DEF ByPolicy

LEMMA PolicyStep ==
  ASSUME MonitorInv, MonitorInv', AlarmsExact, Advance
  PROVE  AlarmsExact'
  <1>0. \A i \in DOMAIN scores : (i \in Range(alarms) <=> ByPolicy(scores, alarms, i))
    BY ExactIsPolicy
  <1>1. SUFFICES \A i \in DOMAIN scores' : (i \in Range(alarms') <=> ByPolicy(scores', alarms', i))
    BY DEF AlarmsExact, ByPolicy, RecentOf, HighOf, Cooling
  <1>2. CASE next < Steps
    <2>1. UNCHANGED <<scores, alarms>>
      BY <1>2, NewScore, NewRow, Parameters
    <2>2. QED
      BY <1>0, <2>1
  <1>3. CASE next >= Steps
    <2> DEFINE n == Len(scores) + 1
    <2>0. /\ n \in Nat /\ Len(scores') = n /\ scores' \in Seq(Score)
          /\ DOMAIN scores = 1..(n - 1) /\ DOMAIN scores' = 1..n
          /\ \A j \in DOMAIN scores : scores'[j] = scores[j]
          /\ \/ Raises(scores', n, alarms) /\ alarms' = Append(alarms, n)
             \/ ~Raises(scores', n, alarms) /\ UNCHANGED alarms
      BY <1>3, NewAlarm
    <2>t. /\ scores \in Seq(Score) /\ alarms \in Seq(Nat) /\ Len(scores) = n - 1 /\ n >= 1
          /\ \A a \in DOMAIN alarms : alarms[a] \in 1..(n - 1)
          /\ \A a, b \in DOMAIN alarms : a < b => alarms[a] < alarms[b]
      <3>1. scores \in Seq(Score) /\ alarms \in Seq(Nat) /\ Len(scores) \in Nat
        BY DEF MonitorInv, MonitorTypes, Score
      <3>2. Len(scores) = n - 1 /\ n >= 1 /\ 1..Len(scores) = 1..(n - 1)
        BY <3>1
      <3>3. /\ \A a \in DOMAIN alarms : alarms[a] \in 1..Len(scores)
            /\ \A a, b \in DOMAIN alarms : a < b => alarms[a] < alarms[b]
        BY DEF MonitorInv, AlarmsFollow
      <3>4. QED
        BY <3>1, <3>2, <3>3
    <2>m. \A i, j \in DOMAIN scores' : i <= j => scores'[i].time <= scores'[j].time
      <3> SUFFICES ASSUME NEW i \in DOMAIN scores', NEW j \in DOMAIN scores', i <= j
                   PROVE  scores'[i].time <= scores'[j].time
        OBVIOUS
      <3> DEFINE a == i + Steps - 1
                 b == j + Steps - 1
      <3>1. start' = start /\ start \in Int
        BY NewRow DEF Advance
      <3>2. /\ scores'[i].time = (GridTime(i + Steps - 1))'
            /\ scores'[j].time = (GridTime(j + Steps - 1))'
        BY DEF MonitorInv, ScoresFollow
      <3>3. /\ (GridTime(i + Steps - 1))' = GridTime(a)
            /\ (GridTime(j + Steps - 1))' = GridTime(b)
        BY <3>1 DEF GridTime
      <3>4. a \in Nat /\ b \in Nat /\ a <= b
        BY <2>0, Parameters
      <3> HIDE DEF a, b
      <3>5. GridTime(a) <= GridTime(b)
        BY <3>1, <3>4, GridOrder
      <3>6. QED
        BY <3>2, <3>3, <3>5
    <2>a. /\ \A a \in Range(alarms) : a \in 1..(n - 1)
          /\ n \notin Range(alarms)
      BY <2>0, <2>t DEF Range
    <2>r. Range(Append(alarms, n)) = Range(alarms) \cup {n}
      <3> HIDE DEF n
      <3>1. /\ DOMAIN Append(alarms, n) = 1..(Len(alarms) + 1)
            /\ DOMAIN alarms = 1..Len(alarms) /\ Len(alarms) \in Nat
            /\ \A x \in DOMAIN alarms : Append(alarms, n)[x] = alarms[x]
            /\ Append(alarms, n)[Len(alarms) + 1] = n
        BY <2>0, <2>t
      <3>2. QED
        BY <3>1 DEF Range
    <2> HIDE DEF n
    <2>b. \/ Raises(scores', n, alarms) /\ Range(alarms') = Range(alarms) \cup {n}
          \/ ~Raises(scores', n, alarms) /\ Range(alarms') = Range(alarms)
      BY <2>0, <2>r
    <2>1. ASSUME NEW i \in 1..(n - 1)
          PROVE  i \in Range(alarms') <=> ByPolicy(scores', alarms', i)
      <3> DEFINE m == n - 1
                 q == scores'
                 bl == alarms'
      <3>1. m \in Nat /\ Len(scores) = m /\ q \in Seq(Score) /\ Len(q) = m + 1 /\ m + 1 = n
        BY <2>0, <2>t
      <3>a. Agree(q, scores, m)
        BY <2>0 DEF Agree
      <3>b. Range(alarms) \subseteq 1..m /\ i \in 1..m
        BY <2>a
      <3>c. Range(bl) = Range(alarms) \/ Range(bl) = Range(alarms) \cup {m + 1}
        BY <2>b, <3>1
      <3> HIDE DEF m, q, bl
      <3>2. (ByPolicy(q, bl, i) <=> ByPolicy(scores, alarms, i))
              /\ (i \in Range(bl) <=> i \in Range(alarms))
        BY <2>t, <3>1, <3>a, <3>b, <3>c, PolicyStays
      <3>3. i \in DOMAIN scores
        BY <2>0
      <3>4. QED
        BY <1>0, <3>2, <3>3 DEF q, bl
    <2>2. n \in Range(alarms') <=> ByPolicy(scores', alarms', n)
      <3> DEFINE q == scores'
                 bl == alarms'
      <3>1. n \in Range(bl) <=> Raises(q, n, alarms)
        BY <2>a, <2>b
      <3>2. n \in Nat \ {0} /\ q \in Seq(Score) /\ Len(q) = n
        BY <2>0, <2>t
      <3>3. \A i, j \in DOMAIN q : i <= j => q[i].time <= q[j].time
        BY <2>m
      <3>4. Cooling(q, bl, n) <=> Cooling(q, alarms, n)
        <4>1. \A a : a \in Range(bl) /\ a < n => a \in Range(alarms)
          BY <2>b, <3>2
        <4>2. Range(alarms) \subseteq Range(bl)
          BY <2>b
        <4>3. QED
          BY <4>1, <4>2 DEF Cooling
      <3> HIDE DEF q, bl
      <3>5. Raises(q, n, alarms) <=> ByPolicy(q, alarms, n)
        BY <2>t, <3>2, <3>3, RaisesIsPolicy
      <3>6. ByPolicy(q, bl, n) <=> ByPolicy(q, alarms, n)
        BY <3>4 DEF ByPolicy
      <3>7. QED
        BY <3>1, <3>5, <3>6 DEF q, bl
    <2>3. \A i \in DOMAIN scores' : i \in 1..(n - 1) \/ i = n
      BY <2>0
    <2>4. QED
      BY <2>1, <2>2, <2>3
  <1>4. QED
    BY <1>2, <1>3, NewRow, Parameters

\* An alarm is raised at exactly the decisions at which the policy asks for one,
\* and never again taken back: for any policy, any scores and any mission.
THEOREM AlarmsAreExact == Spec => []AlarmsExact
  <1>1. Init => AlarmsExact
    BY DEF Init, AlarmsExact
  <1>2. MonitorInv /\ MonitorInv' /\ AlarmsExact /\ [Next]_vars => AlarmsExact'
    <2> SUFFICES ASSUME MonitorInv, MonitorInv', AlarmsExact, [Next]_vars
                 PROVE  AlarmsExact'
      OBVIOUS
    <2>1. CASE Advance
      BY <2>1, PolicyStep
    <2>2. CASE UNCHANGED <<scores, alarms>>
      BY <2>2 DEF AlarmsExact
    <2>3. Advance \/ UNCHANGED <<scores, alarms>>
      BY DEF Next, vars, decided, Boot, Clock, Receive, ReceiveScan, MissionStarted, Tick,
             StepDone, PublishEvent, PublishRequest, TickDone, Interrupt, CloseSnapshot,
             CloseRename, Kill, Promote
    <2>4. QED
      BY <2>1, <2>2, <2>3
  <1>3. QED
    BY <1>1, <1>2, MonitorInvariant, PTL DEF Spec
=============================================================================

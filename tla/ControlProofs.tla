---------------------------- MODULE ControlProofs ----------------------------
(* One campaign under its controller and a dispatcher, for any number of     *)
(* waves, any size of a wave, and any number of kills and replacements: when *)
(* a wave can be logged twice, that a logged wave is resolved, and that      *)
(* "complete" means complete.                                                *)
EXTENDS CampaignControl, Preregistration, FiniteSetTheorems, SequenceTheorems, TLAPS

Row == [key : Keys, ok : BOOLEAN]
Record == [wave : Nat, prev : Nat]
Child == [st : {"none", "ready", "run", "done"}, todo : SUBSET Keys, rc : {0, 1}]

-----------------------------------------------------------------------------
(* The inductive invariant.  Beside the types it has what ties the report,   *)
(* the log and the controller's wave to the ledger, which only grows.        *)

LedgerTypes ==
    /\ protected \in BOOLEAN
    /\ ledger \in Seq(Row)
    /\ repaired \in [Keys -> Repairs]
    /\ runner \in [Runners -> Child]

Task == [at : {"none", "report", "write", "log", "add", "verify"}, wave : Nat]
Adder == [st : {"none", "started", "read"}, wave : Nat, base : Nat]

ControlTypes ==
    /\ pc \in {"down", "finalise", "spawn", "wait"} /\ seen \in Nat
    /\ task \in [Finalisers -> Task] /\ adder \in [Writers -> Adder]
    /\ log \in Seq(Record) /\ raced \subseteq Nat
    /\ reports \subseteq Nat \ {0}
    /\ view \in Nat \cup {NotRead} /\ view <= Len(ledger)

\* A wave that is being finalised is complete.
Whole(w) == w # 0 /\ w * WaveSize <= Len(ledger)
WavesInHand == \A f \in Finalisers : task[f].at # "none" => Whole(task[f].wave)

\* A finaliser whose research_log.py runs waits for it, and a controller that
\* finalises a wave does nothing else.
Called ==
    /\ \A f \in Finalisers : adder[f].st # "none" => task[f].at = "add"
    /\ task["controller"].at # "none" => pc = "finalise"

Usable(w) == \A i \in RowsOf(w) : ledger[i].ok \/ Resolved(ledger[i].key)

ReportsResolved ==
    \A w \in reports : w * WaveSize <= Len(ledger) /\ Usable(w)

\* What is logged, or is going to be, is complete and reported.
Loggable(w) == w = 0 \/ (w * WaveSize <= Len(ledger) /\ (protected \/ w \in reports))
LogFollowsReports ==
    /\ \A i \in DOMAIN log : Loggable(log[i].wave)
    /\ \A o \in Writers : adder[o].st # "none" => Loggable(adder[o].wave)

\* Outside the waves that were raced for (and the declarations, which are of no
\* wave) a record is being added by one writer, and is not in the log yet.
Raced(w) == w = 0 \/ w \in raced
AddersApart ==
    \A o, q \in Writers :
        /\ o # q /\ adder[o].st # "none" /\ adder[q].st # "none"
        /\ adder[o].wave = adder[q].wave
        => Raced(adder[o].wave)
AddersFresh ==
    \A o \in Writers : adder[o].st # "none" /\ adder[o].wave \in Logged => Raced(adder[o].wave)

Types == LedgerTypes /\ ControlTypes
IInv == Types /\ WavesInHand /\ Called /\ ReportsResolved /\ LogFollowsReports
          /\ AddersApart /\ AddersFresh /\ LoggedOnceApart

-----------------------------------------------------------------------------
(* Arithmetic and cardinalities.                                           *)

LEMMA Constants ==
  /\ WaveSize \in Nat \ {0} /\ Waves \in Nat \ {0} /\ Expected \in Nat
  /\ Keys \subseteq Nat /\ IsFiniteSet(Keys) /\ Cardinality(Keys) = Expected
  <1>1. WaveSize \in Nat \ {0} /\ Waves \in Nat \ {0}
    BY ControlOK
  <1>2. Expected \in Nat
    BY <1>1 DEF Expected
  <1>3. IsFiniteSet(1..Expected) /\ Cardinality(1..Expected) = Expected
    BY <1>2, FS_Interval
  <1>4. QED
    BY <1>1, <1>2, <1>3 DEF Keys

LEMMA Division ==
  ASSUME NEW n \in Nat, NEW c \in Nat \ {0}
  PROVE  /\ n \div c \in Nat /\ (n \div c) * c <= n
         /\ n >= c => n \div c # 0
         /\ n % c \in Nat /\ n % c < c
  <1>1. /\ n \div c \in Nat /\ n % c \in Nat /\ n % c < c
        /\ n = (n \div c) * c + (n % c)
    BY SMT
  <1>2. n \div c = 0 => (n \div c) * c = 0
    BY SMT
  <1>3. (n \div c) * c \in Nat
    BY <1>1
  <1> DEFINE q == (n \div c) * c
             r == n % c
  <1> HIDE DEF q, r
  <1>4. q \in Nat /\ r \in Nat /\ r < c /\ n = q + r
    BY <1>1, <1>3 DEF q, r
  <1>5. q <= n /\ (n >= c => q # 0)
    BY <1>4
  <1>6. QED
    BY <1>1, <1>2, <1>5 DEF q

\* The rows of a wave the ledger reaches to the end of: as many as a wave has.
LEMMA WaveRows ==
  ASSUME Types, NEW w \in Nat \ {0}, w * WaveSize <= Len(ledger)
  PROVE  /\ Cardinality(RowsOf(w)) = WaveSize
         /\ RowsOf(w) \subseteq 1..Len(ledger)
  <1> DEFINE a == (w - 1) * WaveSize
             b == w * WaveSize
  <1>1. WaveSize \in Nat \ {0} /\ w - 1 \in Nat
    BY Constants
  <1>2. a \in Nat /\ b = a + WaveSize
    BY <1>1
  <1>3. DOMAIN ledger = 1..Len(ledger) /\ Len(ledger) \in Nat
    BY LenProperties DEF Types, LedgerTypes
  <1>4. RowsOf(w) = {i \in DOMAIN ledger : i > a /\ i <= b}
    BY DEF RowsOf
  <1>5. b <= Len(ledger)
    OBVIOUS
  <1> HIDE DEF a, b
  <1>6. RowsOf(w) = (a + 1)..b
    BY <1>1, <1>2, <1>3, <1>4, <1>5
  <1>7. Cardinality((a + 1)..b) = WaveSize
    BY <1>1, <1>2, FS_Interval
  <1>8. QED
    BY <1>3, <1>4, <1>6, <1>7

-----------------------------------------------------------------------------
(* The ledger only grows, and what is resolved stays resolved.             *)

Grows ==
    /\ Len(ledger) <= Len(ledger')
    /\ \A i \in 1..Len(ledger) : ledger'[i] = ledger[i]
    /\ \A k \in Keys : Resolved(k) => Resolved(k)'
    /\ protected' = protected

LEMMA WaveStays ==
  ASSUME Types, Types', Grows, NEW w \in Nat \ {0}, w * WaveSize <= Len(ledger)
  PROVE  /\ w * WaveSize <= Len(ledger')
         /\ Usable(w) => Usable(w)'
  <1> DEFINE b == w * WaveSize
             a == (w - 1) * WaveSize
  <1>1. a \in Int /\ b \in Nat /\ b <= Len(ledger)
    BY Constants
  <1>2. /\ DOMAIN ledger = 1..Len(ledger) /\ Len(ledger) \in Nat
        /\ DOMAIN ledger' = 1..Len(ledger') /\ Len(ledger') \in Nat
    BY LenProperties DEF Types, LedgerTypes
  <1>3. /\ RowsOf(w) = {i \in DOMAIN ledger : i > a /\ i <= b}
        /\ RowsOf(w)' = {i \in DOMAIN ledger' : i > a /\ i <= b}
    BY DEF RowsOf
  <1> HIDE DEF a, b
  <1>4. b <= Len(ledger')
    BY <1>1, <1>2 DEF Grows
  <1>5. RowsOf(w)' = RowsOf(w) /\ RowsOf(w) \subseteq 1..Len(ledger)
    BY <1>1, <1>2, <1>3, <1>4
  <1>6. \A i \in 1..Len(ledger) : ledger[i].key \in Keys
    <2>1. \A i \in 1..Len(ledger) : ledger[i] \in Row
      BY ElementOfSeq DEF Types, LedgerTypes
    <2>2. QED
      BY <2>1 DEF Row
  <1>7. b <= Len(ledger') <=> w * WaveSize <= Len(ledger')
    BY DEF b
  <1>8. QED
    BY <1>4, <1>5, <1>6, <1>7 DEF Grows, Usable

-----------------------------------------------------------------------------
(* Types.                                                                  *)

LEMMA LedgerTyped ==
  ASSUME LedgerTypes, [Next]_vars
  PROVE  LedgerTypes'
  <1> USE DEF LedgerTypes
  <1>0. ASSUME NEW f \in Finalisers, FindReport(f) \/ WriteReport(f) \/ LookUp(f) \/ VerifyLog(f)
        PROVE  LedgerTypes'
    BY <1>0 DEF FindReport, WriteReport, LookUp, VerifyLog
  <1>a. ASSUME NEW o \in Writers, ReadLog(o) \/ AppendRecord(o)
        PROVE  LedgerTypes'
    BY <1>a DEF ReadLog, AppendRecord
  <1>1. CASE Start \/ Look \/ Probe \/ Snapshot \/ StartDispatcher \/ EndDispatcher
    BY <1>1 DEF Start, Look, Probe, Snapshot, StartDispatcher, EndDispatcher
  <1>b. CASE \E w \in 1..Waves : Finalise(w)
    BY <1>b DEF Finalise
  <1>2. CASE Spawn
    <2>1. Todo \subseteq Keys
      BY DEF Todo
    <2>2. QED
      BY <1>2, <2>1 DEF Spawn, Child
  <1>3. Idle \in Child
    BY DEF Idle, Child
  <1>4. CASE Reap
    BY <1>3, <1>4 DEF Reap
  <1>5. ASSUME NEW f \in Finalisers, Kill(f)
        PROVE  LedgerTypes'
    BY <1>3, <1>5 DEF Kill
  <1>6. ASSUME NEW r \in Runners, NEW rc \in {0, 1}, End(r, rc)
        PROVE  runner' \in [Runners -> Child]
    BY <1>3, <1>6 DEF End, Child
  <1>7. ASSUME NEW r \in Runners, Acquire(r)
        PROVE  LedgerTypes'
    <2>1. runner' \in [Runners -> Child]
      BY <1>6, <1>7 DEF Acquire, Child
    <2>2. QED
      BY <1>7, <2>1 DEF Acquire
  <1>8. ASSUME NEW r \in Runners, Finish(r)
        PROVE  LedgerTypes'
    BY <1>6, <1>8 DEF Finish
  <1>9. ASSUME NEW r \in Runners, Attempt(r)
        PROVE  LedgerTypes'
    <2>1. PICK k \in runner[r].todo, ok \in BOOLEAN :
               /\ ledger' = Append(ledger, [key |-> k, ok |-> ok])
               /\ IF ok THEN runner' = [runner EXCEPT ![r].todo = @ \ {k}] ELSE End(r, 1)
      BY <1>9 DEF Attempt
    <2>2. k \in Keys
      BY <2>1 DEF Child
    <2>3. [key |-> k, ok |-> ok] \in Row
      BY <2>1, <2>2 DEF Row
    <2>4. ledger' \in Seq(Row)
      BY <2>1, <2>3, AppendProperties
    <2>5. runner' \in [Runners -> Child]
      <3>1. runner[r] \in Child
        OBVIOUS
      <3>2. [runner[r] EXCEPT !.todo = @ \ {k}] \in Child
        BY <3>1 DEF Child
      <3>3. CASE ok
        BY <2>1, <3>2, <3>3
      <3>4. CASE ~ok
        BY <2>1, <1>6, <3>4
      <3>5. QED
        BY <3>3, <3>4
    <2>6. QED
      BY <1>9, <2>4, <2>5 DEF Attempt
  <1>10. ASSUME NEW k \in Keys, Declare(k) \/ Replace(k) \/ Replaced(k)
         PROVE  LedgerTypes'
    BY <1>10 DEF Declare, Replace, Replaced, Repairs
  <1>11. CASE UNCHANGED vars
    BY <1>11 DEF vars
  <1>12. QED
    BY <1>0, <1>a, <1>1, <1>b, <1>2, <1>4, <1>5, <1>7, <1>8, <1>9, <1>10, <1>11 DEF Next

LEMMA LedgerGrows ==
  ASSUME LedgerTypes, [Next]_vars
  PROVE  Grows
  <1>1. DOMAIN ledger = 1..Len(ledger) /\ Len(ledger) \in Nat
    BY LenProperties DEF LedgerTypes
  <1>2. ledger' = ledger /\ repaired' = repaired /\ protected' = protected => Grows
    BY <1>1 DEF Grows, Resolved
  <1>0. ASSUME NEW f \in Finalisers, FindReport(f) \/ WriteReport(f) \/ LookUp(f)
                                        \/ VerifyLog(f) \/ Kill(f)
        PROVE  Grows
    BY <1>2, <1>0 DEF FindReport, WriteReport, LookUp, VerifyLog, Kill
  <1>a. ASSUME NEW o \in Writers, ReadLog(o) \/ AppendRecord(o)
        PROVE  Grows
    BY <1>2, <1>a DEF ReadLog, AppendRecord
  <1>3. CASE \/ Start \/ Look \/ Probe \/ Snapshot \/ StartDispatcher \/ EndDispatcher
             \/ \E w \in 1..Waves : Finalise(w)
    BY <1>2, <1>3 DEF Start, Look, Probe, Snapshot, StartDispatcher, EndDispatcher, Finalise
  <1>4. CASE Spawn \/ Reap \/ \E r \in Runners : Acquire(r) \/ Finish(r)
    BY <1>2, <1>4 DEF Spawn, Reap, Acquire, Finish
  <1>5. ASSUME NEW r \in Runners, Attempt(r)
        PROVE  Grows
    <2>1. PICK k \in runner[r].todo, ok \in BOOLEAN :
                  ledger' = Append(ledger, [key |-> k, ok |-> ok])
      BY <1>5 DEF Attempt
    <2> [key |-> k, ok |-> ok] \in Row
      BY <1>5, <2>1 DEF LedgerTypes, Child, Row
    <2>2. Len(ledger') = Len(ledger) + 1 /\ \A i \in 1..Len(ledger) : ledger'[i] = ledger[i]
      BY <2>1, <1>1, AppendProperties DEF LedgerTypes
    <2>3. QED
      BY <1>1, <1>5, <2>2 DEF Attempt, Grows, Resolved
  <1>6. ASSUME NEW k \in Keys, Declare(k) \/ Replace(k) \/ Replaced(k)
        PROVE  Grows
    <2>1. \A j \in Keys : Resolved(j) => Resolved(j)'
      BY <1>6 DEF Declare, Replace, Replaced, Resolved, LedgerTypes
    <2>2. ledger' = ledger /\ protected' = protected
      BY <1>6 DEF Declare, Replace, Replaced
    <2>3. QED
      BY <1>1, <2>1, <2>2 DEF Grows
  <1>7. CASE UNCHANGED vars
    BY <1>2, <1>7 DEF vars
  <1>8. QED
    BY <1>0, <1>a, <1>3, <1>4, <1>5, <1>6, <1>7 DEF Next

-----------------------------------------------------------------------------
(* The finalisers and the records they add.                                *)

Ats == {"none", "report", "write", "log", "add", "verify"}

\* The task of one finaliser changes, or the record of one writer.
Moved(f, at, w) ==
    /\ task' \in [Finalisers -> Task] /\ task'[f].at = at /\ task'[f].wave = w
    /\ \A q \in Finalisers : q # f => task'[q] = task[q]
RecordMoved(o, st, w) ==
    /\ adder' \in [Writers -> Adder] /\ adder'[o].st = st /\ adder'[o].wave = w
    /\ \A q \in Writers : q # o => adder'[q] = adder[q]

LEMMA TaskMoves ==
  ASSUME Types, NEW f \in Finalisers
  PROVE  /\ task[f] \in Task /\ task[f].wave \in Nat
         /\ \A at \in Ats : Go(f, at) => Moved(f, at, task[f].wave)
         /\ task' = [task EXCEPT ![f] = NoTask] => Moved(f, "none", 0)
         /\ \A w \in Nat : Begin(f, w) => \E at \in {"report", "log"} : Moved(f, at, w)
  <1>1. task \in [Finalisers -> Task] /\ task[f] \in Task
    BY DEF Types, ControlTypes
  <1>2. task[f].wave \in Nat
    BY <1>1 DEF Task
  <1>3. ASSUME NEW at \in Ats, Go(f, at)
        PROVE  Moved(f, at, task[f].wave)
    <2>1. [task[f] EXCEPT !.at = at] \in Task
      BY <1>1 DEF Task, Ats
    <2>2. task' = [task EXCEPT ![f] = [task[f] EXCEPT !.at = at]]
      BY <1>1, <1>3 DEF Go
    <2>3. [task[f] EXCEPT !.at = at].at = at /\ [task[f] EXCEPT !.at = at].wave = task[f].wave
      BY <1>1 DEF Task
    <2>4. QED
      BY <1>1, <2>1, <2>2, <2>3 DEF Moved
  <1>4. ASSUME task' = [task EXCEPT ![f] = NoTask]
        PROVE  Moved(f, "none", 0)
    BY <1>1, <1>4 DEF Moved, NoTask, Task
  <1>5. ASSUME NEW w \in Nat, Begin(f, w)
        PROVE  \E at \in {"report", "log"} : Moved(f, at, w)
    <2>1. PICK at \in {"report", "log"} : task' = [task EXCEPT ![f] = [at |-> at, wave |-> w]]
      BY <1>5 DEF Begin
    <2>2. [at |-> at, wave |-> w] \in Task
      BY <2>1 DEF Task
    <2>3. QED
      BY <1>1, <2>1, <2>2 DEF Moved
  <1>6. QED
    BY <1>1, <1>2, <1>3, <1>4, <1>5

LEMMA RecordMoves ==
  ASSUME Types, NEW o \in Writers
  PROVE  /\ adder[o] \in Adder /\ adder[o].wave \in Nat /\ adder[o].base \in Nat
         /\ \A w \in Nat : StartAdding(o, w) => RecordMoved(o, "started", w)
         /\ adder' = [adder EXCEPT ![o] = [st |-> "read", wave |-> adder[o].wave,
                                           base |-> Len(log)]]
              => RecordMoved(o, "read", adder[o].wave)
         /\ adder' = [adder EXCEPT ![o] = NoRecord] => RecordMoved(o, "none", 0)
  <1>1. adder \in [Writers -> Adder] /\ adder[o] \in Adder
    BY DEF Types, ControlTypes
  <1>2. adder[o].wave \in Nat /\ adder[o].base \in Nat
    BY <1>1 DEF Adder
  <1>3. Len(log) \in Nat
    BY LenProperties DEF Types, ControlTypes
  <1>4. \A st \in {"none", "started", "read"}, w, b \in Nat :
           adder' = [adder EXCEPT ![o] = [st |-> st, wave |-> w, base |-> b]]
             => RecordMoved(o, st, w)
    <2> SUFFICES ASSUME NEW st \in {"none", "started", "read"}, NEW w \in Nat, NEW b \in Nat,
                        adder' = [adder EXCEPT ![o] = [st |-> st, wave |-> w, base |-> b]]
                 PROVE  RecordMoved(o, st, w)
      OBVIOUS
    <2>1. [st |-> st, wave |-> w, base |-> b] \in Adder
      BY DEF Adder
    <2>2. QED
      BY <1>1, <2>1 DEF RecordMoved
  <1>5. QED
    BY <1>1, <1>2, <1>3, <1>4 DEF StartAdding, NoRecord

\* What a step does to the records and the log.
Starts(o, w) ==
    /\ RecordMoved(o, "started", w) /\ log' = log
    /\ w \in Nat /\ Loggable(w) /\ raced \subseteq raced' /\ raced' \subseteq Nat
    /\ w # 0 => w \notin Logged /\ (Adding(w) => w \in raced')
Appends(o) ==
    /\ adder[o].st = "read" /\ RecordMoved(o, "none", 0) /\ raced' = raced
    /\ log' = Append(log, [wave |-> adder[o].wave, prev |-> adder[o].base])
Reads(o) ==
    /\ adder[o].st # "none" /\ RecordMoved(o, "read", adder[o].wave)
    /\ raced' = raced /\ log' = log
Drops(o) == RecordMoved(o, "none", 0) /\ raced' = raced /\ log' = log
Orphans(f) ==
    /\ f # "orphan" /\ adder[f].st # "none" /\ adder["orphan"].st = "none"
    /\ adder' \in [Writers -> Adder] /\ adder'[f].st = "none" /\ adder'["orphan"] = adder[f]
    /\ \A q \in Writers : q \notin {f, "orphan"} => adder'[q] = adder[q]
    /\ raced' = raced /\ log' = log
RecordStep ==
    \/ UNCHANGED logging
    \/ \E o \in Writers : \E w \in Nat : Starts(o, w)
    \/ \E o \in Writers : Reads(o) \/ Appends(o) \/ Drops(o) \/ Orphans(o)

LEMMA RecordSteps ==
  ASSUME Types, WavesInHand, [Next]_vars
  PROVE  RecordStep
  <1>1. ASSUME NEW f \in Finalisers, LookUp(f)
        PROVE  RecordStep
    <2> DEFINE w == task[f].wave
    <2>1. CASE UNCHANGED <<log, adder, raced>>
      BY <2>1 DEF RecordStep, logging
    <2>2. CASE /\ w \notin Logged /\ (protected \/ w \in reports)
               /\ StartAdding(f, w) /\ log' = log
               /\ raced' = IF Adding(w) THEN raced \cup {w} ELSE raced
      <3>1. f \in Writers
        BY DEF Writers
      <3>2. w \in Nat
        BY TaskMoves
      <3>3. Loggable(w)
        <4>1. task[f].at # "none"
          BY <1>1 DEF LookUp
        <4>2. Whole(w)
          BY <4>1 DEF WavesInHand
        <4>3. QED
          BY <2>2, <4>2 DEF Whole, Loggable
      <3>4. RecordMoved(f, "started", w)
        BY <2>2, <3>1, <3>2, RecordMoves
      <3>5. raced \subseteq Nat
        BY DEF Types, ControlTypes
      <3> HIDE DEF w
      <3>6. Starts(f, w)
        BY <2>2, <3>2, <3>3, <3>4, <3>5 DEF Starts
      <3>7. QED
        BY <3>1, <3>2, <3>6 DEF RecordStep
    <2>3. QED
      BY <1>1, <2>1, <2>2 DEF LookUp
  <1>2. ASSUME NEW o \in Writers, ReadLog(o)
        PROVE  RecordStep
    <2>1. Reads(o) \/ Drops(o)
      BY <1>2, RecordMoves DEF ReadLog, Reads, Drops
    <2>2. QED
      BY <2>1 DEF RecordStep
  <1>3. ASSUME NEW o \in Writers, AppendRecord(o)
        PROVE  RecordStep
    <2>1. Appends(o)
      BY <1>3, RecordMoves DEF AppendRecord, Appends
    <2>2. QED
      BY <2>1 DEF RecordStep
  <1>4. ASSUME NEW f \in Finalisers, Kill(f)
        PROVE  RecordStep
    <2>1. f \in Writers /\ "orphan" \in Writers /\ f # "orphan"
      BY DEF Writers, Finalisers
    <2>2. CASE adder' = [adder EXCEPT ![f] = NoRecord]
      <3>1. Drops(f)
        BY <1>4, <2>1, <2>2, RecordMoves DEF Kill, Drops
      <3>2. QED
        BY <2>1, <3>1 DEF RecordStep
    <2>3. CASE /\ adder[f].st # "none" /\ adder["orphan"].st = "none"
               /\ adder' = [adder EXCEPT ![f] = NoRecord, !["orphan"] = adder[f]]
      <3>1. adder \in [Writers -> Adder] /\ NoRecord \in Adder /\ NoRecord.st = "none"
        BY DEF Types, ControlTypes, NoRecord, Adder
      <3>2. /\ adder' \in [Writers -> Adder] /\ adder'[f] = NoRecord /\ adder'["orphan"] = adder[f]
            /\ \A q \in Writers : q \notin {f, "orphan"} => adder'[q] = adder[q]
        BY <2>1, <2>3, <3>1
      <3>3. raced' = raced /\ log' = log
        BY <1>4 DEF Kill
      <3>4. Orphans(f)
        BY <2>1, <2>3, <3>1, <3>2, <3>3 DEF Orphans
      <3>5. QED
        BY <2>1, <3>4 DEF RecordStep
    <2>4. QED
      BY <1>4, <2>2, <2>3 DEF Kill, Leaves
  <1>5. ASSUME NEW k \in Keys, Declare(k)
        PROVE  RecordStep
    <2>1. "declarer" \in Writers
      BY DEF Writers
    <2>2. RecordMoved("declarer", "started", 0)
      BY <1>5, <2>1, RecordMoves DEF Declare
    <2>3. Loggable(0) /\ raced' = raced /\ log' = log /\ raced \subseteq Nat
      BY <1>5 DEF Declare, Loggable, Types, ControlTypes
    <2>5. Starts("declarer", 0)
      BY <2>2, <2>3 DEF Starts
    <2>4. QED
      BY <2>1, <2>5 DEF RecordStep
  <1>6. ASSUME NEW f \in Finalisers, FindReport(f) \/ WriteReport(f) \/ VerifyLog(f)
        PROVE  UNCHANGED logging
    BY <1>6 DEF FindReport, WriteReport, VerifyLog
  <1>7. CASE \/ Start \/ Spawn \/ Reap \/ Look \/ Probe \/ Snapshot
             \/ StartDispatcher \/ EndDispatcher \/ \E w \in 1..Waves : Finalise(w)
    BY <1>7 DEF RecordStep, Start, Spawn, Reap, Look, Probe, Snapshot, StartDispatcher,
                EndDispatcher, Finalise
  <1>8. CASE \E r \in Runners : Acquire(r) \/ Attempt(r) \/ Finish(r)
    BY <1>8 DEF RecordStep, Acquire, Attempt, Finish
  <1>9. CASE \E k \in Keys : Replace(k) \/ Replaced(k)
    BY <1>9 DEF RecordStep, Replace, Replaced
  <1>10. CASE UNCHANGED vars
    BY <1>10 DEF RecordStep, vars
  <1>11. QED
    BY <1>1, <1>2, <1>3, <1>4, <1>5, <1>6, <1>7, <1>8, <1>9, <1>10 DEF Next, RecordStep

-----------------------------------------------------------------------------
(* Types of what the controller, the log and the monitor keep.             *)

LEMMA LogGrows ==
  ASSUME NEW rows \in Seq(Record), NEW row \in Record
  PROVE  /\ Append(rows, row) \in Seq(Record)
         /\ Len(rows) \in Nat /\ Len(Append(rows, row)) = Len(rows) + 1
         /\ DOMAIN rows = 1..Len(rows) /\ DOMAIN Append(rows, row) = 1..(Len(rows) + 1)
         /\ \A i \in 1..Len(rows) : Append(rows, row)[i] = rows[i]
         /\ Append(rows, row)[Len(rows) + 1] = row
  BY AppendProperties, LenProperties

LEMMA RecordsTyped ==
  ASSUME Types, RecordStep
  PROVE  adder' \in [Writers -> Adder] /\ log' \in Seq(Record) /\ raced' \subseteq Nat
  <1>1. log \in Seq(Record) /\ adder \in [Writers -> Adder] /\ raced \subseteq Nat
    BY DEF Types, ControlTypes
  <1>2. CASE UNCHANGED logging
    BY <1>1, <1>2 DEF logging
  <1>3. CASE \E o \in Writers : \E w \in Nat : Starts(o, w)
    BY <1>1, <1>3 DEF Starts, RecordMoved
  <1>4. CASE \E o \in Writers : Reads(o) \/ Drops(o) \/ Orphans(o)
    BY <1>1, <1>4 DEF Reads, Drops, Orphans, RecordMoved
  <1>5. ASSUME NEW o \in Writers, Appends(o)
        PROVE  adder' \in [Writers -> Adder] /\ log' \in Seq(Record) /\ raced' \subseteq Nat
    <2>1. [wave |-> adder[o].wave, prev |-> adder[o].base] \in Record
      BY RecordMoves DEF Record
    <2>2. log' \in Seq(Record)
      BY <1>1, <1>5, <2>1, LogGrows DEF Appends
    <2>3. QED
      BY <1>1, <1>5, <2>2 DEF Appends, RecordMoved
  <1>6. QED
    BY <1>2, <1>3, <1>4, <1>5 DEF RecordStep

\* A finaliser takes a wave in hand when the ledger holds all of it, keeps it until
\* its record is in the log, and calls one research_log.py meanwhile.
Handed ==
    /\ task' \in [Finalisers -> Task]
    /\ \A f \in Finalisers : task'[f].at # "none" => Whole(task'[f].wave)
    /\ Called' /\ pc' \in {"down", "finalise", "spawn", "wait"}

\* One finaliser moves, and its record with it.
LEMMA HandMoved ==
  ASSUME Types, WavesInHand, Called, NEW f \in Finalisers, NEW at, NEW w, Moved(f, at, w),
         at # "none" => Whole(w),
         adder'[f].st # "none" => at = "add",
         \A q \in Finalisers : q # f /\ adder'[q].st # "none" => adder[q].st # "none",
         pc' \in {"down", "finalise", "spawn", "wait"},
         f = "controller" => (at # "none" => pc' = "finalise"),
         f # "controller" => pc' = pc
  PROVE  Handed
  BY DEF Handed, Moved, Called, WavesInHand, Finalisers

LEMMA HandKept ==
  ASSUME Types, WavesInHand, Called, task' = task,
         \A q \in Finalisers : adder'[q].st # "none" => adder[q].st # "none",
         pc' \in {"down", "finalise", "spawn", "wait"}, pc' = "finalise" \/ pc # "finalise"
  PROVE  Handed
  BY DEF Handed, Called, WavesInHand, Types, ControlTypes

LEMMA ScriptEnds ==
  ASSUME Types, NEW f \in Finalisers, Finished(f) \/ Failed(f)
  PROVE  /\ Moved(f, "none", 0) /\ pc' \in {"down", "finalise", "spawn", "wait"}
         /\ f # "controller" => pc' = pc
  <1>1. pc \in {"down", "finalise", "spawn", "wait"}
    BY DEF Types, ControlTypes
  <1>2. QED
    BY <1>1, TaskMoves DEF Finished, Failed, Stop, control

LEMMA HandStep ==
  ASSUME Types, WavesInHand, Called, [Next]_vars
  PROVE  Handed
  <1>0. pc \in {"down", "finalise", "spawn", "wait"} /\ seen \in Nat
    BY DEF Types, ControlTypes
  <1>1. ASSUME NEW f \in Finalisers, FindReport(f) \/ WriteReport(f) \/ VerifyLog(f)
        PROVE  Handed
    <2>1. adder' = adder /\ adder[f].st = "none" /\ Whole(task[f].wave)
          /\ (f = "controller" => pc = "finalise")
      BY <1>1 DEF FindReport, WriteReport, VerifyLog, logging, Called, WavesInHand
    <2>2. CASE Finished(f) \/ Failed(f)
      BY <2>1, <2>2, ScriptEnds, HandMoved
    <2>3. CASE pc' = pc /\ (Go(f, "log") \/ Go(f, "write"))
      <3>1. PICK at \in {"log", "write"} : Go(f, at)
        BY <2>3
      <3>2. Moved(f, at, task[f].wave)
        BY <3>1, TaskMoves DEF Ats
      <3>3. QED
        BY <1>0, <2>1, <2>3, <3>2, HandMoved
    <2>4. QED
      BY <1>1, <2>2, <2>3 DEF FindReport, WriteReport, VerifyLog, control
  <1>2. ASSUME NEW f \in Finalisers, LookUp(f)
        PROVE  Handed
    <2>1. adder[f].st = "none" /\ Whole(task[f].wave) /\ (f = "controller" => pc = "finalise")
      BY <1>2 DEF LookUp, Called, WavesInHand
    <2>2. CASE UNCHANGED adder /\ (Finished(f) \/ Failed(f))
      BY <2>1, <2>2, ScriptEnds, HandMoved
    <2>3. CASE StartAdding(f, task[f].wave) /\ Go(f, "add") /\ pc' = pc
      <3>1. Moved(f, "add", task[f].wave)
        BY <2>3, TaskMoves DEF Ats
      <3>2. f \in Writers /\ task[f].wave \in Nat
        BY TaskMoves DEF Writers
      <3>3. \A q \in Finalisers : q \in Writers
        BY DEF Writers
      <3>4. \A q \in Finalisers : q # f => adder'[q] = adder[q]
        BY <2>3, <3>2, <3>3, RecordMoves DEF RecordMoved
      <3>5. QED
        BY <1>0, <2>1, <2>3, <3>1, <3>4, HandMoved
    <2>4. QED
      BY <1>2, <2>2, <2>3 DEF LookUp, control
  <1>3. ASSUME NEW o \in Writers, ReadLog(o) \/ AppendRecord(o), o \in Finalisers
        PROVE  Handed
    <2>1. task[o].at = "add" /\ Whole(task[o].wave) /\ (o = "controller" => pc = "finalise")
      BY <1>3 DEF ReadLog, AppendRecord, Called, WavesInHand
    <2>2. \A q \in Finalisers : q \in Writers
      BY DEF Writers
    <2>3. CASE task' = task /\ pc' = pc
               /\ adder' = [adder EXCEPT ![o] =
                              [st |-> "read", wave |-> adder[o].wave, base |-> Len(log)]]
      <3>1. adder[o].st # "none"
        BY <1>3 DEF ReadLog, AppendRecord
      <3>2. \A q \in Finalisers : adder'[q].st # "none" => adder[q].st # "none"
        BY <2>2, <2>3, <3>1, RecordMoves DEF RecordMoved
      <3>3. QED
        BY <1>0, <2>3, <3>2, HandKept
    <2>4. CASE adder' = [adder EXCEPT ![o] = NoRecord] /\ Failed(o)
      <3>1. RecordMoved(o, "none", 0)
        BY <2>4, RecordMoves
      <3>2. adder'[o].st = "none" /\ \A q \in Finalisers : q # o => adder'[q] = adder[q]
        BY <2>2, <3>1 DEF RecordMoved
      <3>3. QED
        BY <1>3, <2>4, <3>2, ScriptEnds, HandMoved
    <2>5. CASE adder' = [adder EXCEPT ![o] = NoRecord] /\ Go(o, "verify") /\ pc' = pc
      <3>1. RecordMoved(o, "none", 0)
        BY <2>5, RecordMoves
      <3>2. adder'[o].st = "none" /\ \A q \in Finalisers : q # o => adder'[q] = adder[q]
        BY <2>2, <3>1 DEF RecordMoved
      <3>3. Moved(o, "verify", task[o].wave)
        BY <1>3, <2>5, TaskMoves DEF Ats
      <3>4. QED
        BY <1>0, <1>3, <2>1, <2>5, <3>2, <3>3, HandMoved
    <2>6. QED
      BY <1>3, <2>3, <2>4, <2>5 DEF ReadLog, AppendRecord, control
  <1>4. ASSUME NEW o \in Writers, ReadLog(o) \/ AppendRecord(o), o \notin Finalisers
        PROVE  Handed
    <2>1. \A q \in Finalisers : q \in Writers
      BY DEF Writers
    <2>2. task' = task /\ pc' = pc
      BY <1>4 DEF ReadLog, AppendRecord, control
    <2>3. \A q \in Finalisers : adder'[q] = adder[q]
      BY <1>4, <2>1, RecordMoves DEF ReadLog, AppendRecord, RecordMoved
    <2>4. QED
      BY <1>0, <2>2, <2>3, HandKept
  <1>5. ASSUME NEW f \in Finalisers, Kill(f)
        PROVE  Handed
    <2>1. "orphan" \notin Finalisers /\ \A q \in Finalisers : q \in Writers
      BY DEF Writers, Finalisers
    <2>2. adder \in [Writers -> Adder] /\ NoRecord.st = "none"
      BY DEF Types, ControlTypes, NoRecord
    <2>3. adder'[f].st = "none" /\ \A q \in Finalisers : q # f => adder'[q] = adder[q]
      <3>1. CASE adder' = [adder EXCEPT ![f] = NoRecord]
        BY <2>1, <2>2, <3>1
      <3>2. CASE adder' = [adder EXCEPT ![f] = NoRecord, !["orphan"] = adder[f]]
        BY <2>1, <2>2, <3>2
      <3>3. QED
        BY <1>5, <3>1, <3>2 DEF Kill, Leaves
    <2>4. QED
      BY <1>5, <2>3, ScriptEnds, HandMoved DEF Kill
  <1>6. CASE Start \/ Reap
    <2>1. /\ Len(ledger) \in Nat /\ WaveSize \in Nat \ {0}
          /\ Len(ledger) \div WaveSize \in Nat
          /\ (Len(ledger) \div WaveSize) * WaveSize <= Len(ledger)
          /\ Len(ledger) >= WaveSize => Len(ledger) \div WaveSize # 0
      BY Constants, Division, LenProperties DEF Types, LedgerTypes
    <2>2. pc # "finalise" /\ adder' = adder /\ "controller" \in Finalisers
          /\ adder["controller"].st = "none"
      BY <1>6 DEF Start, Reap, logging, Called, Finalisers
    <2>3. CASE pc' = "finalise" /\ Len(ledger) \div WaveSize # 0
               /\ Begin("controller", Len(ledger) \div WaveSize)
      <3>1. PICK at \in {"report", "log"} : Moved("controller", at, Len(ledger) \div WaveSize)
        BY <2>1, <2>2, <2>3, TaskMoves
      <3>2. Whole(Len(ledger) \div WaveSize)
        BY <2>1, <2>3 DEF Whole
      <3>3. QED
        BY <2>2, <2>3, <3>1, <3>2, HandMoved
    <2>4. CASE task' = task /\ pc' \in {"down", "spawn"}
      BY <2>2, <2>4, HandKept
    <2>5. CASE Start
      BY <2>3, <2>4, <2>5 DEF Start
    <2>6. CASE Reap
      <3>1. CASE Stop /\ task' = task
        BY <2>4, <3>1 DEF Stop
      <3>2. CASE /\ Len(ledger) = seen + WaveSize - (seen % WaveSize)
                 /\ pc' = "finalise" /\ Begin("controller", Len(ledger) \div WaveSize)
        <4>1. seen % WaveSize \in Nat /\ seen % WaveSize <= seen
          BY <1>0, <2>1
        <4>2. Len(ledger) >= WaveSize
          BY <1>0, <2>1, <3>2, <4>1
        <4>3. QED
          BY <2>1, <2>3, <3>2, <4>2
      <3>3. QED
        BY <2>6, <3>1, <3>2 DEF Reap
    <2>7. QED
      BY <1>6, <2>5, <2>6
  <1>7. ASSUME NEW w \in 1..Waves, Finalise(w)
        PROVE  Handed
    <2>1. adder' = adder /\ pc' = pc /\ "dispatcher" \in Finalisers /\ "dispatcher" # "controller"
      BY <1>7 DEF Finalise, logging, control, Finalisers
    <2>2. adder["dispatcher"].st = "none"
      BY <1>7, <2>1 DEF Finalise, Called, NoTask
    <2>3. w \in Nat /\ Whole(w)
      BY <1>7, Constants DEF Finalise, Whole
    <2>4. PICK at \in {"report", "log"} : Moved("dispatcher", at, w)
      BY <1>7, <2>1, <2>3, TaskMoves DEF Finalise
    <2>5. QED
      BY <1>0, <2>1, <2>2, <2>3, <2>4, HandMoved
  <1>8. CASE Spawn
    BY <1>8, HandKept DEF Spawn, Stop, logging
  <1>9. ASSUME task' = task, pc' = pc, adder' = adder
        PROVE  Handed
    BY <1>0, <1>9, HandKept
  <1>10. CASE StartDispatcher \/ EndDispatcher \/ Look \/ Probe \/ Snapshot
    BY <1>9, <1>10 DEF StartDispatcher, EndDispatcher, Look, Probe, Snapshot, control, logging
  <1>11. CASE \E r \in Runners : Acquire(r) \/ Attempt(r) \/ Finish(r)
    BY <1>9, <1>11 DEF Acquire, Attempt, Finish, control, logging
  <1>12. CASE \E k \in Keys : Replace(k) \/ Replaced(k)
    BY <1>9, <1>12 DEF Replace, Replaced, control, logging
  <1>13. ASSUME NEW k \in Keys, Declare(k)
         PROVE  Handed
    <2>1. "declarer" \in Writers /\ \A q \in Finalisers : q \in Writers /\ q # "declarer"
      BY DEF Writers, Finalisers
    <2>2. \A q \in Finalisers : adder'[q] = adder[q]
      BY <1>13, <2>1, RecordMoves DEF Declare, RecordMoved
    <2>3. QED
      BY <1>0, <1>13, <2>2, HandKept DEF Declare, control
  <1>14. CASE UNCHANGED vars
    BY <1>9, <1>14 DEF vars, control, logging
  <1>15. QED
    BY <1>1, <1>2, <1>3, <1>4, <1>5, <1>6, <1>7, <1>8, <1>10, <1>11, <1>12, <1>13, <1>14 DEF Next

-----------------------------------------------------------------------------
(* The reports.                                                            *)

ReportStep ==
    \/ reports' = reports
    \/ \E f \in Finalisers :
          /\ task[f].at # "none" /\ Usable(task[f].wave)
          /\ reports' = reports \cup {task[f].wave}

LEMMA ReportSteps ==
  ASSUME [Next]_vars
  PROVE  ReportStep
  <1>1. \A w : Reportable(w) => Usable(w)
    BY DEF Reportable, Usable
  <1>2. ASSUME NEW f \in Finalisers, WriteReport(f) \/ Kill(f)
        PROVE  ReportStep
    BY <1>1, <1>2 DEF ReportStep, WriteReport, Kill, Halves, reporting
  <1>3. ASSUME NEW f \in Finalisers, FindReport(f) \/ LookUp(f) \/ VerifyLog(f)
        PROVE  ReportStep
    BY <1>3 DEF ReportStep, FindReport, LookUp, VerifyLog, reporting
  <1>4. ASSUME NEW o \in Writers, ReadLog(o) \/ AppendRecord(o)
        PROVE  ReportStep
    BY <1>4 DEF ReportStep, ReadLog, AppendRecord, reporting
  <1>5. CASE \/ Start \/ Spawn \/ Reap \/ Look \/ Probe \/ Snapshot
             \/ StartDispatcher \/ EndDispatcher \/ \E w \in 1..Waves : Finalise(w)
    BY <1>5 DEF ReportStep, Start, Spawn, Reap, Look, Probe, Snapshot, StartDispatcher,
                EndDispatcher, Finalise, reporting
  <1>6. CASE \E r \in Runners : Acquire(r) \/ Attempt(r) \/ Finish(r)
    BY <1>6 DEF ReportStep, Acquire, Attempt, Finish, reporting
  <1>7. CASE \E k \in Keys : Declare(k) \/ Replace(k) \/ Replaced(k)
    BY <1>7 DEF ReportStep, Declare, Replace, Replaced, reporting
  <1>8. CASE UNCHANGED vars
    BY <1>8 DEF ReportStep, vars, reporting
  <1>9. QED
    BY <1>2, <1>3, <1>4, <1>5, <1>6, <1>7, <1>8 DEF Next

\* The controller's count and the monitor's view.
LEMMA CountTyped ==
  ASSUME Types, [Next]_vars
  PROVE  seen' \in Nat /\ view' \in Nat \cup {NotRead} /\ view' <= Len(ledger')
  <1> USE DEF Types, ControlTypes
  <1>1. Len(ledger) \in Nat /\ 0 \in Nat /\ seen \in Nat
    BY LenProperties DEF LedgerTypes
  <1>2. Len(ledger') \in Nat /\ Len(ledger) <= Len(ledger')
    BY LedgerTyped, LedgerGrows, LenProperties DEF LedgerTypes, Grows
  <1>3. CASE UNCHANGED <<seen, view>>
    BY <1>1, <1>2, <1>3 DEF NotRead
  <1>4. CASE Start \/ Spawn \/ Reap
    BY <1>1, <1>2, <1>4 DEF Start, Spawn, Reap, Stop, NotRead
  <1>5. CASE Look \/ Snapshot
    BY <1>1, <1>2, <1>5 DEF Look, Snapshot, control, NotRead
  <1>6. ASSUME NEW f \in Finalisers, Finished(f) \/ Failed(f) \/ UNCHANGED control
        PROVE  seen' \in Nat
    BY <1>1, <1>6 DEF Finished, Failed, Stop, control
  <1>7. ASSUME NEW f \in Finalisers, FindReport(f) \/ WriteReport(f) \/ LookUp(f)
                                        \/ VerifyLog(f) \/ Kill(f)
        PROVE  seen' \in Nat /\ view' = view
    BY <1>6, <1>7 DEF FindReport, WriteReport, LookUp, VerifyLog, Kill
  <1>8. ASSUME NEW o \in Writers, ReadLog(o) \/ AppendRecord(o)
        PROVE  seen' \in Nat /\ view' = view
    BY <1>1, <1>6, <1>8 DEF ReadLog, AppendRecord, control
  <1>9. view' = view => view' \in Nat \cup {NotRead} /\ view' <= Len(ledger')
    BY <1>1, <1>2 DEF NotRead
  <1>10. CASE Probe \/ StartDispatcher \/ EndDispatcher \/ \E w \in 1..Waves : Finalise(w)
    BY <1>3, <1>10 DEF Probe, StartDispatcher, EndDispatcher, Finalise, control
  <1>11. CASE \E r \in Runners : Acquire(r) \/ Attempt(r) \/ Finish(r)
    BY <1>3, <1>11 DEF Acquire, Attempt, Finish, control
  <1>12. CASE \E k \in Keys : Declare(k) \/ Replace(k) \/ Replaced(k)
    BY <1>3, <1>12 DEF Declare, Replace, Replaced, control
  <1>13. CASE UNCHANGED vars
    BY <1>3, <1>13 DEF vars, control
  <1>14. QED
    BY <1>4, <1>5, <1>7, <1>8, <1>9, <1>10, <1>11, <1>12, <1>13 DEF Next

LEMMA TypesHeld ==
  ASSUME Types, WavesInHand, Called, [Next]_vars
  PROVE  Types'
  <1>1. LedgerTypes'
    BY LedgerTyped DEF Types
  <1>2. reports' \subseteq Nat \ {0}
    <2>1. ASSUME NEW f \in Finalisers, task[f].at # "none"
          PROVE  task[f].wave \in Nat \ {0}
      BY <2>1, TaskMoves DEF WavesInHand, Whole
    <2>2. reports \subseteq Nat \ {0}
      BY DEF Types, ControlTypes
    <2>3. QED
      BY <2>1, <2>2, ReportSteps DEF ReportStep
  <1>3. ControlTypes'
    BY <1>2, RecordSteps, RecordsTyped, HandStep, CountTyped DEF ControlTypes, Handed
  <1>4. QED
    BY <1>1, <1>3 DEF Types

LEMMA HandsHeld ==
  ASSUME Types, WavesInHand, Called, [Next]_vars
  PROVE  WavesInHand' /\ Called'
  <1>1. /\ Len(ledger) \in Nat /\ Len(ledger') \in Nat /\ Len(ledger) <= Len(ledger')
        /\ WaveSize \in Nat
    BY LedgerTyped, LedgerGrows, LenProperties, Constants DEF Types, LedgerTypes, Grows
  <1>2. \A w \in Nat : Whole(w) => Whole(w)'
    BY <1>1 DEF Whole
  <1>3. \A f \in Finalisers : task'[f].wave \in Nat
    BY HandStep DEF Handed, Task
  <1>4. QED
    BY <1>2, <1>3, HandStep DEF Handed, WavesInHand

LEMMA ReportsHeld ==
  ASSUME Types, WavesInHand, Called, ReportsResolved, [Next]_vars
  PROVE  ReportsResolved'
  <1>1. Grows /\ Types'
    BY LedgerGrows, TypesHeld DEF Types
  <1>2. ASSUME NEW w \in reports'
        PROVE  w \in Nat \ {0} /\ w * WaveSize <= Len(ledger) /\ Usable(w)
    <2>1. CASE w \in reports
      BY <2>1 DEF ReportsResolved, Types, ControlTypes
    <2>2. CASE w \notin reports
      <3>1. PICK f \in Finalisers : task[f].at # "none" /\ Usable(task[f].wave) /\ w = task[f].wave
        BY <1>2, <2>2, ReportSteps DEF ReportStep
      <3>2. QED
        BY <3>1, TaskMoves DEF WavesInHand, Whole
    <2>3. QED
      BY <2>1, <2>2
  <1>3. \A w \in reports' : w * WaveSize <= Len(ledger') /\ Usable(w)'
    BY <1>1, <1>2, WaveStays
  <1>4. QED
    BY <1>3 DEF ReportsResolved

-----------------------------------------------------------------------------
(* The log.                                                                *)

\* Every record that is being added after a step was being added before it, or has
\* just been started, and is loggable.
LEMMA AddersLoggable ==
  ASSUME Types, LogFollowsReports, RecordStep, NEW o \in Writers, adder'[o].st # "none"
  PROVE  adder'[o].wave \in Nat /\ Loggable(adder'[o].wave)
  <1>1. \A q \in Writers : adder[q].wave \in Nat
    BY RecordMoves
  <1>2. \A q \in Writers : adder[q].st # "none" => Loggable(adder[q].wave)
    BY DEF LogFollowsReports
  <1>3. CASE UNCHANGED logging
    BY <1>1, <1>2, <1>3 DEF logging
  <1>4. ASSUME NEW q \in Writers, NEW w \in Nat, Starts(q, w)
        PROVE  adder'[o].wave \in Nat /\ Loggable(adder'[o].wave)
    BY <1>1, <1>2, <1>4 DEF Starts, RecordMoved
  <1>5. ASSUME NEW q \in Writers, Reads(q) \/ Appends(q) \/ Drops(q)
        PROVE  adder'[o].wave \in Nat /\ Loggable(adder'[o].wave)
    BY <1>1, <1>2, <1>5 DEF Reads, Appends, Drops, RecordMoved
  <1>6. ASSUME NEW f \in Writers, Orphans(f)
        PROVE  adder'[o].wave \in Nat /\ Loggable(adder'[o].wave)
    BY <1>1, <1>2, <1>6 DEF Orphans
  <1>7. QED
    BY <1>3, <1>4, <1>5, <1>6 DEF RecordStep

\* A record is appended at the end, and that is all a step does to the log.
LEMMA LogSteps ==
  ASSUME Types, RecordStep
  PROVE  \/ log' = log
         \/ \E o \in Writers :
               /\ adder[o].st # "none" /\ Appends(o) /\ Len(log) \in Nat
               /\ DOMAIN log = 1..Len(log) /\ DOMAIN log' = 1..(Len(log) + 1)
               /\ \A i \in DOMAIN log : log'[i] = log[i] /\ log'[i].wave = log[i].wave
               /\ log'[Len(log) + 1].wave = adder[o].wave
  <1>1. CASE log' = log
    BY <1>1
  <1>2. ASSUME NEW o \in Writers, Appends(o)
        PROVE  /\ adder[o].st # "none" /\ Appends(o) /\ Len(log) \in Nat
               /\ DOMAIN log = 1..Len(log) /\ DOMAIN log' = 1..(Len(log) + 1)
               /\ \A i \in DOMAIN log : log'[i] = log[i] /\ log'[i].wave = log[i].wave
               /\ log'[Len(log) + 1].wave = adder[o].wave
    <2> DEFINE row == [wave |-> adder[o].wave, prev |-> adder[o].base]
    <2>1. row \in Record /\ row.wave = adder[o].wave
      BY RecordMoves DEF Record
    <2>2. log \in Seq(Record) /\ log' = Append(log, row) /\ adder[o].st # "none"
      BY <1>2 DEF Appends, Types, ControlTypes
    <2> HIDE DEF row
    <2>3. /\ Len(log) \in Nat /\ DOMAIN log = 1..Len(log) /\ DOMAIN log' = 1..(Len(log) + 1)
          /\ \A i \in 1..Len(log) : log'[i] = log[i]
          /\ log'[Len(log) + 1] = row
      BY <2>1, <2>2, LogGrows
    <2>4. QED
      BY <1>2, <2>1, <2>2, <2>3
  <1>3. QED
    BY <1>1, <1>2 DEF RecordStep, Starts, Reads, Drops, Orphans, logging

LEMMA LogHeld ==
  ASSUME Types, WavesInHand, Called, LogFollowsReports, [Next]_vars
  PROVE  LogFollowsReports'
  <1>1. RecordStep
    BY RecordSteps
  <1>2. Grows /\ Types'
    BY LedgerGrows, TypesHeld DEF Types
  <1>3. /\ Len(ledger) \in Nat /\ Len(ledger') \in Nat /\ Len(ledger) <= Len(ledger')
        /\ WaveSize \in Nat
    BY <1>2, LenProperties, Constants DEF Types, LedgerTypes, Grows
  <1>4. reports \subseteq reports' /\ protected' = protected
    BY <1>2, ReportSteps DEF ReportStep, Grows
  <1>5. \A w \in Nat : Loggable(w) => Loggable(w)'
    BY <1>3, <1>4 DEF Loggable
  <1>6. \A w \in Nat, o \in Writers :
           adder'[o].st # "none" /\ adder'[o].wave = w => Loggable(w)'
    <2>1. \A o \in Writers : adder'[o].st # "none" =>
             adder'[o].wave \in Nat /\ Loggable(adder'[o].wave)
      BY <1>1, AddersLoggable
    <2>2. QED
      BY <1>5, <2>1
  <1>7. \A i \in DOMAIN log' : log'[i].wave \in Nat /\ Loggable(log'[i].wave)
    <2>1. \A i \in DOMAIN log : log[i].wave \in Nat /\ Loggable(log[i].wave)
      <3>1. log \in Seq(Record)
        BY DEF Types, ControlTypes
      <3>2. \A i \in DOMAIN log : log[i] \in Record
        BY <3>1, ElementOfSeq, LenProperties
      <3>3. QED
        BY <3>2 DEF Record, LogFollowsReports
    <2>2. \A o \in Writers : adder[o].st # "none" =>
              adder[o].wave \in Nat /\ Loggable(adder[o].wave)
      BY RecordMoves DEF LogFollowsReports
    <2>3. CASE log' = log
      BY <2>1, <2>3
    <2>4. ASSUME NEW o \in Writers, adder[o].st # "none", Len(log) \in Nat,
                 DOMAIN log = 1..Len(log), DOMAIN log' = 1..(Len(log) + 1),
                 \A i \in DOMAIN log : log'[i].wave = log[i].wave,
                 log'[Len(log) + 1].wave = adder[o].wave
          PROVE  \A i \in DOMAIN log' : log'[i].wave \in Nat /\ Loggable(log'[i].wave)
      <3>1. \A i \in DOMAIN log' : i \in DOMAIN log \/ i = Len(log) + 1
        BY <2>4
      <3>2. QED
        BY <2>1, <2>2, <2>4, <3>1
    <2>5. QED
      BY <1>1, <2>3, <2>4, LogSteps
  <1>8. \A w \in Nat, i \in DOMAIN log' : log'[i].wave = w => Loggable(w)'
    BY <1>5, <1>7
  <1>9. \A o \in Writers : adder'[o].wave \in Nat
    BY <1>1, RecordsTyped DEF Adder
  <1>10. QED
    BY <1>6, <1>7, <1>8, <1>9 DEF LogFollowsReports

LEMMA ApartHeld ==
  ASSUME Types, RecordStep, AddersApart
  PROVE  AddersApart'
  <1>0. raced \subseteq raced'
    BY DEF RecordStep, Starts, Reads, Appends, Drops, Orphans, logging
  <1>1. CASE UNCHANGED logging
    BY <1>1 DEF logging, AddersApart, Raced
  <1>2. ASSUME NEW o \in Writers, NEW w \in Nat, Starts(o, w)
        PROVE  AddersApart'
    <2>1. adder'[o].wave = w /\ \A q \in Writers : q # o => adder'[q] = adder[q]
      BY <1>2 DEF Starts, RecordMoved
    <2>2. ASSUME NEW q \in Writers, q # o, adder[q].st # "none", adder[q].wave = w
          PROVE  Raced(w)'
      BY <1>2, <2>2 DEF Starts, Adding, Raced
    <2>3. QED
      BY <1>0, <2>1, <2>2 DEF AddersApart, Raced
  <1>3. ASSUME NEW o \in Writers, Reads(o) \/ Appends(o) \/ Drops(o)
        PROVE  AddersApart'
    BY <1>0, <1>3 DEF Reads, Appends, Drops, RecordMoved, AddersApart, Raced
  <1>4. ASSUME NEW f \in Writers, Orphans(f)
        PROVE  AddersApart'
    <2>1. "orphan" \in Writers
      BY DEF Writers
    <2>2. QED
      BY <1>0, <1>4, <2>1 DEF Orphans, AddersApart, Raced
  <1>5. QED
    BY <1>1, <1>2, <1>3, <1>4 DEF RecordStep

\* The waves of the log after a step.
LEMMA LoggedStep ==
  ASSUME Types, RecordStep
  PROVE  \/ log' = log /\ Logged' = Logged
         \/ \E o \in Writers :
               /\ adder[o].st # "none" /\ Appends(o)
               /\ \A w \in Logged' : w \in Logged \/ w = adder[o].wave
  <1>1. CASE log' = log
    BY <1>1 DEF Logged
  <1>2. ASSUME NEW o \in Writers, adder[o].st # "none", Appends(o), Len(log) \in Nat,
               DOMAIN log = 1..Len(log), DOMAIN log' = 1..(Len(log) + 1),
               \A i \in DOMAIN log : log'[i].wave = log[i].wave,
               log'[Len(log) + 1].wave = adder[o].wave
        PROVE  \A w \in Logged' : w \in Logged \/ w = adder[o].wave
    <2>1. \A i \in DOMAIN log' : i \in DOMAIN log \/ i = Len(log) + 1
      BY <1>2
    <2>2. QED
      BY <1>2, <2>1 DEF Logged
  <1>3. QED
    BY <1>1, <1>2, LogSteps

LEMMA FreshHeld ==
  ASSUME Types, RecordStep, AddersApart, AddersFresh
  PROVE  AddersFresh'
  <1>1. CASE UNCHANGED logging
    BY <1>1 DEF logging, AddersFresh, Raced, Logged
  <1>2. ASSUME NEW o \in Writers, NEW w \in Nat, Starts(o, w)
        PROVE  AddersFresh'
    <2>1. /\ Logged' = Logged /\ raced \subseteq raced' /\ (w # 0 => w \notin Logged)
          /\ adder'[o].wave = w /\ \A q \in Writers : q # o => adder'[q] = adder[q]
      BY <1>2 DEF Starts, RecordMoved, Logged
    <2>2. QED
      BY <2>1 DEF AddersFresh, Raced
  <1>3. ASSUME NEW o \in Writers, Reads(o) \/ Drops(o)
        PROVE  AddersFresh'
    <2>1. Logged' = Logged
      BY <1>3 DEF Reads, Drops, Logged
    <2>2. QED
      BY <1>3, <2>1 DEF Reads, Drops, RecordMoved, AddersFresh, Raced
  <1>4. ASSUME NEW f \in Writers, Orphans(f)
        PROVE  AddersFresh'
    <2>1. Logged' = Logged /\ "orphan" \in Writers
      BY <1>4 DEF Orphans, Logged, Writers
    <2>2. QED
      BY <1>4, <2>1 DEF Orphans, AddersFresh, Raced
  <1>5. ASSUME NEW o \in Writers, Appends(o), adder[o].st # "none",
               \A w \in Logged' : w \in Logged \/ w = adder[o].wave
        PROVE  AddersFresh'
    <2>1. ASSUME NEW q \in Writers, NEW w, w = adder'[q].wave,
                 adder'[q].st # "none", w \in Logged'
          PROVE  Raced(w)'
      <3>1. q # o /\ adder'[q] = adder[q] /\ raced' = raced
        BY <1>5, <2>1 DEF Appends, RecordMoved
      <3>2. CASE adder[q].wave \in Logged
        BY <2>1, <3>1, <3>2 DEF AddersFresh, Raced
      <3>3. CASE adder[q].wave = adder[o].wave
        BY <1>5, <2>1, <3>1, <3>3 DEF AddersApart, Raced
      <3>4. QED
        BY <1>5, <2>1, <3>1, <3>2, <3>3
    <2>2. QED
      BY <2>1 DEF AddersFresh
  <1>6. ASSUME NEW o \in Writers, Appends(o)
        PROVE  AddersFresh'
    <2>1. adder'[o].st = "none" /\ raced' = raced /\ \A q \in Writers : q # o => adder'[q] = adder[q]
      BY <1>6 DEF Appends, RecordMoved
    <2>2. CASE Logged' = Logged
      BY <2>1, <2>2 DEF AddersFresh, Raced
    <2>3. QED
      BY <1>5, <2>2, LoggedStep
  <1>7. QED
    BY <1>1, <1>2, <1>3, <1>4, <1>6 DEF RecordStep

LEMMA OnceHeld ==
  ASSUME Types, RecordStep, AddersFresh, LoggedOnceApart
  PROVE  LoggedOnceApart'
  <1>0. raced \subseteq raced'
    BY DEF RecordStep, Starts, Reads, Appends, Drops, Orphans, logging
  <1>1. CASE log' = log
    BY <1>0, <1>1 DEF LoggedOnceApart
  <1>2. ASSUME NEW o \in Writers, adder[o].st # "none", Len(log) \in Nat,
               DOMAIN log = 1..Len(log), DOMAIN log' = 1..(Len(log) + 1),
               \A i \in DOMAIN log : log'[i].wave = log[i].wave,
               log'[Len(log) + 1].wave = adder[o].wave
        PROVE  LoggedOnceApart'
    <2>1. \A i \in DOMAIN log' : i \in DOMAIN log \/ i = Len(log) + 1
      BY <1>2
    <2>2. ASSUME NEW i \in DOMAIN log, log[i].wave = adder[o].wave
          PROVE  adder[o].wave \in raced \cup {0}
      BY <1>2, <2>2 DEF AddersFresh, Raced, Logged
    <2>3. QED
      BY <1>0, <1>2, <2>1, <2>2 DEF LoggedOnceApart
  <1>3. QED
    BY <1>1, <1>2, LogSteps

-----------------------------------------------------------------------------
LEMMA InitInv == Init => IInv
  <1> SUFFICES ASSUME Init PROVE IInv
    OBVIOUS
  <1>1. LedgerTypes
    BY DEF Init, LedgerTypes, Idle, Child, Repairs
  <1>2. Len(ledger) \in Nat
    BY <1>1, LenProperties DEF LedgerTypes
  <1>3. /\ \A f \in Finalisers : task[f].at = "none"
        /\ \A o \in Writers : adder[o].st = "none"
    BY DEF Init, NoTask, NoRecord
  <1>4. task \in [Finalisers -> Task] /\ adder \in [Writers -> Adder]
    BY DEF Init, NoTask, NoRecord, Task, Adder
  <1>5. ControlTypes
    BY <1>2, <1>4 DEF Init, ControlTypes, NotRead
  <1>6. DOMAIN log = {} /\ reports = {}
    BY DEF Init
  <1>7. "controller" \in Finalisers /\ Finalisers \subseteq Writers
    BY DEF Finalisers, Writers
  <1>8. WavesInHand /\ Called /\ ReportsResolved
    BY <1>3, <1>6, <1>7 DEF WavesInHand, Called, ReportsResolved
  <1>9. LogFollowsReports /\ AddersApart /\ AddersFresh /\ LoggedOnceApart
    BY <1>3, <1>6 DEF LogFollowsReports, AddersApart, AddersFresh, LoggedOnceApart
  <1>10. QED
    BY <1>1, <1>5, <1>8, <1>9 DEF IInv, Types

LEMMA StepInv == IInv /\ [Next]_vars => IInv'
  BY RecordSteps, TypesHeld, HandsHeld, ReportsHeld, LogHeld, ApartHeld, FreshHeld, OnceHeld
     DEF IInv

LEMMA AlwaysInv == Spec => []IInv
  BY InitInv, StepInv, PTL DEF Spec

-----------------------------------------------------------------------------
\* LoggedOnceApart: however often the controller and a dispatcher are killed between
\* the report of a wave, its look-up, the two steps of research_log.py and their next
\* start (finalize_wave of run_balanced_pilot_continuous.py), a wave gets a second
\* record only if it was looked up while a research_log.py was adding it.
THEOREM LoggedOnceUnlessRaced == Spec => []LoggedOnceApart
  <1>1. IInv => LoggedOnceApart
    BY DEF IInv
  <1>2. QED
    BY <1>1, AlwaysInv, PTL

\* A logged wave is whole in the ledger, and outside confirmatory campaigns each
\* of its rows is a valid episode or has a replacement that left a summary.
THEOREM LoggedIsResolved == Spec => []LoggedResolved
  <1>1. ASSUME IInv
        PROVE  LoggedResolved
    <2>1. ASSUME NEW w \in Logged \ {0}
          PROVE  /\ w \in Nat \ {0} /\ w * WaveSize <= Len(ledger)
                 /\ protected \/ w \in reports
      <3>1. PICK i \in DOMAIN log : w = log[i].wave
        BY <2>1 DEF Logged
      <3>2. log \in Seq(Record)
        BY <1>1 DEF IInv, Types, ControlTypes
      <3>3. log[i] \in Record
        BY <3>1, <3>2, ElementOfSeq, LenProperties
      <3>4. w \in Nat /\ Loggable(w)
        BY <1>1, <3>1, <3>3 DEF Record, IInv, LogFollowsReports
      <3>5. QED
        BY <2>1, <3>4 DEF Loggable
    <2>2. QED
      BY <1>1, <2>1, WaveRows DEF IInv, ReportsResolved, LoggedResolved, Usable
  <1>2. QED
    BY <1>1, AlwaysInv, PTL

\* The monitor (snapshot of monitor_campaign_status.py) reports "complete" from a
\* ledger it read earlier only if every cell of the design has an attempt and a
\* valid episode, its own or its replacement's, whatever happened since.
THEOREM CompleteMeansComplete == Spec => []CompleteIsComplete
  <1>1. ASSUME IInv, view # NotRead, Judge(lock # "monitor") = "complete"
        PROVE  \A k \in Keys :
                  /\ Attempts(k) # {}
                  /\ (\E i \in Attempts(k) : ledger[i].ok) \/ repaired[k] = "valid"
    <2>1. /\ Len(ledger) \in Nat /\ DOMAIN ledger = 1..Len(ledger)
          /\ view \in Nat /\ view <= Len(ledger)
          /\ \A i \in 1..Len(ledger) : ledger[i] \in Row
      BY <1>1, LenProperties, ElementOfSeq DEF IInv, Types, ControlTypes, LedgerTypes
    <2>2. DOMAIN Rows = 1..view /\ \A i \in 1..view : Rows[i] = ledger[i]
      BY <2>1 DEF Rows
    <2>3. \A i \in DOMAIN Rows : i \in DOMAIN ledger /\ Rows[i] = ledger[i] /\ Rows[i] \in Row
      BY <2>1, <2>2
    <2>4. \A k \in Good \cup Attempts1 : k \in Keys /\ Attempts(k) # {}
      BY <2>3 DEF Good, Attempts1, Attempts, Row
    <2>5. \A k \in Good : \E i \in Attempts(k) : ledger[i].ok
      BY <2>3 DEF Good, Attempts
    <2>6. Valid1 \subseteq Attempts1 /\ Valid1 \subseteq Declared
      BY <2>4 DEF Valid1, Declared
    <2>7. (Good \ Declared) \cup Valid1 = Keys
      <3>1. Cardinality(Good \ Declared) + Cardinality(Valid1) = Expected
        BY <1>1 DEF Judge
      <3> DEFINE S == Good \ Declared
      <3>2. S \subseteq Keys /\ Valid1 \subseteq Keys /\ S \cap Valid1 = {}
        BY <2>4, <2>6
      <3>3. IsFiniteSet(S) /\ IsFiniteSet(Valid1)
        BY <3>2, Constants, FS_Subset
      <3>4. Cardinality(S) \in Nat /\ Cardinality(Valid1) \in Nat
        BY <3>3, FS_CardinalityType
      <3>5. Cardinality(S \cup Valid1) = Cardinality(S) + Cardinality(Valid1) - Cardinality({})
        BY <3>2, <3>3, FS_Union
      <3>6. Cardinality({}) = 0
        BY FS_EmptySet
      <3>7. Cardinality(S \cup Valid1) = Cardinality(Keys)
        BY <3>1, <3>4, <3>5, <3>6, Constants
      <3>8. S \cup Valid1 \subseteq Keys
        BY <3>2
      <3>9. QED
        BY <3>7, <3>8, Constants, FS_Subset
    <2>8. QED
      BY <2>4, <2>5, <2>6, <2>7 DEF Valid1
  <1>2. IInv => CompleteIsComplete
    BY <1>1 DEF CompleteIsComplete
  <1>3. QED
    BY <1>2, AlwaysInv, PTL

-----------------------------------------------------------------------------
(* What the planners publish.                                                *)

\* A new manifest is sequential and without caps.
LEMMA ManifestWritten ==
  ASSUME NEW id, NEW kind, NEW split, NEW base, NEW routes, NEW conditions
  PROVE  LET m == Manifest(id, kind, split, base, routes, conditions)
         IN  /\ {"workers", "caps"} \subseteq DOMAIN m
             /\ m.workers = 1 /\ m.caps = <<>>
  BY DEF Manifest

LEMMA NoCaps == Caps(<<>>)
  BY DEF Caps

Plain(m) == {"workers", "caps"} \subseteq DOMAIN m /\ Written(m)

\* Fields are set.
LEMMA FieldsSet ==
  ASSUME NEW m, Plain(m), NEW fields,
         "workers" \in DOMAIN fields => fields["workers"] \in Int,
         "caps" \in DOMAIN fields => Caps(fields["caps"])
  PROVE  Plain(With(m, fields))
  BY DEF Plain, Written, With

LEMMA ManifestPlain ==
  ASSUME NEW id, NEW kind, NEW split, NEW base, NEW routes, NEW conditions
  PROVE  Plain(Manifest(id, kind, split, base, routes, conditions))
  BY ManifestWritten, NoCaps DEF Plain, Written

LEMMA SupplementWritten ==
  ASSUME NEW n, NEW a, NEW b
  PROVE  Written(Supplement(n, a, b))
  <1> DEFINE total == SupplementCount(n)
             blocks == total \div PerBlock
             all == Controls \o Faults
             share == DistributeBlocks(blocks, Len(all))
             first == FirstReplicate(a, b)
             conditions == Replicated([k \in DOMAIN all |-> [all[k] EXCEPT !.reps = Count(first, share[k])]])
             m == Manifest("supplement", "development_supplement", "development", 2000000,
                           b.routes, conditions)
             fields == [expected |-> total, wave |-> b.wave,
                        perCondition |-> IF Cardinality(Names(share)) = 1 THEN share[1] * PerBlock ELSE -1,
                        sizing |-> [perBlock |-> PerBlock, blocks |-> blocks, minimum |-> MinimumSupplement]]
  <1>1. Supplement(n, a, b) = With(m, fields)
    BY DEF Supplement
  <1> HIDE DEF total, blocks, all, share, first, conditions
  <1>2. Plain(m)
    BY ManifestPlain
  <1>3. "workers" \notin DOMAIN fields /\ "caps" \notin DOMAIN fields
    OBVIOUS
  <1> HIDE DEF m, fields
  <1>4. Plain(With(m, fields))
    BY <1>2, <1>3, FieldsSet
  <1>5. QED
    BY <1>1, <1>4 DEF Plain

LEMMA CheckWritten ==
  ASSUME NEW v, NEW targeted
  PROVE  Written(Check(v, targeted))
  <1>1. Caps(IF v = "v1" THEN <<>> ELSE [s \in {"s3"} |-> 1])
    BY NoCaps DEF Caps
  <1>2. QED
    BY SMT, <1>1, ManifestPlain, FieldsSet DEF Check, Plain

LEMMA HeldWritten ==
  ASSUME NEW seeds
  PROVE  Written(HeldOut(seeds)) /\ Written(SeverityStress(seeds))
  <1>1. Plain(SeverityStress(seeds))
    BY SMT, ManifestPlain DEF SeverityStress
  <1>2. Plain(HeldOut(seeds))
    BY SMT, ManifestPlain, FieldsSet DEF HeldOut
  <1>3. QED
    BY <1>1, <1>2 DEF Plain

LEMMA RecoveryWritten ==
  ASSUME NEW id
  PROVE  Written(RecoveryPilot) /\ Written(Paired(id))
  <1>1. ASSUME NEW m, Plain(m), NEW policies
        PROVE  Plain(RecoveryManifest(m, policies))
    BY <1>1, FieldsSet DEF RecoveryManifest
  <1>2. QED
    BY SMT, <1>1, ManifestPlain, FieldsSet DEF Paired, RecoveryPilot, PilotManifest, Plain

ShelfWritten == \A id \in DOMAIN shelf : Written(shelf[id])

LEMMA PublishWritten ==
  ASSUME ShelfWritten, NEW m, Written(m), Publish(m)
  PROVE  ShelfWritten'
  BY DEF ShelfWritten, Publish, Written, Caps
LEMMA WrittenStep == ShelfWritten /\ [DesignNext]_designVars => ShelfWritten'
  <1>1. SUFFICES ASSUME ShelfWritten, [DesignNext]_designVars PROVE ShelfWritten'
    OBVIOUS
  <1>2. CASE \E n \in Audited : PlanSupplement(n)
    BY <1>1, <1>2, SupplementWritten, PublishWritten DEF PlanSupplement
  <1>3. CASE \E v \in {"v1", "v2"} : PlanCheck(v)
    BY <1>1, <1>3, CheckWritten, PublishWritten DEF PlanCheck
  <1>4. CASE \E h, s \in SeedArguments, k \in BOOLEAN : BuildConfirmatory(h, s, k)
    <2>1. PICK a, b, killed :
            /\ Written(a) /\ Written(b)
            /\ shelf' = [id \in DOMAIN shelf \cup IF killed THEN {a.id} ELSE {a.id, b.id} |->
                           IF id = a.id THEN a ELSE IF id = b.id THEN b ELSE shelf[id]]
      BY <1>4, HeldWritten DEF BuildConfirmatory
    <2>2. QED
      BY <1>1, <2>1 DEF ShelfWritten
  <1>5. CASE PlanRecoveryPilot
    BY <1>1, <1>5, RecoveryWritten, PublishWritten DEF PlanRecoveryPilot
  <1>6. CASE \E id \in {"paired_v1", "paired_v2"} : PlanPaired(id)
    BY <1>1, <1>6, RecoveryWritten, PublishWritten DEF PlanPaired
  <1>7. ASSUME shelf' = shelf PROVE ShelfWritten'
    BY <1>1, <1>7 DEF ShelfWritten
  <1>8. QED
    BY <1>1, <1>2, <1>3, <1>4, <1>5, <1>6, <1>7 DEF DesignNext, Assign, Dispatch, designVars

-----------------------------------------------------------------------------
(* The admission of a run.                                                   *)

LEMMA MinOfTwo ==
  ASSUME NEW a \in Int, NEW b \in Int
  PROVE  Min({a, b}) \in Int /\ Min({a, b}) <= a /\ Min({a, b}) <= b
  <1>1. \E x \in {a, b} : \A y \in {a, b} : x <= y
    <2>1. CASE a <= b
      BY <2>1
    <2>2. CASE b <= a
      BY <2>2
    <2>3. QED
      BY <2>1, <2>2
  <1>2. QED
    BY <1>1 DEF Min

\* Of two sets of caps the smaller cap of every system counts.
LEMMA TighterBoth ==
  ASSUME NEW a, NEW b, Caps(a), Caps(b)
  PROVE  /\ Caps(Tighter(a, b)) /\ DOMAIN Tighter(a, b) = DOMAIN a \cup DOMAIN b
         /\ \A s \in DOMAIN a : Tighter(a, b)[s] <= a[s]
         /\ \A s \in DOMAIN b : Tighter(a, b)[s] <= b[s]
  <1>1. DOMAIN Tighter(a, b) = DOMAIN a \cup DOMAIN b
    BY DEF Tighter
  <1>2. ASSUME NEW s \in DOMAIN a \cup DOMAIN b
        PROVE  /\ Tighter(a, b)[s] \in Int
               /\ s \in DOMAIN a => Tighter(a, b)[s] <= a[s]
               /\ s \in DOMAIN b => Tighter(a, b)[s] <= b[s]
    <2>1. Tighter(a, b)[s] = IF s \notin DOMAIN b THEN a[s]
                             ELSE IF s \notin DOMAIN a THEN b[s] ELSE Min({a[s], b[s]})
      BY <1>2 DEF Tighter
    <2>2. CASE s \in DOMAIN a /\ s \in DOMAIN b
      <3>1. a[s] \in Int /\ b[s] \in Int
        BY <2>2 DEF Caps
      <3>2. QED
        BY <2>1, <2>2, <3>1, MinOfTwo
    <2>3. CASE s \notin DOMAIN a \/ s \notin DOMAIN b
      BY <1>2, <2>1, <2>3 DEF Caps
    <2>4. QED
      BY <2>2, <2>3
  <1>3. QED
    BY <1>1, <1>2 DEF Caps

\* What the dispatcher enforces is as tight as the manifest and, when an amendment
\* admits the run, as the amendment.
LEMMA EffectiveTight ==
  ASSUME NEW m, Written(m), NEW cli, Caps(cli), NEW override
  PROVE  LET caps == EffectiveCaps(m, cli, override)
         IN  /\ Caps(caps)
             /\ \A s \in DOMAIN m.caps : s \in DOMAIN caps /\ caps[s] <= m.caps[s]
             /\ \A s \in DOMAIN AmendmentCaps(m, override) :
                  s \in DOMAIN caps /\ caps[s] <= AmendmentCaps(m, override)[s]
  <1> DEFINE amended == AmendmentCaps(m, override)
             declared == Tighter(m.caps, amended)
  <1>1. Caps(m.caps)
    BY DEF Written
  <1>2. Caps(amended)
    BY NoCaps, DesignOK DEF AmendmentCaps
  <1> HIDE DEF amended
  <1>3. /\ Caps(declared) /\ DOMAIN declared = DOMAIN m.caps \cup DOMAIN amended
        /\ \A s \in DOMAIN m.caps : declared[s] <= m.caps[s]
        /\ \A s \in DOMAIN amended : declared[s] <= amended[s]
    BY <1>1, <1>2, TighterBoth
  <1> HIDE DEF declared
  <1> DEFINE caps == Tighter(declared, cli)
  <1>4. /\ Caps(caps) /\ DOMAIN caps = DOMAIN declared \cup DOMAIN cli
        /\ \A s \in DOMAIN declared : caps[s] <= declared[s]
    BY <1>3, TighterBoth
  <1> HIDE DEF caps
  <1>5. ASSUME NEW s \in DOMAIN m.caps PROVE s \in DOMAIN caps /\ caps[s] <= m.caps[s]
    <2>1. caps[s] \in Int /\ declared[s] \in Int /\ m.caps[s] \in Int
      BY <1>1, <1>3, <1>4, <1>5 DEF Caps
    <2>2. QED
      BY <1>3, <1>4, <1>5, <2>1
  <1>6. ASSUME NEW s \in DOMAIN amended PROVE s \in DOMAIN caps /\ caps[s] <= amended[s]
    <2>1. caps[s] \in Int /\ declared[s] \in Int /\ amended[s] \in Int
      BY <1>2, <1>3, <1>4, <1>6 DEF Caps
    <2>2. QED
      BY <1>3, <1>4, <1>6, <2>1
  <1>7. EffectiveCaps(m, cli, override) = caps
    BY DEF EffectiveCaps, caps, declared, amended
  <1>8. QED
    BY <1>4, <1>5, <1>6, <1>7 DEF amended

\* A sequential manifest is run by several workers only as its amendment admits.
LEMMA Admitted ==
  ASSUME NEW m, NEW workers, NEW override, NEW systems,
         ConcurrencyFindings(m, workers, override, systems) = {}
  PROVE  /\ ~(m.workers < 2) => ~(workers > m.workers)
         /\ m.workers < 2 =>
              LET a == Amendments[m.admittedBy]
              IN  /\ override /\ m.admittedBy \in DOMAIN Amendments /\ ~(workers > a.workers)
                  /\ systems \subseteq DOMAIN a.phases
                  /\ \A s \in systems : ~(workers > a.phases[s])
  <1>1. \A name, holds : Find(name, holds) = {} => ~holds
    BY DEF Find
  <1>2. CASE ~(m.workers < 2)
    BY <1>1, <1>2 DEF ConcurrencyFindings
  <1>3. CASE m.workers < 2
    <2> DEFINE a == Amendments[m.admittedBy]
    <2>1. override /\ AdmissionFindings(m, workers, systems) = {}
      BY <1>3 DEF ConcurrencyFindings
    <2>2. m.admittedBy \in DOMAIN Amendments
      BY <2>1 DEF AdmissionFindings
    <2>3. ~(workers > a.workers) /\ PhaseFindings(a, workers, systems) = {}
      BY <1>1, <2>1, <2>2 DEF AdmissionFindings
    <2>4. systems \subseteq DOMAIN a.phases
          /\ ~\E s \in systems \cap DOMAIN a.phases : workers > a.phases[s]
      <3> HIDE DEF a
      <3>1. QED
        BY <1>1, <2>3 DEF PhaseFindings
    <2>5. QED
      BY <1>3, <2>1, <2>2, <2>3, <2>4
  <1>4. QED
    BY <1>2, <1>3

LEMMA RunHonoured ==
  ASSUME ShelfWritten, NEW id \in DOMAIN shelf, NEW workers \in Workers,
         NEW systems \in SUBSET Systems(shelf[id]), NEW cli \in CliCaps,
         NEW override \in BOOLEAN, Dispatch(id, workers, systems, cli, override)
  PROVE  CapsHonoured'
  <1> DEFINE m == shelf[id]
             a == Amendments[m.admittedBy]
             caps == EffectiveCaps(m, cli, override)
             amended == m.workers < 2
             inflight(s) == IF s \in DOMAIN caps THEN Min({workers, caps[s]}) ELSE workers
  <1>1. shelf' = shelf /\ ConcurrencyFindings(m, workers, override, systems) = {}
        /\ event' = [type |-> "run", id |-> id, workers |-> workers, systems |-> systems,
                     override |-> override, caps |-> caps]
    BY DEF Dispatch
  <1>2. Written(m) /\ Caps(cli) /\ workers \in Int
    BY DesignOK DEF ShelfWritten
  <1>3. /\ Caps(caps)
        /\ \A s \in DOMAIN m.caps : s \in DOMAIN caps /\ caps[s] <= m.caps[s]
        /\ \A s \in DOMAIN AmendmentCaps(m, override) :
             s \in DOMAIN caps /\ caps[s] <= AmendmentCaps(m, override)[s]
    BY <1>2, EffectiveTight
  <1>4. /\ ~amended => ~(workers > m.workers)
        /\ amended => /\ override /\ m.admittedBy \in DOMAIN Amendments /\ ~(workers > a.workers)
                      /\ systems \subseteq DOMAIN a.phases
                      /\ \A s \in systems : ~(workers > a.phases[s])
    BY <1>1, Admitted
  <1>5. m.workers \in Int /\ Caps(m.caps)
    BY <1>2 DEF Written
  <1>6. amended => a.workers \in Int /\ Caps(a.caps) /\ Caps(a.phases)
                   /\ AmendmentCaps(m, override) = a.caps
    BY <1>4, DesignOK DEF AmendmentCaps
  <1> HIDE DEF m, a, caps
  <1>7. ASSUME NEW s
        PROVE  /\ inflight(s) \in Int /\ inflight(s) <= workers
               /\ s \in DOMAIN caps => inflight(s) <= caps[s]
    <2>1. CASE s \in DOMAIN caps
      <3>1. caps[s] \in Int /\ inflight(s) = Min({workers, caps[s]})
        BY <1>3, <2>1 DEF Caps
      <3>2. QED
        BY <1>2, <3>1, MinOfTwo
    <2>2. CASE s \notin DOMAIN caps
      BY <1>2, <2>2
    <2>3. QED
      BY <2>1, <2>2
  <1> HIDE DEF inflight
  <1>8. ASSUME NEW s
        PROVE  /\ s \in DOMAIN m.caps => inflight(s) <= m.caps[s]
               /\ inflight(s) <= IF amended THEN a.workers ELSE m.workers
               /\ amended /\ s \in DOMAIN a.caps => inflight(s) <= a.caps[s]
               /\ amended /\ s \in systems => inflight(s) <= a.phases[s]
    <2>1. s \in DOMAIN m.caps => inflight(s) <= m.caps[s]
      BY <1>3, <1>5, <1>7 DEF Caps
    <2>2. inflight(s) <= IF amended THEN a.workers ELSE m.workers
      BY <1>2, <1>4, <1>5, <1>6, <1>7
    <2>3. amended /\ s \in DOMAIN a.caps => inflight(s) <= a.caps[s]
      BY <1>3, <1>6, <1>7 DEF Caps
    <2>4. amended /\ s \in systems => inflight(s) <= a.phases[s]
      BY <1>2, <1>4, <1>6, <1>7 DEF Caps
    <2>5. QED
      BY <2>1, <2>2, <2>3, <2>4
  <1>9. \A s : InFlight(s)' = inflight(s)
    BY <1>1 DEF InFlight, inflight
  <1>10. event'.systems = systems /\ shelf'[event'.id] = m
    BY <1>1 DEF m
  <1>11. QED
    BY <1>8, <1>9, <1>10 DEF CapsHonoured, a

\* CapsHonoured: no system runs more episodes at once than its manifest, the amendment
\* that admits the run and the phase it is restricted to allow, for any drafts and
\* arguments (run_campaign_parallel's start).
THEOREM CapsAreHonoured == DesignSpec => []CapsHonoured
  <1>1. DesignInit => ShelfWritten /\ CapsHonoured
    BY DesignOK DEF DesignInit, ShelfWritten, CapsHonoured, Nothing
  <1>2. ShelfWritten /\ CapsHonoured /\ [DesignNext]_designVars => ShelfWritten' /\ CapsHonoured'
    <2>1. SUFFICES ASSUME ShelfWritten, CapsHonoured, [DesignNext]_designVars PROVE CapsHonoured'
      BY WrittenStep
    <2>2. CASE UNCHANGED designVars
      <3>1. shelf' = shelf /\ event' = event
        BY <2>2 DEF designVars
      <3>2. \A s : InFlight(s)' = InFlight(s)
        BY <3>1 DEF InFlight
      <3>3. \A m : Systems(m)' = Systems(m)
        BY DEF Systems
      <3>4. QED
        BY <2>1, <3>1, <3>2, <3>3 DEF CapsHonoured
    <2>3. CASE event'.type # "run"
      BY <2>3 DEF CapsHonoured
    <2>4. CASE \E id \in DOMAIN shelf : \E w \in Workers, cli \in CliCaps, o \in BOOLEAN :
                 \E systems \in SUBSET Systems(shelf[id]) : Dispatch(id, w, systems, cli, o)
      BY <2>1, <2>4, RunHonoured
    <2>5. \A m : Publish(m) => event'.type # "run"
      BY DEF Publish, Published
    <2>6. ASSUME \/ \E n \in Audited : PlanSupplement(n)
                 \/ \E v \in {"v1", "v2"} : PlanCheck(v)
                 \/ PlanRecoveryPilot
                 \/ \E id \in {"paired_v1", "paired_v2"} : PlanPaired(id)
          PROVE  event'.type # "run"
      BY <2>5, <2>6 DEF PlanSupplement, PlanCheck, PlanRecoveryPilot, PlanPaired
    <2>7. ASSUME \E h, s \in SeedArguments, k \in BOOLEAN : BuildConfirmatory(h, s, k)
          PROVE  event'.type # "run"
      <3>1. \E m : event' = Published(m)
        BY <2>7 DEF BuildConfirmatory
      <3>2. QED
        BY <3>1 DEF Published
    <2>8. ASSUME Assign PROVE event'.type # "run"
      BY <2>8 DEF Assign, Nothing
    <2>9. QED
      BY <2>1, <2>2, <2>3, <2>4, <2>6, <2>7, <2>8 DEF DesignNext
  <1>3. QED
    BY <1>1, <1>2, PTL DEF DesignSpec
=============================================================================

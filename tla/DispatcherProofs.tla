-------------------------- MODULE DispatcherProofs --------------------------
(* For any number of episodes, systems, slots and prior ledgers: exact-once  *)
(* claiming and the per-system caps; then what one invocation leaves behind: *)
(* the wave reports match the ledger, the result of run() can be believed, a *)
(* slot never waits for nobody, and the threads implement the exact-once     *)
(* queue.                                                                    *)
EXTENDS DispatcherRefinement, FiniteSetTheorems, SequenceTheorems, TLAPS

-----------------------------------------------------------------------------
(* What ClaimsConsistent does not say and induction needs: a slot that holds *)
(* no claim has either never claimed or recorded its last claim, the history *)
(* agrees with claims and ledger, and threads start only after the first     *)
(* scan.                                                                     *)
SlotHistory ==
    /\ \A w \in Slots : job[w] \in inFlight \/ job[w] \in Attempted \/ job[w] = NoKey
    /\ \A w \in Slots : main = "start" => pc[w] = "unstarted"

LaunchHistory ==
    /\ \A k \in Keys : launched[k] <= 1
    /\ \A k \in Pending : launched[k] = 0
    /\ \A k \in inFlight : launched[k] > 0
    /\ NoRepeats(ledger)
    /\ \A i, j \in DOMAIN ledger :
          (i < j /\ launched[ledger[i].key] > 0) => launched[ledger[j].key] > 0

IInv == TypeOK /\ ClaimsConsistent /\ SlotHistory /\ LaunchHistory

-----------------------------------------------------------------------------
\* Episodes are a finite set, and so is every set of episodes in flight.
LEMMA KeysFinite == IsFiniteSet(Keys) /\ Keys \subseteq Nat \ {0}
  <1>1. IsFiniteSet(1..NumEpisodes)
    BY FS_Interval, ConstantsOK
  <1>2. QED
    BY <1>1, ConstantsOK DEF Keys

LEMMA InFlightFinite ==
  ASSUME TypeOK
  PROVE  /\ IsFiniteSet(inFlight) /\ Cardinality(inFlight) \in Nat
         /\ \A y \in Systems : /\ IsFiniteSet(InFlightOf(y))
                               /\ Cardinality(InFlightOf(y)) \in Nat
  <1>1. IsFiniteSet(inFlight)
    BY KeysFinite, FS_Subset DEF TypeOK
  <1>2. \A y \in Systems : IsFiniteSet(InFlightOf(y))
    BY <1>1, FS_Subset DEF InFlightOf
  <1>3. QED
    BY <1>1, <1>2, FS_CardinalityType

\* Waking the waiting threads moves "waiting" to "claim" and nothing else.
LEMMA WakeAllMoves ==
  ASSUME NEW at \in [Slots -> PcValues]
  PROVE  /\ WakeAll(at) \in [Slots -> PcValues]
         /\ \A w \in Slots : \/ WakeAll(at)[w] = at[w]
                             \/ at[w] = "waiting" /\ WakeAll(at)[w] = "claim"
  BY DEF WakeAll, PcValues

\* The rows of a ledger, and what appending one does to its keys.
LEMMA LedgerRows ==
  ASSUME NEW rows \in Seq(Row)
  PROVE  /\ DOMAIN rows = 1..Len(rows) /\ Len(rows) \in Nat
         /\ \A i \in DOMAIN rows : rows[i] \in Row /\ rows[i].key \in Keys
  <1>1. DOMAIN rows = 1..Len(rows) /\ Len(rows) \in Nat
    BY LenProperties
  <1>2. \A i \in DOMAIN rows : rows[i] \in Row
    BY <1>1, ElementOfSeq
  <1>3. \A row \in Row : row.key \in Keys
    BY DEF Row
  <1>4. QED
    BY <1>1, <1>2, <1>3

LEMMA AppendRow ==
  ASSUME NEW rows \in Seq(Row), NEW row \in Row
  PROVE  /\ Append(rows, row) \in Seq(Row)
         /\ Len(Append(rows, row)) = Len(rows) + 1
         /\ \A i \in DOMAIN Append(rows, row) :
               \/ i \in DOMAIN rows /\ Append(rows, row)[i] = rows[i]
               \/ i = Len(rows) + 1 /\ Append(rows, row)[i] = row
         /\ KeysOf(Append(rows, row)) = KeysOf(rows) \cup {row.key}
  <1>1. /\ Append(rows, row) \in Seq(Row)
        /\ DOMAIN Append(rows, row) = 1..(Len(rows) + 1)
        /\ Len(Append(rows, row)) = Len(rows) + 1
        /\ \A i \in 1..Len(rows) : Append(rows, row)[i] = rows[i]
        /\ Append(rows, row)[Len(rows) + 1] = row
        /\ DOMAIN rows = 1..Len(rows) /\ Len(rows) \in Nat
    BY AppendProperties, LenProperties
  <1>2. 1..(Len(rows) + 1) = 1..Len(rows) \cup {Len(rows) + 1}
    BY <1>1
  <1>3. KeysOf(Append(rows, row)) = KeysOf(rows) \cup {row.key}
    BY <1>1, <1>2 DEF KeysOf
  <1>4. QED
    BY <1>1, <1>2, <1>3

-----------------------------------------------------------------------------
LEMMA InitInv == Init => IInv
  <1> SUFFICES ASSUME Init
               PROVE  IInv
    OBVIOUS
  <1>1. TypeOK
    <2>1. ledger \in Seq(Row)
      BY ConstantsOK DEF Init
    <2>2. reported \in Seq(Nat \ {0}) /\ skipped \in Seq(Nat \ {0})
      BY DEF Init
    <2>3. pc \in [Slots -> PcValues] /\ job \in [Slots -> Keys \cup {NoKey}]
      BY DEF Init, PcValues
    <2>4. running \in [Systems -> Nat] /\ launched \in [Keys -> Nat] /\ valid \in [Slots -> BOOLEAN]
      BY DEF Init
    <2>5. finalizedWaves \in SUBSET (Nat \ {0}) /\ inFlight \subseteq Keys
      BY DEF Init
    <2>6. stop \in StopReasons
      BY DEF Init, StopReasons
    <2>7. QED
      BY <2>1, <2>2, <2>3, <2>4, <2>5, <2>6 DEF Init, TypeOK
  <1>2. ClaimsConsistent
    <2>1. \A y \in Systems : InFlightOf(y) = {}
      BY DEF Init, InFlightOf
    <2>2. Cardinality({}) = 0
      BY FS_EmptySet
    <2>3. ASSUME NEW y \in Systems
          PROVE  running[y] = Cardinality(InFlightOf(y)) /\ running[y] <= Cap[y]
      <3>1. running[y] = 0
        BY DEF Init
      <3>2. Cap[y] \in Nat
        BY ConstantsOK
      <3>3. QED
        BY <2>1, <2>2, <3>1, <3>2
    <2>4. QED
      BY <2>2, <2>3, ConstantsOK DEF Init, ClaimsConsistent, Active
  <1>3. SlotHistory
    BY DEF Init, SlotHistory
  <1>4. LaunchHistory
    <2>1. \A k \in Keys : launched[k] = 0
      BY DEF Init
    <2>2. Pending \subseteq Keys /\ inFlight = {}
      BY DEF Init, Pending
    <2>3. \A i \in DOMAIN ledger : ledger[i].key \in Keys
      BY <1>1, LedgerRows DEF TypeOK
    <2>4. NoRepeats(ledger)
      BY ConstantsOK DEF Init
    <2>5. QED
      BY <2>1, <2>2, <2>3, <2>4 DEF LaunchHistory
  <1>5. QED
    BY <1>1, <1>2, <1>3, <1>4 DEF IInv

-----------------------------------------------------------------------------
(* Type correctness is preserved.                                          *)

LEMMA ClaimType ==
  ASSUME TypeOK, NEW w \in Slots, Claim(w)
  PROVE  TypeOK'
  <1> USE DEF TypeOK
  <1>1. PcValues # {} /\ {"claim", "done", "dead", "run", "blocked"} \subseteq PcValues
    BY DEF PcValues
  <1>2. ASSUME NEW reason \in StopReasons, ClaimStops(w, reason)
        PROVE  TypeOK'
    <2>1. [pc EXCEPT ![w] = "done"] \in [Slots -> PcValues]
      BY <1>1
    <2>2. pc' \in [Slots -> PcValues]
      BY <1>2, <2>1, WakeAllMoves DEF ClaimStops
    <2>3. stop' \in StopReasons
      BY <1>2 DEF ClaimStops, StopWith
    <2>4. QED
      BY <1>2, <2>2, <2>3 DEF ClaimStops, disk, claims, counts, reporting
  <1>3. CASE ClaimStopped(w)
    BY <1>1, <1>3 DEF ClaimStopped, disk, claims, counts, reporting
  <1>4. CASE ClaimLimit(w)
    BY <1>2, <1>4 DEF ClaimLimit, StopReasons
  <1>5. CASE ClaimInterrupted(w)
    BY <1>2, <1>5, ConstantsOK DEF ClaimInterrupted, StopReasons
  <1>6. CASE ClaimUnreadable(w)
    BY <1>1, <1>6 DEF ClaimUnreadable, disk, claims, counts, reporting
  <1>7. CASE ClaimEpisode(w)
    <2>1. PICK k \in Claimable :
                /\ inFlight' = inFlight \cup {k}
                /\ running' = [running EXCEPT ![System[k]] = @ + 1]
                /\ claimed' = claimed + 1
                /\ launched' = [launched EXCEPT ![k] = @ + 1]
                /\ job' = [job EXCEPT ![w] = k]
                /\ pc' = [pc EXCEPT ![w] = "run"]
      BY <1>7 DEF ClaimEpisode
    <2>2. k \in Keys /\ System[k] \in Systems
      BY <2>1, ConstantsOK DEF Claimable, Pending
    <2>3. running' \in [Systems -> Nat] /\ launched' \in [Keys -> Nat]
      BY <2>1, <2>2
    <2>4. job' \in [Slots -> Keys \cup {NoKey}] /\ pc' \in [Slots -> PcValues]
      BY <1>1, <2>1, <2>2
    <2>5. QED
      BY <1>7, <2>1, <2>2, <2>3, <2>4 DEF ClaimEpisode, disk, counts, reporting
  <1>8. CASE ClaimCapBlocked(w)
    BY <1>1, <1>8 DEF ClaimCapBlocked, disk, claims, counts, reporting
  <1>9. CASE ClaimNothing(w)
    BY <1>2, <1>9 DEF ClaimNothing, StopReasons
  <1>10. QED
    BY <1>3, <1>4, <1>5, <1>6, <1>7, <1>8, <1>9 DEF Claim

LEMMA WorkType ==
  ASSUME TypeOK, ClaimsConsistent, NEW w \in Slots, Work(w)
  PROVE  TypeOK'
  <1> USE DEF TypeOK
  <1>1. {"claim", "dead", "record", "notify", "waiting"} \subseteq PcValues
    BY DEF PcValues
  <1>2. pc[w] = "record" => job[w] \in Keys /\ NewRow(w) \in Row
    <2>1. pc[w] = "record" => job[w] \in Keys
      BY DEF ClaimsConsistent, Active
    <2>2. QED
      BY <2>1 DEF NewRow, Row
  <1>3. CASE Wait(w)
    BY <1>1, <1>3 DEF Wait, disk, claims, counts, reporting
  <1>4. CASE PollTimeout(w)
    BY <1>1, <1>4 DEF PollTimeout, disk, claims, counts, reporting
  <1>5. CASE FinishEpisode(w)
    BY <1>1, <1>5 DEF FinishEpisode, disk, claims, counts, reporting
  <1>6. CASE RecordRow(w)
    <2>1. ledger' \in Seq(Row)
      BY <1>2, <1>6, AppendRow DEF RecordRow
    <2>2. inFlight' \subseteq Keys /\ running' \in [Systems -> Nat]
      <3>1. System[job[w]] \in Systems
        BY <1>2, <1>6, ConstantsOK DEF RecordRow
      <3>2. running' = [running EXCEPT ![System[job[w]]] = IF @ > 0 THEN @ - 1 ELSE 0]
        BY <1>6 DEF RecordRow, Release
      <3>3. (IF running[System[job[w]]] > 0 THEN running[System[job[w]]] - 1 ELSE 0) \in Nat
        BY <3>1
      <3>4. QED
        BY <1>6, <3>2, <3>3 DEF RecordRow, Release
    <2>3. recorded' \in Nat /\ invalid' \in Nat
      BY <1>6 DEF RecordRow
    <2>4. stop' \in StopReasons
      BY <1>6 DEF RecordRow, StopWith, StopReasons
    <2>5. pc' \in [Slots -> PcValues]
      <3>1. [pc EXCEPT ![w] = "notify"] \in [Slots -> PcValues]
        BY <1>1
      <3>2. \/ pc' = [pc EXCEPT ![w] = "notify"]
            \/ pc' = WakeAll([pc EXCEPT ![w] = "notify"])
        BY <1>6 DEF RecordRow
      <3>3. WakeAll([pc EXCEPT ![w] = "notify"]) \in [Slots -> PcValues]
        BY <3>1, WakeAllMoves
      <3>4. QED
        BY <3>1, <3>2, <3>3
    <2>6. QED
      BY <1>6, <2>1, <2>2, <2>3, <2>4, <2>5 DEF RecordRow, reporting
  <1>7. CASE RecordRefused(w)
    BY <1>1, <1>7 DEF RecordRefused, disk, claims, counts, reporting
  <1>8. CASE RecordFails(w)
    <2>1. ledger' \in Seq(Row) /\ torn' \in BOOLEAN
      BY <1>2, <1>8, AppendRow DEF RecordFails
    <2>2. QED
      BY <1>1, <1>8, <2>1 DEF RecordFails, claims, counts, reporting
  <1>9. CASE Notify(w)
    <2>1. [pc EXCEPT ![w] = "claim"] \in [Slots -> PcValues]
      BY <1>1
    <2>2. QED
      BY <1>9, <2>1, WakeAllMoves DEF Notify, disk, claims, counts, reporting
  <1>10. QED
    BY <1>3, <1>4, <1>5, <1>6, <1>7, <1>8, <1>9 DEF Work

LEMMA MainType ==
  ASSUME TypeOK, Main
  PROVE  TypeOK'
  <1> USE DEF TypeOK
  <1>1. Crash => pc' \in [Slots -> PcValues] /\ main' = "crashed"
    BY DEF Crash, PcValues
  <1>2. ASSUME NEW n \in Unfinalized
        PROVE  n \in Nat \ {0}
    BY DEF Unfinalized
  <1>3. CASE ReadLedger
    <2>1. seen' \in Nat
      BY <1>3, LenProperties DEF ReadLedger
    <2>2. QED
      BY <1>3, <2>1 DEF ReadLedger, disk, claims, counts, threads
  <1>4. CASE ReadLedgerFails
    BY <1>1, <1>4 DEF ReadLedgerFails, disk, claims, counts
  <1>5. CASE FinalizeWave
    <2>1. PICK n \in Unfinalized :
             /\ finalizedWaves' = finalizedWaves \cup {n}
             /\ \/ reported' = Append(reported, n) /\ UNCHANGED skipped
                \/ skipped' = Append(skipped, n) /\ UNCHANGED reported
      BY <1>5 DEF FinalizeWave
    <2>2. reported' \in Seq(Nat \ {0}) /\ skipped' \in Seq(Nat \ {0})
      <3>1. n \in Nat \ {0}
        BY <1>2
      <3>2. \A q \in Seq(Nat \ {0}) : Append(q, n) \in Seq(Nat \ {0})
        BY <3>1, AppendProperties
      <3>3. QED
        BY <2>1, <3>2
    <2>3. QED
      BY <1>2, <1>5, <2>1, <2>2 DEF FinalizeWave, disk, claims, counts, threads
  <1>6. CASE FinalizeFails
    BY <1>1, <1>2, <1>6 DEF FinalizeFails, disk, claims, counts
  <1>7. CASE EndScan
    <2>1. main' \in {"start", "loop", "final", "done", "crashed"}
      BY <1>7 DEF EndScan, Scanning
    <2>2. pc' \in [Slots -> PcValues] /\ stop' \in StopReasons
      BY <1>7 DEF EndScan, PcValues, StopReasons
    <2>3. QED
      BY <1>7, <2>1, <2>2 DEF EndScan, disk, claims, counts
  <1>8. CASE JoinAll
    BY <1>8 DEF JoinAll, disk, claims, counts, threads
  <1>9. QED
    BY <1>3, <1>4, <1>5, <1>6, <1>7, <1>8 DEF Main

-----------------------------------------------------------------------------
(* The claims invariant is preserved.                                      *)

Bookkeeping == ClaimsConsistent /\ SlotHistory /\ LaunchHistory

\* A step that touches neither claims, ledger rows nor jobs, and starts or ends no
\* attempt, keeps it.
LEMMA QuietStep ==
  ASSUME Bookkeeping,
         UNCHANGED <<ledger, claims, recorded, job>>,
         \A w \in Slots : Active(w)' <=> Active(w),
         \A w \in Slots : pc[w] = "dead" => pc'[w] = "dead",
         \A w \in Slots : main' = "start" => pc'[w] = "unstarted"
  PROVE  Bookkeeping'
  <1>1. /\ ledger' = ledger /\ inFlight' = inFlight /\ running' = running
        /\ claimed' = claimed /\ launched' = launched /\ recorded' = recorded
        /\ job' = job
    BY DEF claims
  <1>2. Attempted' = Attempted /\ Pending' = Pending
    BY <1>1 DEF Attempted, Pending
  <1>3. \A y \in Systems : InFlightOf(y)' = InFlightOf(y)
    BY <1>1 DEF InFlightOf
  <1>4. ClaimsConsistent'
    BY <1>1, <1>2, <1>3 DEF Bookkeeping, ClaimsConsistent
  <1>5. SlotHistory'
    BY <1>1, <1>2 DEF Bookkeeping, SlotHistory
  <1>6. LaunchHistory'
    BY <1>1, <1>2 DEF Bookkeeping, LaunchHistory
  <1>7. QED
    BY <1>4, <1>5, <1>6 DEF Bookkeeping

\* Claiming the first claimable episode.
LEMMA ClaimEpisodeStep ==
  ASSUME IInv, NEW w \in Slots, ClaimEpisode(w)
  PROVE  Bookkeeping'
  <1> USE DEF IInv
  <1>1. PICK k \in Claimable :
              /\ inFlight' = inFlight \cup {k}
              /\ running' = [running EXCEPT ![System[k]] = @ + 1]
              /\ claimed' = claimed + 1
              /\ launched' = [launched EXCEPT ![k] = @ + 1]
              /\ job' = [job EXCEPT ![w] = k]
              /\ pc' = [pc EXCEPT ![w] = "run"]
    BY DEF ClaimEpisode
  <1>2. /\ k \in Keys /\ k \notin Attempted /\ k \notin inFlight /\ k \in Pending
        /\ System[k] \in Systems /\ k # NoKey
        /\ running[System[k]] < Cap[System[k]]
    <2>1. k \in Pending /\ ~CapBlocked(k)
      BY <1>1 DEF Claimable
    <2>2. k \in Keys /\ k \notin Attempted /\ k \notin inFlight
      BY <2>1 DEF Pending
    <2>3. System[k] \in Systems /\ k # NoKey
      BY <2>2, ConstantsOK, KeysFinite DEF NoKey
    <2>4. running[System[k]] \in Nat /\ Cap[System[k]] \in Nat
      BY <2>3, ConstantsOK DEF TypeOK
    <2>5. QED
      BY <2>1, <2>2, <2>3, <2>4 DEF CapBlocked
  <1>3. /\ ledger' = ledger /\ recorded' = recorded /\ main' = main
        /\ pc[w] = "claim"
    BY DEF ClaimEpisode, Searching, disk, counts, reporting
  <1>4. Attempted' = Attempted /\ Pending' = Pending \ {k}
    BY <1>1, <1>3 DEF Attempted, Pending
  <1>5. \A v \in Slots : job[v] # k
    BY <1>2 DEF SlotHistory
  <1>6. /\ job \in [Slots -> Keys \cup {NoKey}] /\ pc \in [Slots -> PcValues]
        /\ job'[w] = k /\ pc'[w] = "run"
        /\ \A v \in Slots : v # w => job'[v] = job[v] /\ pc'[v] = pc[v]
        /\ ~Active(w) /\ pc[w] # "dead"
    BY <1>1, <1>3 DEF TypeOK, Active
  <1>7. job[w] \notin inFlight
    BY <1>6 DEF ClaimsConsistent
  <1>8. \A v \in Slots : v # w => (Active(v)' <=> Active(v))
    BY <1>6 DEF Active
  <1>9. \A v \in Slots : job'[v] \in inFlight' <=> v = w \/ job[v] \in inFlight
    BY <1>1, <1>5, <1>6, <1>7
  <1>10. ASSUME NEW y \in Systems
         PROVE  running'[y] = Cardinality(InFlightOf(y)') /\ running'[y] <= Cap[y]
    <2>1. /\ running[y] = Cardinality(InFlightOf(y)) /\ running[y] <= Cap[y]
          /\ IsFiniteSet(InFlightOf(y)) /\ Cardinality(InFlightOf(y)) \in Nat
          /\ Cap[y] \in Nat
      BY InFlightFinite, ConstantsOK DEF ClaimsConsistent
    <2>2. CASE System[k] = y
      <3>1. InFlightOf(y)' = InFlightOf(y) \cup {k} /\ k \notin InFlightOf(y)
        BY <1>1, <1>2, <2>2 DEF InFlightOf
      <3>2. Cardinality(InFlightOf(y)') = Cardinality(InFlightOf(y)) + 1
        BY <2>1, <3>1, FS_AddElement
      <3>3. running'[y] = running[y] + 1
        BY <1>1, <2>2 DEF TypeOK
      <3>4. QED
        BY <1>2, <2>1, <2>2, <3>2, <3>3
    <2>3. CASE System[k] # y
      <3>1. InFlightOf(y)' = InFlightOf(y)
        BY <1>1, <2>3 DEF InFlightOf
      <3>2. running'[y] = running[y]
        BY <1>1, <2>3 DEF TypeOK
      <3>3. QED
        BY <2>1, <3>1, <3>2
    <2>4. QED
      BY <2>2, <2>3
  <1>11. claimed' = recorded' + Cardinality(inFlight')
    <2>1. Cardinality(inFlight') = Cardinality(inFlight) + 1
      BY <1>1, <1>2, InFlightFinite, FS_AddElement
    <2>2. QED
      BY <1>1, <1>3, <2>1, InFlightFinite DEF ClaimsConsistent, TypeOK
  <1>12. ClaimsConsistent'
    <2>1. \A v \in Slots : Active(v)' => job'[v] \in inFlight' /\ job'[v] \notin Attempted'
      BY <1>1, <1>2, <1>4, <1>6, <1>8 DEF ClaimsConsistent
    <2>2. \A q \in inFlight' : \E v \in Slots : job'[v] = q
      BY <1>1, <1>6, <1>7 DEF ClaimsConsistent
    <2>3. \A v \in Slots : job'[v] \in inFlight' => Active(v)' \/ pc'[v] = "dead"
      BY <1>6, <1>8, <1>9 DEF ClaimsConsistent, Active
    <2>4. \A u, v \in Slots : job'[u] \in inFlight' /\ job'[u] = job'[v] => u = v
      BY <1>5, <1>6, <1>9 DEF ClaimsConsistent
    <2>5. QED
      BY <1>10, <1>11, <2>1, <2>2, <2>3, <2>4 DEF ClaimsConsistent
  <1>13. SlotHistory'
    BY <1>1, <1>3, <1>4, <1>6 DEF SlotHistory
  <1>14. LaunchHistory'
    <2>1. launched[k] = 0
      BY <1>2 DEF LaunchHistory
    <2>2. /\ launched'[k] = 1
          /\ \A q \in Keys : q # k => launched'[q] = launched[q]
      BY <1>1, <1>2, <2>1 DEF TypeOK
    <2>3. /\ \A q \in Keys : launched'[q] <= 1
          /\ \A q \in Pending' : launched'[q] = 0
          /\ \A q \in inFlight' : launched'[q] > 0
      BY <1>1, <1>4, <2>2 DEF LaunchHistory, Pending, TypeOK
    <2>4. \A i \in DOMAIN ledger : ledger[i].key \in Keys /\ ledger[i].key # k
      BY <1>2, LedgerRows DEF Attempted, KeysOf, TypeOK
    <2>5. QED
      BY <1>3, <2>2, <2>3, <2>4 DEF LaunchHistory
  <1>15. QED
    BY <1>12, <1>13, <1>14 DEF Bookkeeping

\* What a new row does to the recorded keys and to the history.
LEMMA RowAdded ==
  ASSUME IInv, NEW w \in Slots, pc[w] = "record",
         ledger' = Append(ledger, NewRow(w)), launched' = launched
  PROVE  /\ Attempted' = Attempted \cup {job[w]}
         /\ NoRepeats(ledger')
         /\ \A i, j \in DOMAIN ledger' :
              (i < j /\ launched[ledger'[i].key] > 0) => launched[ledger'[j].key] > 0
  <1> DEFINE k == job[w]
  <1> USE DEF IInv
  <1>1. /\ k \in Keys /\ k \in inFlight /\ k \notin Attempted /\ launched[k] > 0
        /\ NewRow(w) \in Row /\ NewRow(w).key = k
    <2>1. k \in inFlight /\ k \notin Attempted
      BY DEF ClaimsConsistent, Active
    <2>2. k \in Keys /\ launched[k] > 0
      BY <2>1 DEF TypeOK, LaunchHistory
    <2>3. QED
      BY <2>1, <2>2 DEF NewRow, Row, TypeOK
  <1>2. ledger \in Seq(Row) /\ Len(ledger) \in Nat /\ DOMAIN ledger = 1..Len(ledger)
    BY LedgerRows DEF TypeOK
  <1>3. /\ Attempted' = Attempted \cup {k}
        /\ \A i \in DOMAIN ledger' :
              \/ i \in DOMAIN ledger /\ ledger'[i] = ledger[i]
              \/ i = Len(ledger) + 1 /\ ledger'[i].key = k
    BY <1>1, <1>2, AppendRow DEF Attempted
  <1>4. \A i \in DOMAIN ledger : ledger[i].key # k
    BY <1>1 DEF Attempted, KeysOf
  <1>5. NoRepeats(ledger')
    BY <1>3, <1>4 DEF LaunchHistory, NoRepeats
  <1>6. ASSUME NEW i \in DOMAIN ledger', NEW j \in DOMAIN ledger',
               i < j, launched[ledger'[i].key] > 0
        PROVE  launched[ledger'[j].key] > 0
    <2>1. CASE j = Len(ledger) + 1
      BY <1>1, <1>2, <1>3, <2>1
    <2>2. CASE j # Len(ledger) + 1
      <3>1. j \in DOMAIN ledger /\ ledger'[j] = ledger[j]
        BY <1>3, <2>2
      <3>2. i \in DOMAIN ledger /\ ledger'[i] = ledger[i]
        BY <1>2, <1>3, <1>6, <3>1
      <3>3. QED
        BY <1>6, <3>1, <3>2 DEF LaunchHistory
    <2>3. QED
      BY <2>1, <2>2
  <1>7. QED
    BY <1>3, <1>5, <1>6

\* Recording gives the claim back and makes the key attempted.
LEMMA RecordRowStep ==
  ASSUME IInv, NEW w \in Slots, RecordRow(w)
  PROVE  Bookkeeping'
  <1> DEFINE k == job[w]
  <1> USE DEF IInv
  <1>1. /\ pc[w] = "record" /\ ledger' = Append(ledger, NewRow(w))
        /\ inFlight' = inFlight \ {k}
        /\ running' = [running EXCEPT ![System[k]] = IF @ > 0 THEN @ - 1 ELSE 0]
        /\ recorded' = recorded + 1 /\ claimed' = claimed /\ launched' = launched
        /\ job' = job /\ main' = main
    BY DEF RecordRow, Release, reporting
  <1>2. /\ k \in Keys /\ k \in inFlight /\ k \notin Attempted /\ launched[k] > 0
        /\ System[k] \in Systems
    <2>1. k \in inFlight /\ k \notin Attempted
      BY <1>1 DEF ClaimsConsistent, Active
    <2>2. QED
      BY <2>1, ConstantsOK DEF TypeOK, LaunchHistory
  <1>3. /\ Attempted' = Attempted \cup {k}
        /\ NoRepeats(ledger')
        /\ \A i, j \in DOMAIN ledger' :
              (i < j /\ launched[ledger'[i].key] > 0) => launched[ledger'[j].key] > 0
    BY <1>1, RowAdded
  <1>4. Pending' = Pending
    BY <1>1, <1>2, <1>3 DEF Pending
  <1>5. \A v \in Slots : \/ v = w /\ pc'[v] = "notify"
                         \/ v # w /\ pc'[v] = pc[v]
                         \/ v # w /\ pc[v] = "waiting" /\ pc'[v] = "claim"
    <2>1. \/ pc' = [pc EXCEPT ![w] = "notify"]
          \/ pc' = WakeAll([pc EXCEPT ![w] = "notify"])
      BY DEF RecordRow
    <2>2. [pc EXCEPT ![w] = "notify"] \in [Slots -> PcValues]
      BY DEF TypeOK, PcValues
    <2>3. \A v \in Slots : [pc EXCEPT ![w] = "notify"][v] = IF v = w THEN "notify" ELSE pc[v]
      BY DEF TypeOK
    <2>4. CASE pc' = [pc EXCEPT ![w] = "notify"]
      BY <2>3, <2>4
    <2>5. CASE pc' = WakeAll([pc EXCEPT ![w] = "notify"])
      <3>1. \A v \in Slots : \/ pc'[v] = [pc EXCEPT ![w] = "notify"][v]
                             \/ /\ [pc EXCEPT ![w] = "notify"][v] = "waiting"
                                /\ pc'[v] = "claim"
        BY <2>2, <2>5, WakeAllMoves
      <3>2. QED
        BY <2>3, <3>1
    <2>6. QED
      BY <2>1, <2>4, <2>5
  <1>6. \A v \in Slots : v # w => job[v] # k
    BY <1>2 DEF ClaimsConsistent
  <1>7. ASSUME NEW v \in Slots
        PROVE  /\ ~Active(w)' /\ (v # w => (Active(v)' <=> Active(v)))
               /\ (v # w /\ pc[v] = "dead" => pc'[v] = "dead")
    BY <1>5 DEF Active
  <1>8. ASSUME NEW y \in Systems
        PROVE  running'[y] = Cardinality(InFlightOf(y)') /\ running'[y] <= Cap[y]
    <2>1. /\ running[y] = Cardinality(InFlightOf(y)) /\ running[y] <= Cap[y]
          /\ IsFiniteSet(InFlightOf(y)) /\ Cardinality(InFlightOf(y)) \in Nat
          /\ Cap[y] \in Nat /\ running \in [Systems -> Nat]
      BY InFlightFinite, ConstantsOK DEF ClaimsConsistent, TypeOK
    <2>2. CASE System[k] = y
      <3>1. InFlightOf(y)' = InFlightOf(y) \ {k} /\ k \in InFlightOf(y)
        BY <1>1, <1>2, <2>2 DEF InFlightOf
      <3>2. Cardinality(InFlightOf(y)') = Cardinality(InFlightOf(y)) - 1
            /\ Cardinality(InFlightOf(y)') \in Nat
        BY <2>1, <3>1, FS_RemoveElement, FS_CardinalityType
      <3>3. running'[y] = running[y] - 1
        BY <1>1, <2>1, <2>2, <3>2
      <3>4. QED
        BY <2>1, <3>2, <3>3
    <2>3. CASE System[k] # y
      <3>1. InFlightOf(y)' = InFlightOf(y)
        BY <1>1, <2>3 DEF InFlightOf
      <3>2. running'[y] = running[y]
        BY <1>1, <2>1, <2>3
      <3>3. QED
        BY <2>1, <3>1, <3>2
    <2>4. QED
      BY <2>2, <2>3
  <1>9. claimed' = recorded' + Cardinality(inFlight')
    <2>1. Cardinality(inFlight') = Cardinality(inFlight) - 1
      BY <1>1, <1>2, InFlightFinite, FS_RemoveElement
    <2>2. /\ claimed = recorded + Cardinality(inFlight)
          /\ recorded \in Nat /\ Cardinality(inFlight) \in Nat
      BY InFlightFinite DEF ClaimsConsistent, TypeOK
    <2>3. QED
      BY <1>1, <2>1, <2>2
  <1>10. ClaimsConsistent'
    <2>1. \A v \in Slots : Active(v)' => job'[v] \in inFlight' /\ job'[v] \notin Attempted'
      BY <1>1, <1>3, <1>6, <1>7 DEF ClaimsConsistent
    <2>2. \A q \in inFlight' : \E v \in Slots : job'[v] = q
      BY <1>1 DEF ClaimsConsistent
    <2>3. ASSUME NEW v \in Slots, job'[v] \in inFlight'
          PROVE  Active(v)' \/ pc'[v] = "dead"
      <3>1. v # w /\ job[v] \in inFlight
        BY <1>1, <2>3
      <3>2. Active(v) \/ pc[v] = "dead"
        BY <3>1 DEF ClaimsConsistent
      <3>3. QED
        BY <1>7, <3>1, <3>2
    <2>4. \A u, v \in Slots : job'[u] \in inFlight' /\ job'[u] = job'[v] => u = v
      BY <1>1 DEF ClaimsConsistent
    <2>5. QED
      BY <1>8, <1>9, <2>1, <2>2, <2>3, <2>4 DEF ClaimsConsistent
  <1>11. SlotHistory'
    <2>1. \A v \in Slots : job'[v] \in inFlight' \/ job'[v] \in Attempted' \/ job'[v] = NoKey
      BY <1>1, <1>3 DEF SlotHistory
    <2>2. main # "start"
      BY <1>1 DEF SlotHistory
    <2>3. QED
      BY <1>1, <2>1, <2>2 DEF SlotHistory
  <1>12. LaunchHistory'
    BY <1>1, <1>3, <1>4 DEF LaunchHistory
  <1>13. QED
    BY <1>10, <1>11, <1>12 DEF Bookkeeping

\* A failed append leaves the claim with the dead thread, with or without its row.
LEMMA RecordFailsStep ==
  ASSUME IInv, NEW w \in Slots, RecordFails(w)
  PROVE  Bookkeeping'
  <1> USE DEF IInv
  <1>1. /\ pc[w] = "record" /\ pc' = [pc EXCEPT ![w] = "dead"]
        /\ inFlight' = inFlight /\ running' = running /\ claimed' = claimed
        /\ launched' = launched /\ recorded' = recorded /\ job' = job /\ main' = main
        /\ ledger' = Append(ledger, NewRow(w)) \/ ledger' = ledger
    BY DEF RecordFails, claims, counts, reporting
  <1>2. /\ Attempted' = Attempted \/ Attempted' = Attempted \cup {job[w]}
        /\ NoRepeats(ledger')
        /\ \A i, j \in DOMAIN ledger' :
              (i < j /\ launched[ledger'[i].key] > 0) => launched[ledger'[j].key] > 0
    <2>1. CASE ledger' = ledger
      BY <2>1 DEF Attempted, LaunchHistory
    <2>2. CASE ledger' = Append(ledger, NewRow(w))
      BY <1>1, <2>2, RowAdded
    <2>3. QED
      BY <1>1, <2>1, <2>2
  <1>3. job[w] \in inFlight /\ Pending' = Pending
    <2>1. job[w] \in inFlight
      BY <1>1 DEF ClaimsConsistent, Active
    <2>2. QED
      BY <1>1, <1>2, <2>1 DEF Pending
  <1>4. /\ pc \in [Slots -> PcValues] /\ pc'[w] = "dead" /\ ~Active(w)'
        /\ \A v \in Slots : v # w => pc'[v] = pc[v] /\ (Active(v)' <=> Active(v))
    BY <1>1 DEF TypeOK, Active
  <1>5. \A v \in Slots : v # w => job[v] # job[w]
    BY <1>3 DEF ClaimsConsistent
  <1>6. \A y \in Systems : InFlightOf(y)' = InFlightOf(y)
    BY <1>1 DEF InFlightOf
  <1>7. ClaimsConsistent'
    <2>1. \A v \in Slots : Active(v)' => job'[v] \in inFlight' /\ job'[v] \notin Attempted'
      BY <1>1, <1>2, <1>4, <1>5 DEF ClaimsConsistent
    <2>2. \A v \in Slots : job'[v] \in inFlight' => Active(v)' \/ pc'[v] = "dead"
      BY <1>1, <1>4 DEF ClaimsConsistent
    <2>3. QED
      BY <1>1, <1>6, <2>1, <2>2 DEF ClaimsConsistent
  <1>8. SlotHistory'
    <2>1. main # "start"
      BY <1>1 DEF SlotHistory
    <2>2. QED
      BY <1>1, <1>2, <2>1 DEF SlotHistory
  <1>9. LaunchHistory'
    BY <1>1, <1>2, <1>3 DEF LaunchHistory
  <1>10. QED
    BY <1>7, <1>8, <1>9 DEF Bookkeeping

\* The other steps of a thread are quiet.
LEMMA ThreadStep ==
  ASSUME IInv, NEW w \in Slots, Claim(w) \/ Work(w)
  PROVE  Bookkeeping'
  <1>1. Bookkeeping /\ pc \in [Slots -> PcValues] /\ {"claim", "done", "notify"} \subseteq PcValues
    BY DEF IInv, Bookkeeping, TypeOK, PcValues
  <1>2. ASSUME UNCHANGED <<ledger, claims, recorded, job, main>>, main # "start",
               NEW there \in PcValues \ {"run", "record", "orphaned", "lost"},
               ~Active(w), pc[w] # "dead",
               \/ pc' = [pc EXCEPT ![w] = there]
               \/ pc' = WakeAll([pc EXCEPT ![w] = there])
        PROVE  Bookkeeping'
    <2>1. [pc EXCEPT ![w] = there] \in [Slots -> PcValues]
      BY <1>1
    <2>2. \A v \in Slots : [pc EXCEPT ![w] = there][v] = IF v = w THEN there ELSE pc[v]
      BY <1>1
    <2>3. CASE pc' = [pc EXCEPT ![w] = there]
      <3>1. \A v \in Slots : (Active(v)' <=> Active(v)) /\ (pc[v] = "dead" => pc'[v] = "dead")
        BY <1>2, <2>2, <2>3 DEF Active
      <3>2. QED
        BY <1>1, <1>2, <3>1, QuietStep
    <2>4. CASE pc' = WakeAll([pc EXCEPT ![w] = there])
      <3>1. \A v \in Slots : \/ pc'[v] = [pc EXCEPT ![w] = there][v]
                             \/ /\ [pc EXCEPT ![w] = there][v] = "waiting"
                                /\ pc'[v] = "claim"
        BY <2>1, <2>4, WakeAllMoves
      <3>2. \A v \in Slots : (Active(v)' <=> Active(v)) /\ (pc[v] = "dead" => pc'[v] = "dead")
        BY <1>2, <2>2, <3>1 DEF Active
      <3>3. QED
        BY <1>1, <1>2, <3>2, QuietStep
    <2>5. QED
      BY <1>2, <2>3, <2>4
  <1>3. pc[w] # "unstarted" => main # "start"
    BY DEF IInv, SlotHistory
  <1>4. CASE ClaimStopped(w) \/ ClaimUnreadable(w) \/ ClaimCapBlocked(w)
    <2>1. /\ pc[w] = "claim" /\ UNCHANGED <<ledger, claims, recorded, job, main>>
          /\ \E there \in {"done", "dead", "blocked"} : pc' = [pc EXCEPT ![w] = there]
      BY <1>4 DEF ClaimStopped, ClaimUnreadable, ClaimCapBlocked, Searching,
                  disk, counts, reporting
    <2>2. QED
      BY <1>2, <1>3, <2>1 DEF Active, PcValues
  <1>5. CASE ClaimLimit(w) \/ ClaimInterrupted(w) \/ ClaimNothing(w)
    <2>1. /\ pc[w] = "claim" /\ UNCHANGED <<ledger, claims, recorded, job, main>>
          /\ pc' = WakeAll([pc EXCEPT ![w] = "done"])
      BY <1>5 DEF ClaimLimit, ClaimInterrupted, ClaimNothing, ClaimStops, Searching,
                  disk, counts, reporting
    <2>2. QED
      BY <1>2, <1>3, <2>1 DEF Active, PcValues
  <1>6. CASE Wait(w) \/ PollTimeout(w)
    <2>1. /\ pc[w] \in {"blocked", "waiting"} /\ UNCHANGED <<ledger, claims, recorded, job, main>>
          /\ \E there \in {"waiting", "claim"} : pc' = [pc EXCEPT ![w] = there]
      BY <1>6 DEF Wait, PollTimeout, disk, counts, reporting
    <2>2. QED
      BY <1>2, <1>3, <2>1 DEF Active, PcValues
  <1>7. CASE Notify(w)
    <2>1. /\ pc[w] = "notify" /\ UNCHANGED <<ledger, claims, recorded, job, main>>
          /\ pc' = WakeAll([pc EXCEPT ![w] = "claim"])
      BY <1>7 DEF Notify, disk, counts, reporting
    <2>2. QED
      BY <1>2, <1>3, <2>1 DEF Active, PcValues
  <1>8. CASE FinishEpisode(w)
    <2>1. /\ pc[w] = "run" /\ pc' = [pc EXCEPT ![w] = "record"]
          /\ UNCHANGED <<ledger, claims, recorded, job, main>>
      BY <1>8 DEF FinishEpisode, disk, counts, reporting
    <2>2. \A v \in Slots : (Active(v)' <=> Active(v)) /\ (pc[v] = "dead" => pc'[v] = "dead")
      BY <1>1, <2>1 DEF Active
    <2>3. QED
      BY <1>1, <1>3, <2>1, <2>2, QuietStep
  <1>9. CASE RecordRefused(w)
    \* Only an unreadable ledger refuses the row of a live claim; the claim stays.
    <2>1. /\ pc[w] = "record" /\ pc' = [pc EXCEPT ![w] = "dead"]
          /\ UNCHANGED <<ledger, claims, recorded, job, main>>
      BY <1>9 DEF RecordRefused, disk, counts, reporting
    <2>2. /\ Attempted' = Attempted /\ Pending' = Pending
          /\ \A y \in Systems : InFlightOf(y)' = InFlightOf(y)
      BY <2>1 DEF Attempted, Pending, InFlightOf, claims
    <2>3. \A v \in Slots : /\ Active(v)' => Active(v)
                           /\ Active(v) \/ pc[v] = "dead" => Active(v)' \/ pc'[v] = "dead"
      BY <1>1, <2>1 DEF Active
    <2>0. /\ inFlight' = inFlight /\ running' = running /\ claimed' = claimed
          /\ recorded' = recorded /\ job' = job /\ ClaimsConsistent
      BY <1>1, <2>1 DEF claims, Bookkeeping
    <2>4. ClaimsConsistent'
      <3>1. \A v \in Slots : Active(v)' => job'[v] \in inFlight' /\ job'[v] \notin Attempted'
        <4> TAKE v \in Slots
        <4>1. CASE v = w
          BY <1>1, <2>1, <4>1 DEF Active
        <4>2. CASE v # w
          <5>1. pc'[v] = pc[v] /\ job'[v] = job[v]
            BY <1>1, <2>0, <2>1, <4>2
          <5>2. QED
            BY <2>0, <2>2, <5>1 DEF ClaimsConsistent, Active
        <4>3. QED
          BY <4>1, <4>2
      <3>2. \A k \in inFlight' : \E v \in Slots : job'[v] = k
        BY <2>0 DEF ClaimsConsistent
      <3>3. \A v \in Slots : job'[v] \in inFlight' => Active(v)' \/ pc'[v] = "dead"
        BY <2>0, <2>3 DEF ClaimsConsistent
      <3>4. \A u, v \in Slots : job'[u] \in inFlight' /\ job'[u] = job'[v] => u = v
        BY <2>0 DEF ClaimsConsistent
      <3>5. \A y \in Systems : /\ running'[y] = Cardinality(InFlightOf(y)')
                               /\ running'[y] <= Cap[y]
        BY <2>0, <2>2 DEF ClaimsConsistent
      <3>6. claimed' = recorded' + Cardinality(inFlight')
        BY <2>0 DEF ClaimsConsistent
      <3>7. QED
        BY <3>1, <3>2, <3>3, <3>4, <3>5, <3>6 DEF ClaimsConsistent
    <2>5. SlotHistory' /\ LaunchHistory'
      BY <1>1, <1>3, <2>1, <2>2 DEF Bookkeeping, SlotHistory, LaunchHistory, claims
    <2>6. QED
      BY <2>4, <2>5 DEF Bookkeeping
  <1>10. QED
    BY <1>4, <1>5, <1>6, <1>7, <1>8, <1>9, ClaimEpisodeStep, RecordRowStep, RecordFailsStep
       DEF Claim, Work

\* The main thread is quiet: it reads the ledger, reports waves, starts the threads,
\* and a crash keeps every attempt with its thread.
LEMMA MainStep ==
  ASSUME IInv, Main
  PROVE  Bookkeeping'
  <1>1. Bookkeeping /\ pc \in [Slots -> PcValues]
    BY DEF IInv, Bookkeeping, TypeOK
  <1>2. CASE ReadLedger \/ FinalizeWave \/ JoinAll
    <2>1. /\ UNCHANGED <<ledger, claims, recorded, job, pc>>
          /\ main' = main \/ main' = "final"
      BY <1>2 DEF ReadLedger, FinalizeWave, JoinAll, disk, counts, threads
    <2>2. \A v \in Slots : Active(v)' <=> Active(v)
      BY <2>1 DEF Active
    <2>3. QED
      BY <1>1, <2>1, <2>2, QuietStep DEF Bookkeeping, SlotHistory
  <1>3. CASE ReadLedgerFails \/ FinalizeFails
    <2>1. UNCHANGED <<ledger, claims, recorded, job>> /\ Crash
      BY <1>3 DEF ReadLedgerFails, FinalizeFails, disk, counts
    <2>3. \A v \in Slots : main' = "start" => pc'[v] = "unstarted"
      BY <2>1 DEF Crash
    <2>4. UNCHANGED <<ledger, claims, recorded, job>>
      BY <2>1
    <2>5. \A v \in Slots : Active(v)' <=> Active(v)
      BY <1>1, <2>1 DEF Crash, Active, PcValues
    <2>6. \A v \in Slots : pc[v] = "dead" => pc'[v] = "dead"
      BY <1>1, <2>1 DEF Crash, PcValues
    <2>7. QED
      BY <1>1, <2>3, <2>4, <2>5, <2>6, QuietStep
  <1>4. CASE EndScan
    <2>1. UNCHANGED <<ledger, claims, recorded, job>> /\ main' # "start"
      BY <1>4 DEF EndScan, Scanning, disk, counts
    <2>2. \A v \in Slots : main' = "start" => pc'[v] = "unstarted"
      BY <2>1
    <2>3. \A v \in Slots : (pc[v] = "unstarted" /\ pc'[v] = "claim") \/ pc'[v] = pc[v]
      BY <1>1, <1>4 DEF EndScan, Bookkeeping, SlotHistory
    <2>4. \A v \in Slots : Active(v)' <=> Active(v)
      BY <2>3 DEF Active
    <2>5. \A v \in Slots : pc[v] = "dead" => pc'[v] = "dead"
      BY <2>3
    <2>6. UNCHANGED <<ledger, claims, recorded, job>>
      BY <2>1
    <2>7. QED
      BY <1>1, <2>2, <2>4, <2>5, <2>6, QuietStep
  <1>5. QED
    BY <1>2, <1>3, <1>4 DEF Main

LEMMA StepInv == IInv /\ [Next]_vars => IInv'
  <1> SUFFICES ASSUME IInv, [Next]_vars
               PROVE  IInv'
    OBVIOUS
  <1>1. ASSUME NEW w \in Slots, Claim(w) \/ Work(w)
        PROVE  IInv'
    BY <1>1, ClaimType, WorkType, ThreadStep DEF IInv, Bookkeeping
  <1>2. CASE Main
    BY <1>2, MainType, MainStep DEF IInv, Bookkeeping
  <1>3. CASE UNCHANGED vars
    <2>1. TypeOK'
      BY <1>3 DEF vars, IInv, TypeOK, disk, claims, counts, threads, reporting
    <2>2. UNCHANGED <<ledger, claims, recorded, job, pc, main>>
      BY <1>3 DEF vars, disk, counts, threads, reporting
    <2>3. \A v \in Slots : Active(v)' <=> Active(v)
      BY <2>2 DEF Active
    <2>4. Bookkeeping'
      BY <2>2, <2>3, QuietStep DEF IInv, Bookkeeping, SlotHistory
    <2>5. QED
      BY <2>1, <2>4 DEF IInv, Bookkeeping
  <1>4. QED
    BY <1>1, <1>2, <1>3 DEF Next, Finished

-----------------------------------------------------------------------------
(* The theorems.                                                           *)

LEMMA Invariance == Spec => []IInv
  BY InitInv, StepInv, PTL DEF Spec

\* Every variable of the dispatcher keeps its type: no counter underflows, no thread
\* records a row without an episode.
THEOREM TypeCorrect == Spec => []TypeOK
  <1>1. IInv => TypeOK
    BY DEF IInv
  <1>2. QED
    BY <1>1, Invariance, PTL

\* A claim belongs to one thread, has no row yet, and is counted against its cap,
\* whichever append or wave report fails.
THEOREM ClaimsAreConsistent == Spec => []ClaimsConsistent
  <1>1. IInv => ClaimsConsistent
    BY DEF IInv
  <1>2. QED
    BY <1>1, Invariance, PTL

\* Exact-once: within one invocation no episode is started twice, none that an
\* earlier invocation recorded is started, and the ledger holds no key twice.
THEOREM ExactOnce == Spec => []AttemptedOnce
  <1>1. IInv => AttemptedOnce
    BY DEF IInv, LaunchHistory, AttemptedOnce
  <1>2. QED
    BY <1>1, Invariance, PTL

\* The slots that run episodes of a system at one time never exceed its cap.
THEOREM CapsNeverExceeded == Spec => []CapsHold
  <1>1. ASSUME IInv, NEW y \in Systems
        PROVE  Cardinality({w \in Slots : pc[w] = "run" /\ System[job[w]] = y}) <= Cap[y]
    <2> DEFINE Runners == {w \in Slots : pc[w] = "run" /\ System[job[w]] = y}
               f == [w \in Runners |-> job[w]]
    <2>1. \A w \in Runners : job[w] \in InFlightOf(y)
      BY <1>1 DEF IInv, ClaimsConsistent, Active, InFlightOf
    <2>2. \A v, w \in Runners : job[v] = job[w] => v = w
      BY <1>1, <2>1 DEF IInv, ClaimsConsistent, InFlightOf
    <2>3. f \in Injection(Runners, InFlightOf(y))
      BY <2>1, <2>2 DEF Injection, IsInjective
    <2>4. IsFiniteSet(InFlightOf(y)) /\ Cardinality(InFlightOf(y)) \in Nat
      BY <1>1, InFlightFinite DEF IInv
    <2>5. IsFiniteSet(Runners) /\ Cardinality(Runners) <= Cardinality(InFlightOf(y))
      BY <2>3, <2>4, FS_Injection
    <2>6. Cardinality(Runners) \in Nat
      BY <2>5, FS_CardinalityType
    <2>7. Cardinality(InFlightOf(y)) <= Cap[y] /\ Cap[y] \in Nat
      BY <1>1, ConstantsOK DEF IInv, ClaimsConsistent
    <2>8. QED
      BY <2>4, <2>5, <2>6, <2>7
  <1>2. IInv => CapsHold
    BY <1>1 DEF CapsHold
  <1>3. QED
    BY <1>2, Invariance, PTL

-----------------------------------------------------------------------------
(* What an invocation leaves behind: the inductive invariant, on top of IInv. *)

Started == \E w \in Slots : pc[w] # "unstarted"

\* Which steps the threads can be in follows from where the main thread is.
PcByMain ==
    /\ main = "loop" => \A w \in Slots :
          pc[w] \in {"claim", "blocked", "waiting", "run", "record", "notify", "done", "dead"}
    /\ main \in {"final", "done"} => \A w \in Slots : pc[w] \in {"done", "dead"}
    /\ main = "crashed" => \A w \in Slots :
          pc[w] \in {"unstarted", "done", "dead", "killed", "orphaned", "lost"}
    /\ Launched # {} => Started

\* The last ledger row of wave n.
EndOf(n) == n * WaveSize

\* The waves handled so far are the first ones, those of the rows a scan has read.
WavesInOrder ==
    /\ seen <= Len(ledger)
    /\ \A n \in finalizedWaves : EndOf(n) <= seen /\ 1..n \subseteq finalizedWaves
    /\ \A i, j \in DOMAIN reported : i < j => reported[i] < reported[j]

\* A handled wave was reported or skipped for its rows, unless its report crashed.
WavesByRows ==
    /\ \A i \in DOMAIN reported : reported[i] \in finalizedWaves /\ WaveValid(reported[i])
    /\ \A i \in DOMAIN skipped : skipped[i] \in finalizedWaves /\ ~WaveValid(skipped[i])
    /\ main # "crashed" => \A n \in finalizedWaves :
          \/ \E i \in DOMAIN reported : reported[i] = n
          \/ \E i \in DOMAIN skipped : skipped[i] = n

\* Every wave that ends in the first so many rows was handled.
Handled(rows) == \A n \in Nat \ {0} : EndOf(n) <= rows => n \in finalizedWaves

\* The rows of earlier invocations are handled before a thread exists, and the last
\* scan is over the whole ledger.
WavesOnTime ==
    /\ Started => Handled(Cardinality(Attempted \ Launched))
    /\ main \in {"start", "final"} /\ scan = "waves" => seen = Len(ledger)
    /\ main = "done" => Handled(Len(ledger))

WavesInv == WavesInOrder /\ WavesByRows /\ WavesOnTime

Busy == {w \in Slots : pc[w] \in {"run", "record"}}

\* The invalid rows of this invocation.
InvalidRows == {i \in DOMAIN ledger : ledger[i].key \in Launched /\ ~ledger[i].ok}

\* An invalid row stops the run; what may follow it is in a slot already.
StopFollows ==
    StopOnFirstInvalid /\ "whole" \notin IoFaults => \A i \in InvalidRows :
        stop # "none" /\ Len(ledger) - i + Cardinality(Busy) < Cardinality(Slots)

\* The counters and the stop reason tell what was done.
ResultFollows ==
    /\ claimed = Cardinality(Launched)
    /\ invalid = 0 /\ ~Died => InvalidRows = {}
    /\ \A w \in Slots : pc[w] = "done" => stop # "none"
    /\ stop = "queue_exhausted" /\ ~Died => Pending = {}
    /\ stop = "systems_drained" => Pending # {} /\ \A k \in Pending : OutsidePhase(k)

\* Nothing is torn and no thread dies as long as no append fails.
NoFaultNoLoss == IoFaults = {} => ~torn /\ ~Died

OutcomeInv == StopFollows /\ ResultFollows /\ NoFaultNoLoss

AllInv == IInv /\ PcByMain /\ WavesInv /\ OutcomeInv
-----------------------------------------------------------------------------
(* What a step of a thread can change.                                     *)

Alive == {"claim", "blocked", "waiting", "run", "record", "notify"}

LEMMA ThreadMoves ==
  ASSUME IInv, PcByMain, NEW w \in Slots, Claim(w) \/ Work(w)
  PROVE  /\ main = "loop" /\ UNCHANGED reporting /\ pc[w] \in Alive
         /\ pc'[w] \in Alive \cup {"done", "dead"}
         /\ \A v \in Slots : \/ v = w \/ pc'[v] = pc[v]
                             \/ pc[v] = "waiting" /\ pc'[v] = "claim"
  <1>1. pc \in [Slots -> PcValues] /\ main \in {"start", "loop", "final", "done", "crashed"}
    BY DEF IInv, TypeOK
  <1>2. UNCHANGED reporting /\ pc[w] \in Alive
    BY DEF Claim, ClaimStopped, ClaimLimit, ClaimInterrupted, ClaimUnreadable, ClaimEpisode,
           ClaimCapBlocked, ClaimNothing, ClaimStops, Searching, Work, Wait, PollTimeout,
           FinishEpisode, RecordRow, RecordRefused, RecordFails, Notify, Alive
  <1>3. main = "loop"
    BY <1>1, <1>2 DEF IInv, SlotHistory, PcByMain, Alive
  <1>4. \E there \in Alive \cup {"done", "dead"} :
            \/ pc' = [pc EXCEPT ![w] = there]
            \/ pc' = WakeAll([pc EXCEPT ![w] = there])
    <2>1. CASE Claim(w)
      BY <2>1 DEF Claim, ClaimStopped, ClaimLimit, ClaimInterrupted, ClaimUnreadable,
                  ClaimEpisode, ClaimCapBlocked, ClaimNothing, ClaimStops, Alive
    <2>2. CASE RecordRow(w)
      BY <2>2 DEF RecordRow, Alive
    <2>3. CASE Work(w) /\ ~RecordRow(w)
      BY <2>3 DEF Work, Wait, PollTimeout, FinishEpisode, RecordRefused, RecordFails, Notify,
                  Alive
    <2>4. QED
      BY <2>1, <2>2, <2>3
  <1>5. PICK there \in Alive \cup {"done", "dead"} :
            \/ pc' = [pc EXCEPT ![w] = there]
            \/ pc' = WakeAll([pc EXCEPT ![w] = there])
    BY <1>4
  <1> DEFINE at == [pc EXCEPT ![w] = there]
  <1>6. /\ at \in [Slots -> PcValues]
        /\ \A v \in Slots : at[v] = IF v = w THEN there ELSE pc[v]
    BY <1>1, <1>5 DEF Alive, PcValues
  <1>7. \A v \in Slots : \/ pc'[v] = at[v]
                         \/ at[v] = "waiting" /\ pc'[v] = "claim"
    <2>1. pc' = at \/ pc' = WakeAll(at)
      BY <1>5
    <2> HIDE DEF at
    <2>2. QED
      BY <1>6, <2>1, WakeAllMoves
  <1>8. pc'[w] \in Alive \cup {"done", "dead"}
    BY <1>5, <1>6, <1>7 DEF Alive
  <1>9. \A v \in Slots : \/ v = w \/ pc'[v] = pc[v]
                         \/ pc[v] = "waiting" /\ pc'[v] = "claim"
    BY <1>6, <1>7
  <1>10. QED
    BY <1>2, <1>3, <1>8, <1>9

\* A thread launches an episode without a row, or appends the row of one it launched.
Launches(w) == /\ ledger' = ledger
               /\ \E k \in Keys \ (Attempted \cup Launched) : Launched' = Launched \cup {k}
AppendsRow(w) ==
    /\ pc[w] = "record" /\ launched' = launched
    /\ ledger' = Append(ledger, NewRow(w)) /\ NewRow(w) \in Row
    /\ job[w] \in Launched /\ job[w] \notin Attempted

LEMMA ThreadRows ==
  ASSUME IInv, NEW w \in Slots, Claim(w) \/ Work(w)
  PROVE  \/ ClaimEpisode(w) /\ Launches(w)
         \/ (RecordRow(w) \/ RecordFails(w)) /\ AppendsRow(w)
         \/ ~ClaimEpisode(w) /\ ~RecordRow(w) /\ ledger' = ledger /\ launched' = launched
  <1>1. CASE ClaimEpisode(w)
    <2>1. PICK k \in Claimable : launched' = [launched EXCEPT ![k] = @ + 1]
      BY <1>1 DEF ClaimEpisode
    <2>2. k \in Pending /\ k \in Keys /\ k \notin Attempted
      BY <2>1 DEF Claimable, Pending
    <2>3. launched \in [Keys -> Nat] /\ launched[k] = 0
      BY <2>2 DEF IInv, TypeOK, LaunchHistory
    <2>4. Launched' = Launched \cup {k} /\ k \notin Launched
      BY <2>1, <2>2, <2>3 DEF Launched
    <2>5. ledger' = ledger
      BY <1>1 DEF ClaimEpisode, disk
    <2>6. QED
      BY <1>1, <2>2, <2>4, <2>5 DEF Launches
  <1>2. ASSUME pc[w] = "record"
        PROVE  NewRow(w) \in Row /\ job[w] \in Launched /\ job[w] \notin Attempted
    <2>1. job[w] \in inFlight /\ job[w] \notin Attempted
      BY <1>2 DEF IInv, ClaimsConsistent, Active
    <2>2. job[w] \in Keys /\ launched[job[w]] > 0
      BY <2>1 DEF IInv, TypeOK, LaunchHistory
    <2>3. NewRow(w) \in Row
      BY <2>2 DEF IInv, TypeOK, NewRow, Row
    <2>4. QED
      BY <2>1, <2>2, <2>3 DEF Launched
  <1>3. CASE RecordRow(w)
    BY <1>2, <1>3 DEF RecordRow, AppendsRow
  <1>4. CASE RecordFails(w)
    <2>1. /\ pc[w] = "record" /\ launched' = launched
          /\ ledger' = Append(ledger, NewRow(w)) \/ ledger' = ledger
      BY <1>4 DEF RecordFails, claims
    <2>2. ~ClaimEpisode(w)
      BY <2>1 DEF ClaimEpisode, Searching
    <2>3. QED
      BY <1>2, <1>3, <1>4, <2>1, <2>2 DEF AppendsRow
  <1>5. CASE (Claim(w) \/ Work(w)) /\ ~ClaimEpisode(w) /\ ~RecordRow(w) /\ ~RecordFails(w)
    <2>1. UNCHANGED disk /\ UNCHANGED claims
      BY <1>5 DEF Claim, ClaimStopped, ClaimLimit, ClaimInterrupted, ClaimUnreadable,
                  ClaimCapBlocked, ClaimNothing, ClaimStops, Work, Wait, PollTimeout,
                  FinishEpisode, RecordRefused, Notify
    <2>2. QED
      BY <1>5, <2>1 DEF disk, claims
  <1>6. QED
    BY <1>1, <1>3, <1>4, <1>5

\* Either way the rows of earlier invocations stay what they are.
LEMMA PriorRowsStay ==
  ASSUME IInv, NEW w \in Slots, Claim(w) \/ Work(w)
  PROVE  /\ Attempted' \ Launched' = Attempted \ Launched
         /\ Launched \subseteq Launched'
  <1>1. CASE Launches(w)
    BY <1>1 DEF Launches, Attempted
  <1>2. CASE AppendsRow(w)
    <2>1. ledger \in Seq(Row)
      BY DEF IInv, TypeOK
    <2>2. Attempted' = Attempted \cup {NewRow(w).key}
      BY <1>2, <2>1, AppendRow DEF AppendsRow, Attempted
    <2>3. NewRow(w).key = job[w]
      BY DEF NewRow
    <2>4. Launched' = Launched
      BY <1>2 DEF AppendsRow, Launched
    <2>5. QED
      BY <1>2, <2>2, <2>3, <2>4 DEF AppendsRow
  <1>3. CASE ledger' = ledger /\ launched' = launched
    BY <1>3 DEF Attempted, Launched
  <1>4. QED
    BY <1>1, <1>2, <1>3, ThreadRows

\* A crash of the main thread, and the start of the threads by it.
LEMMA CrashMoves ==
  ASSUME IInv, Crash
  PROVE  /\ main' = "crashed"
         /\ \A v \in Slots :
              /\ pc'[v] \in {"unstarted", "done", "dead", "killed", "orphaned", "lost"}
              /\ pc'[v] \in {"unstarted", "done", "dead"} => pc'[v] = pc[v]
              /\ pc[v] \in {"unstarted", "done", "dead"} => pc'[v] = pc[v]
              /\ pc[v] = "unstarted" <=> pc'[v] = "unstarted"
  BY DEF Crash, IInv, TypeOK, PcValues

-----------------------------------------------------------------------------
(* Waves and rows.                                                         *)

LEMMA WaveBounds ==
  ASSUME NEW n \in Nat \ {0}
  PROVE  /\ EndOf(n) \in Nat /\ Wave(n) \subseteq 1..EndOf(n)
         /\ \A m \in Nat \ {0} : m <= n => EndOf(m) <= EndOf(n)
  <1>1. WaveSize \in Nat \ {0}
    BY ConstantsOK
  <1>2. (n - 1) * WaveSize \in Nat /\ n * WaveSize \in Nat
    BY <1>1
  <1>3. ASSUME NEW m \in Nat \ {0}, m <= n
        PROVE  m * WaveSize <= n * WaveSize
    <2>1. (n - m) * WaveSize \in Nat
      BY <1>1, <1>3
    <2>2. n * WaveSize = m * WaveSize + (n - m) * WaveSize
      BY <1>1, <1>3
    <2>3. m * WaveSize \in Nat
      BY <1>1
    <2>4. QED
      BY <2>1, <2>2, <2>3
  <1>4. QED
    BY <1>2, <1>3 DEF EndOf, Wave

\* The waves of so many rows, counted by division, are those that end in them.
LEMMA WaveCount ==
  ASSUME NEW rows \in Nat, NEW n \in Nat \ {0}
  PROVE  n \in 1..(rows \div WaveSize) <=> EndOf(n) <= rows
  <1>1. WaveSize \in Nat \ {0}
    BY ConstantsOK
  <1> DEFINE q == rows \div WaveSize
  <1>2. q \in Nat /\ WaveSize * q <= rows /\ rows < WaveSize * (q + 1)
    BY <1>1
  <1> HIDE DEF q
  <1>3. CASE n <= q
    <2>1. WaveSize * q = WaveSize * n + WaveSize * (q - n) /\ WaveSize * (q - n) \in Nat
      BY <1>1, <1>2, <1>3
    <2>2. WaveSize * n \in Nat /\ WaveSize * q \in Nat /\ EndOf(n) = WaveSize * n
      BY <1>1, <1>2 DEF EndOf
    <2>3. QED
      BY <1>2, <1>3, <2>1, <2>2 DEF q
  <1>4. CASE n > q
    <2>1. /\ WaveSize * n = WaveSize * (q + 1) + WaveSize * (n - (q + 1))
          /\ WaveSize * (n - (q + 1)) \in Nat
      BY <1>1, <1>2, <1>4
    <2>2. /\ WaveSize * n \in Nat /\ WaveSize * (q + 1) \in Nat
          /\ EndOf(n) = WaveSize * n
      BY <1>1, <1>2 DEF EndOf
    <2>3. QED
      BY <1>2, <1>4, <2>1, <2>2 DEF q
  <1>5. QED
    BY <1>2, <1>3, <1>4

LEMMA PriorRowsFit ==
  ASSUME IInv
  PROVE  /\ Cardinality(Attempted \ Launched) \in Nat
         /\ Cardinality(Attempted \ Launched) <= Len(ledger)
  <1> DEFINE f == [i \in 1..Len(ledger) |-> ledger[i].key]
  <1>1. DOMAIN ledger = 1..Len(ledger) /\ Len(ledger) \in Nat
    BY LedgerRows DEF IInv, TypeOK
  <1>2. f \in Surjection(1..Len(ledger), Attempted)
    BY <1>1 DEF Attempted, KeysOf, Surjection
  <1>3. IsFiniteSet(1..Len(ledger)) /\ Cardinality(1..Len(ledger)) = Len(ledger)
    <2> DEFINE n == Len(ledger)
    <2>1. n \in Nat /\ 1 \in Int /\ n \in Int
      BY <1>1
    <2> HIDE DEF n
    <2>2. /\ IsFiniteSet(1..n)
          /\ Cardinality(1..n) = IF 1 > n THEN 0 ELSE n - 1 + 1
      BY <2>1, FS_Interval
    <2>3. IsFiniteSet(1..n) /\ Cardinality(1..n) = n
      BY <2>1, <2>2
    <2>4. QED
      BY <2>3 DEF n
  <1>4. IsFiniteSet(Attempted) /\ Cardinality(Attempted) <= Len(ledger)
    BY <1>2, <1>3, FS_Surjection
  <1>5. /\ IsFiniteSet(Attempted \ Launched)
        /\ Cardinality(Attempted \ Launched) <= Cardinality(Attempted)
    BY <1>4, FS_Subset
  <1>6. Cardinality(Attempted \ Launched) \in Nat /\ Cardinality(Attempted) \in Nat
    BY <1>4, <1>5, FS_CardinalityType
  <1>7. QED
    BY <1>1, <1>4, <1>5, <1>6

\* A handled wave keeps its rows when another is appended.
LEMMA WaveKeepsRows ==
  ASSUME IInv, WavesInOrder, NEW w \in Slots, ledger' = ledger \/ AppendsRow(w),
         NEW n \in finalizedWaves
  PROVE  /\ WaveValid(n)' <=> WaveValid(n)
         /\ Len(ledger') \in Nat /\ Len(ledger) <= Len(ledger')
  <1>1. /\ ledger \in Seq(Row) /\ Len(ledger) \in Nat /\ DOMAIN ledger = 1..Len(ledger)
        /\ n \in Nat \ {0} /\ seen \in Nat /\ EndOf(n) <= seen /\ seen <= Len(ledger)
    BY LenProperties DEF IInv, TypeOK, WavesInOrder
  <1>2. \A i \in Wave(n) : i \in 1..Len(ledger)
    BY <1>1, WaveBounds
  <1>3. \A i \in 1..Len(ledger) : ledger'[i] = ledger[i]
    BY <1>1, AppendProperties DEF AppendsRow
  <1>4. Wave(n)' = Wave(n)
    BY DEF Wave
  <1>5. Len(ledger') \in Nat /\ Len(ledger) <= Len(ledger')
    BY <1>1, AppendProperties DEF AppendsRow
  <1>6. QED
    BY <1>2, <1>3, <1>4, <1>5 DEF WaveValid

-----------------------------------------------------------------------------
(* The main thread, the slots and the waves.                               *)

LEMMA ThreadPc ==
  ASSUME IInv, PcByMain, NEW w \in Slots, Claim(w) \/ Work(w)
  PROVE  PcByMain'
  <1>1. /\ main = "loop" /\ main' = "loop" /\ pc'[w] \in Alive \cup {"done", "dead"}
        /\ \A v \in Slots : \/ v = w \/ pc'[v] = pc[v]
                            \/ pc[v] = "waiting" /\ pc'[v] = "claim"
    BY ThreadMoves DEF reporting
  <1>2. \A v \in Slots : pc'[v] \in Alive \cup {"done", "dead"}
    BY <1>1 DEF PcByMain, Alive
  <1>3. Started'
    BY <1>2 DEF Started, Alive
  <1>4. QED
    BY <1>1, <1>2, <1>3 DEF PcByMain, Alive

LEMMA MainPc ==
  ASSUME IInv, PcByMain, Main
  PROVE  PcByMain' /\ Launched' = Launched
  <1>1. CASE ReadLedger \/ FinalizeWave
    <2>1. UNCHANGED <<main, pc, launched>>
      BY <1>1 DEF ReadLedger, FinalizeWave, threads, claims
    <2>2. QED
      BY <2>1 DEF PcByMain, Started, Launched
  <1>2. CASE ReadLedgerFails \/ FinalizeFails
    <2>1. Crash /\ launched' = launched
      BY <1>2 DEF ReadLedgerFails, FinalizeFails, claims
    <2>2. Started => Started'
      BY <2>1, CrashMoves DEF Started
    <2>3. QED
      BY <2>1, <2>2, CrashMoves DEF PcByMain, Launched
  <1>3. CASE EndScan
    <2>1. /\ launched' = launched
          /\ \/ main = "start" /\ main' = "loop" /\ pc' = [w \in Slots |-> "claim"]
             \/ main = "loop" /\ main' = "loop" /\ pc' = pc
             \/ main = "final" /\ main' = "done" /\ pc' = pc
      BY <1>3 DEF EndScan, Scanning, claims
    <2>2. Started => Started'
      BY <2>1 DEF Started
    <2>3. QED
      BY <2>1, <2>2 DEF PcByMain, Launched
  <1>4. CASE JoinAll
    BY <1>4 DEF JoinAll, Ended, PcByMain, threads, claims, Launched, Started
  <1>5. QED
    BY <1>1, <1>2, <1>3, <1>4 DEF Main

LEMMA ThreadWaves ==
  ASSUME IInv, PcByMain, WavesInv, NEW w \in Slots, Claim(w) \/ Work(w)
  PROVE  WavesInv'
  <1>1. /\ main = "loop" /\ pc[w] \in Alive
        /\ main' = main /\ scan' = scan /\ seen' = seen /\ finalizedWaves' = finalizedWaves
        /\ reported' = reported /\ skipped' = skipped
    BY ThreadMoves DEF reporting
  <1>2. ledger' = ledger \/ AppendsRow(w)
    BY ThreadRows DEF Launches
  <1>3. /\ ledger \in Seq(Row) /\ Len(ledger) \in Nat /\ seen \in Nat
        /\ finalizedWaves \subseteq Nat \ {0}
    BY LedgerRows DEF IInv, TypeOK
  <1>4. Len(ledger') \in Nat /\ Len(ledger) <= Len(ledger')
    BY <1>2, <1>3, AppendProperties DEF AppendsRow
  <1>5. \A n \in finalizedWaves : WaveValid(n)' <=> WaveValid(n)
    BY <1>2, WaveKeepsRows DEF WavesInv
  <1>6. WavesInOrder'
    BY <1>1, <1>3, <1>4 DEF WavesInv, WavesInOrder, EndOf
  <1>7. WavesByRows'
    <2>1. \A i \in DOMAIN reported' : /\ reported'[i] \in finalizedWaves'
                                      /\ WaveValid(reported[i])'
      BY <1>1, <1>5 DEF WavesInv, WavesByRows
    <2>2. \A i \in DOMAIN skipped' : /\ skipped'[i] \in finalizedWaves'
                                     /\ ~WaveValid(skipped[i])'
      BY <1>1, <1>5 DEF WavesInv, WavesByRows
    <2>3. QED
      BY <1>1, <2>1, <2>2 DEF WavesInv, WavesByRows
  <1>8. WavesOnTime'
    <2>1. Started
      BY <1>1 DEF Started, Alive
    <2>2. Attempted' \ Launched' = Attempted \ Launched
      BY PriorRowsStay
    <2>3. QED
      BY <1>1, <2>1, <2>2 DEF WavesInv, WavesOnTime, Handled, EndOf
  <1>9. QED
    BY <1>6, <1>7, <1>8 DEF WavesInv

\* The wave a scan handles next is the one after all that were handled.
LEMMA NextWave ==
  ASSUME IInv, WavesInOrder, NEW n \in Unfinalized, \A m \in Unfinalized : n <= m
  PROVE  /\ n \in Nat \ {0} /\ n \notin finalizedWaves /\ EndOf(n) <= seen
         /\ 1..n \subseteq finalizedWaves \cup {n}
         /\ \A m \in finalizedWaves : m < n
  <1>1. seen \in Nat /\ finalizedWaves \subseteq Nat \ {0}
    BY DEF IInv, TypeOK
  <1>2. n \in 1..(seen \div WaveSize) /\ n \notin finalizedWaves
    BY DEF Unfinalized
  <1>3. n \in Nat \ {0}
    BY <1>2
  <1>4. EndOf(n) <= seen
    BY <1>1, <1>2, <1>3, WaveCount
  <1>5. ASSUME NEW m \in 1..n, m # n
        PROVE  m \in finalizedWaves
    <2>1. m \in Nat \ {0} /\ m <= n
      BY <1>3, <1>5
    <2>2. EndOf(m) \in Nat /\ EndOf(n) \in Nat /\ EndOf(m) <= EndOf(n)
      BY <1>3, <2>1, WaveBounds
    <2>3. EndOf(m) <= seen
      BY <1>1, <1>4, <2>2
    <2>4. m \in 1..(seen \div WaveSize)
      BY <1>1, <2>1, <2>3, WaveCount
    <2>5. QED
      BY <1>3, <1>5, <2>1, <2>4 DEF Unfinalized
  <1>6. ASSUME NEW m \in finalizedWaves
        PROVE  m < n
    <2>1. n <= m => n \in 1..m
      BY <1>1, <1>3
    <2>2. QED
      BY <1>1, <1>2, <1>3, <2>1 DEF WavesInOrder
  <1>7. QED
    BY <1>2, <1>3, <1>4, <1>5, <1>6

LEMMA AppendWave ==
  ASSUME NEW q \in Seq(Nat \ {0}), NEW n \in Nat \ {0}
  PROVE  /\ DOMAIN q = 1..Len(q) /\ Len(q) \in Nat
         /\ DOMAIN Append(q, n) = 1..(Len(q) + 1)
         /\ Append(q, n)[Len(q) + 1] = n
         /\ \A i \in DOMAIN q : q[i] \in Nat \ {0} /\ Append(q, n)[i] = q[i]
  BY AppendProperties, LenProperties, ElementOfSeq

LEMMA FinalizeWaves ==
  ASSUME IInv, WavesInv, FinalizeWave
  PROVE  WavesInv'
  <1>1. PICK n \in Unfinalized :
           /\ \A m \in Unfinalized : n <= m
           /\ finalizedWaves' = finalizedWaves \cup {n}
           /\ \/ WaveValid(n) /\ reported' = Append(reported, n) /\ skipped' = skipped
              \/ ~WaveValid(n) /\ skipped' = Append(skipped, n) /\ reported' = reported
    BY DEF FinalizeWave
  <1>2. /\ n \in Nat \ {0} /\ n \notin finalizedWaves /\ EndOf(n) <= seen
        /\ 1..n \subseteq finalizedWaves \cup {n} /\ \A m \in finalizedWaves : m < n
    BY <1>1, NextWave DEF WavesInv
  <1>3. /\ ledger' = ledger /\ launched' = launched /\ pc' = pc /\ main' = main
        /\ scan' = scan /\ seen' = seen
    BY DEF FinalizeWave, disk, claims, threads
  <1>4. /\ reported \in Seq(Nat \ {0}) /\ skipped \in Seq(Nat \ {0})
        /\ finalizedWaves \subseteq Nat \ {0} /\ Scanning
    BY DEF IInv, TypeOK, FinalizeWave
  <1>5. WavesInOrder'
    <2>1. /\ seen' <= Len(ledger')
          /\ \A m \in finalizedWaves' :
                EndOf(m)' <= seen' /\ 1..m \subseteq finalizedWaves'
      BY <1>1, <1>2, <1>3 DEF WavesInv, WavesInOrder, EndOf
    <2>2. \A i, j \in DOMAIN reported' : i < j => reported'[i] < reported'[j]
      <3>1. CASE reported' = reported
        BY <3>1 DEF WavesInv, WavesInOrder
      <3>2. CASE reported' = Append(reported, n)
        <4>1. \A i \in DOMAIN reported : reported[i] < n
          BY <1>2 DEF WavesInv, WavesByRows
        <4>2. /\ DOMAIN reported = 1..Len(reported) /\ Len(reported) \in Nat
              /\ DOMAIN reported' = 1..(Len(reported) + 1)
              /\ reported'[Len(reported) + 1] = n
              /\ \A i \in DOMAIN reported : reported'[i] = reported[i]
          BY <1>2, <1>4, <3>2, AppendWave
        <4>3. \A i, j \in DOMAIN reported : i < j => reported[i] < reported[j]
          BY DEF WavesInv, WavesInOrder
        <4>4. QED
          BY <4>1, <4>2, <4>3
      <3>3. QED
        BY <1>1, <3>1, <3>2
    <2>3. QED
      BY <2>1, <2>2 DEF WavesInOrder
  <1>6. WavesByRows'
    <2>2. /\ DOMAIN reported = 1..Len(reported) /\ Len(reported) \in Nat
          /\ DOMAIN Append(reported, n) = 1..(Len(reported) + 1)
          /\ Append(reported, n)[Len(reported) + 1] = n
          /\ \A i \in DOMAIN reported : Append(reported, n)[i] = reported[i]
      BY <1>2, <1>4, AppendWave
    <2>3. /\ DOMAIN skipped = 1..Len(skipped) /\ Len(skipped) \in Nat
          /\ DOMAIN Append(skipped, n) = 1..(Len(skipped) + 1)
          /\ Append(skipped, n)[Len(skipped) + 1] = n
          /\ \A i \in DOMAIN skipped : Append(skipped, n)[i] = skipped[i]
      BY <1>2, <1>4, AppendWave
    <2>4. /\ \A i \in DOMAIN reported' : \/ i \in DOMAIN reported /\ reported'[i] = reported[i]
                                         \/ reported'[i] = n /\ WaveValid(n)
          /\ \A i \in DOMAIN reported : i \in DOMAIN reported' /\ reported'[i] = reported[i]
      BY <1>1, <2>2
    <2>5. /\ \A i \in DOMAIN skipped' : \/ i \in DOMAIN skipped /\ skipped'[i] = skipped[i]
                                        \/ skipped'[i] = n /\ ~WaveValid(n)
          /\ \A i \in DOMAIN skipped : i \in DOMAIN skipped' /\ skipped'[i] = skipped[i]
      BY <1>1, <2>3
    <2>6. \/ \E i \in DOMAIN reported' : reported'[i] = n
          \/ \E i \in DOMAIN skipped' : skipped'[i] = n
      BY <1>1, <2>2, <2>3
    <2>7. \A m \in finalizedWaves' : main # "crashed" =>
             \/ \E i \in DOMAIN reported' : reported'[i] = m
             \/ \E i \in DOMAIN skipped' : skipped'[i] = m
      BY <1>1, <2>4, <2>5, <2>6 DEF WavesInv, WavesByRows
    <2>8. /\ \A i \in DOMAIN reported' : /\ reported'[i] \in finalizedWaves'
                                         /\ WaveValid(reported[i])'
          /\ \A i \in DOMAIN skipped' : /\ skipped'[i] \in finalizedWaves'
                                        /\ ~WaveValid(skipped[i])'
      <3>1. \A i \in DOMAIN reported' : /\ reported'[i] \in finalizedWaves'
                                        /\ WaveValid(reported'[i])
        BY <1>1, <2>4 DEF WavesInv, WavesByRows
      <3>2. \A i \in DOMAIN skipped' : /\ skipped'[i] \in finalizedWaves'
                                       /\ ~WaveValid(skipped'[i])
        BY <1>1, <2>5 DEF WavesInv, WavesByRows
      <3>3. QED
        BY <1>3, <3>1, <3>2 DEF WaveValid, Wave
    <2>9. QED
      BY <1>3, <2>7, <2>8 DEF WavesByRows
  <1>7. WavesOnTime'
    BY <1>1, <1>3, <1>4 DEF WavesInv, WavesOnTime, Scanning, Started, Handled, EndOf,
                            Attempted, Launched
  <1>8. QED
    BY <1>5, <1>6, <1>7 DEF WavesInv

\* A crash in a scan leaves the wave handled whose report raised.
LEMMA CrashWaves ==
  ASSUME IInv, WavesInv, ReadLedgerFails \/ FinalizeFails
  PROVE  WavesInv'
  <1>1. /\ ledger' = ledger /\ launched' = launched /\ scan' = scan /\ seen' = seen
        /\ reported' = reported /\ skipped' = skipped /\ main' = "crashed"
        /\ Started' <=> Started
    <2>1. Crash
      BY DEF ReadLedgerFails, FinalizeFails
    <2>2. main' = "crashed" /\ (Started' <=> Started)
      BY <2>1, CrashMoves DEF Started
    <2>3. QED
      BY <2>2 DEF ReadLedgerFails, FinalizeFails, disk, claims
  <1>2. /\ finalizedWaves \subseteq finalizedWaves'
        /\ \A n \in finalizedWaves' : EndOf(n) <= seen /\ 1..n \subseteq finalizedWaves'
    <2>1. CASE ReadLedgerFails
      BY <2>1 DEF ReadLedgerFails, WavesInv, WavesInOrder
    <2>2. CASE FinalizeFails
      <3>1. PICK n \in Unfinalized : /\ \A m \in Unfinalized : n <= m
                                     /\ finalizedWaves' = finalizedWaves \cup {n}
        BY <2>2 DEF FinalizeFails
      <3>2. EndOf(n) <= seen /\ 1..n \subseteq finalizedWaves \cup {n}
        BY <3>1, NextWave DEF WavesInv
      <3>3. QED
        BY <3>1, <3>2 DEF WavesInv, WavesInOrder
    <2>3. QED
      BY <2>1, <2>2
  <1>3. WavesInOrder'
    BY <1>1, <1>2 DEF WavesInv, WavesInOrder, EndOf
  <1>4. WavesByRows'
    <2>1. /\ \A i \in DOMAIN reported : WaveValid(reported[i])' <=> WaveValid(reported[i])
          /\ \A i \in DOMAIN skipped : WaveValid(skipped[i])' <=> WaveValid(skipped[i])
      BY <1>1 DEF WaveValid, Wave
    <2>2. QED
      BY <1>1, <1>2, <2>1 DEF WavesInv, WavesByRows
  <1>5. WavesOnTime'
    BY <1>1, <1>2 DEF WavesInv, WavesOnTime, Handled, EndOf, Attempted, Launched
  <1>6. QED
    BY <1>3, <1>4, <1>5 DEF WavesInv

\* When a scan ends every wave of the rows it read was handled.
LEMMA EndScanWaves ==
  ASSUME IInv, WavesInv, EndScan
  PROVE  WavesInv'
  <1>1. /\ ledger' = ledger /\ launched' = launched /\ scan = "waves" /\ scan' = "poll"
        /\ seen' = seen /\ finalizedWaves' = finalizedWaves
        /\ reported' = reported /\ skipped' = skipped /\ Unfinalized = {}
        /\ \/ main = "start" /\ main' = "loop"
           \/ main = "loop" /\ main' = "loop" /\ pc' = pc
           \/ main = "final" /\ main' = "done" /\ pc' = pc
    BY DEF EndScan, Scanning, disk, claims
  <1>2. Len(ledger) \in Nat /\ seen \in Nat
    BY LedgerRows DEF IInv, TypeOK
  <1>3. Handled(seen)
    <2> SUFFICES ASSUME NEW n \in Nat \ {0}, EndOf(n) <= seen
                 PROVE  n \in finalizedWaves
      BY DEF Handled
    <2>1. n \in 1..(seen \div WaveSize)
      BY <1>2, WaveCount
    <2>2. QED
      BY <1>1, <2>1 DEF Unfinalized
  <1>4. main # "loop" => seen = Len(ledger)
    BY <1>1 DEF WavesInv, WavesOnTime
  <1>5. WavesInOrder'
    BY <1>1 DEF WavesInv, WavesInOrder, EndOf
  <1>6. WavesByRows'
    <2>1. /\ \A i \in DOMAIN reported : WaveValid(reported[i])' <=> WaveValid(reported[i])
          /\ \A i \in DOMAIN skipped : WaveValid(skipped[i])' <=> WaveValid(skipped[i])
      BY <1>1 DEF WaveValid, Wave
    <2>2. QED
      BY <1>1, <2>1 DEF WavesInv, WavesByRows
  <1>7. WavesOnTime'
    <2>1. Attempted' = Attempted /\ Launched' = Launched
      BY <1>1 DEF Attempted, Launched
    <2>2. main = "start" => Handled(Cardinality(Attempted \ Launched))
      <3>1. /\ Cardinality(Attempted \ Launched) \in Nat
            /\ Cardinality(Attempted \ Launched) <= Len(ledger)
        BY PriorRowsFit
      <3>2. \A n \in Nat \ {0} : EndOf(n) \in Nat
        BY WaveBounds
      <3>3. QED
        BY <1>2, <1>3, <1>4, <3>1, <3>2 DEF Handled
    <2>3. Started' => Handled(Cardinality(Attempted \ Launched))
      BY <1>1, <2>2 DEF WavesInv, WavesOnTime, Started
    <2>4. main' = "done" => Handled(Len(ledger))
      BY <1>1, <1>3, <1>4
    <2>5. QED
      BY <1>1, <2>1, <2>3, <2>4 DEF WavesOnTime, Handled, EndOf
  <1>8. QED
    BY <1>5, <1>6, <1>7 DEF WavesInv

LEMMA MainWaves ==
  ASSUME IInv, WavesInv, Main
  PROVE  WavesInv'
  <1>1. CASE ReadLedger \/ JoinAll
    <2>1. /\ ledger' = ledger /\ launched' = launched /\ pc' = pc
          /\ finalizedWaves' = finalizedWaves /\ reported' = reported /\ skipped' = skipped
          /\ \/ main' = main /\ seen' = Len(ledger) /\ scan' = "waves" /\ main # "done"
             \/ main = "loop" /\ main' = "final" /\ seen' = seen /\ scan' = "poll"
      BY <1>1 DEF ReadLedger, JoinAll, Scanning, disk, claims, threads
    <2>2. Len(ledger) \in Nat /\ seen \in Nat /\ \A n \in finalizedWaves : EndOf(n) \in Nat
      BY LedgerRows, WaveBounds DEF IInv, TypeOK
    <2>3. WavesInOrder'
      BY <2>1, <2>2 DEF WavesInv, WavesInOrder, EndOf
    <2>4. WavesByRows'
      <3>1. /\ \A i \in DOMAIN reported : WaveValid(reported[i])' <=> WaveValid(reported[i])
            /\ \A i \in DOMAIN skipped : WaveValid(skipped[i])' <=> WaveValid(skipped[i])
        BY <2>1 DEF WaveValid, Wave
      <3>2. QED
        BY <2>1, <3>1 DEF WavesInv, WavesByRows
    <2>5. WavesOnTime'
      BY <2>1 DEF WavesInv, WavesOnTime, Started, Handled, EndOf, Attempted, Launched
    <2>6. QED
      BY <2>3, <2>4, <2>5 DEF WavesInv
  <1>2. QED
    BY <1>1, FinalizeWaves, CrashWaves, EndScanWaves DEF Main

-----------------------------------------------------------------------------
(* The result of run().                                                    *)

LEMMA InvalidRowsGrow ==
  ASSUME IInv, NEW w \in Slots
  PROVE  /\ Launches(w) => InvalidRows' = InvalidRows
         /\ ledger' = ledger /\ launched' = launched => InvalidRows' = InvalidRows
         /\ AppendsRow(w) =>
              /\ Len(ledger') = Len(ledger) + 1
              /\ InvalidRows' = InvalidRows \cup (IF valid[w] THEN {} ELSE {Len(ledger) + 1})
  <1>1. /\ ledger \in Seq(Row) /\ DOMAIN ledger = 1..Len(ledger) /\ Len(ledger) \in Nat
        /\ \A i \in DOMAIN ledger : ledger[i].key \in Attempted
    BY LedgerRows DEF IInv, TypeOK, Attempted, KeysOf
  <1>2. ASSUME Launches(w)
        PROVE  InvalidRows' = InvalidRows
    <2>1. PICK k \in Keys \ (Attempted \cup Launched) : Launched' = Launched \cup {k}
      BY <1>2 DEF Launches
    <2>2. \A i \in DOMAIN ledger : ledger[i].key \in Launched' <=> ledger[i].key \in Launched
      BY <1>1, <2>1
    <2>3. ledger' = ledger
      BY <1>2 DEF Launches
    <2>4. QED
      BY <2>2, <2>3 DEF InvalidRows
  <1>3. ledger' = ledger /\ launched' = launched => InvalidRows' = InvalidRows
    BY DEF InvalidRows, Launched
  <1>4. ASSUME AppendsRow(w)
        PROVE  /\ Len(ledger') = Len(ledger) + 1
               /\ InvalidRows' = InvalidRows \cup (IF valid[w] THEN {} ELSE {Len(ledger) + 1})
    <2>1. /\ Len(ledger') = Len(ledger) + 1 /\ DOMAIN ledger' = 1..(Len(ledger) + 1)
          /\ \A i \in 1..Len(ledger) : ledger'[i] = ledger[i]
          /\ ledger'[Len(ledger) + 1] = NewRow(w)
      BY <1>1, <1>4, AppendProperties DEF AppendsRow
    <2>2. /\ NewRow(w).key \in Launched /\ NewRow(w).ok = valid[w] /\ Launched' = Launched
      BY <1>4 DEF AppendsRow, NewRow, Launched
    <2>3. \A i : i \in InvalidRows' <=>
                   i \in InvalidRows \/ (i = Len(ledger) + 1 /\ ~valid[w])
      BY <1>1, <2>1, <2>2 DEF InvalidRows
    <2>4. QED
      BY <2>1, <2>3
  <1>5. QED
    BY <1>2, <1>3, <1>4

\* The episodes nobody has claimed change only by a claim.
LEMMA PendingStays ==
  ASSUME IInv, NEW w \in Slots, Claim(w) \/ Work(w), ~ClaimEpisode(w)
  PROVE  Pending' = Pending
  <1>1. CASE RecordRow(w)
    <2>1. /\ AppendsRow(w) /\ inFlight' = inFlight \ {job[w]} /\ job[w] \in inFlight
      BY <1>1, ThreadRows DEF RecordRow, Release, IInv, ClaimsConsistent, Active
    <2>2. Attempted' = Attempted \cup {job[w]}
      BY <2>1, AppendRow DEF AppendsRow, Attempted, NewRow, IInv, TypeOK
    <2>3. QED
      BY <2>1, <2>2 DEF Pending
  <1>2. CASE RecordFails(w)
    <2>1. /\ inFlight' = inFlight /\ job[w] \in inFlight
      BY <1>2 DEF RecordFails, claims, IInv, ClaimsConsistent, Active
    <2>2. CASE AppendsRow(w)
      <3>1. Attempted' = Attempted \cup {job[w]}
        BY <2>2, AppendRow DEF AppendsRow, Attempted, NewRow, IInv, TypeOK
      <3>2. QED
        BY <2>1, <3>1 DEF Pending
    <2>3. CASE ledger' = ledger
      BY <2>1, <2>3 DEF Pending, Attempted
    <2>4. QED
      BY <2>2, <2>3, ThreadRows
  <1>3. CASE (Claim(w) \/ Work(w)) /\ ~ClaimEpisode(w) /\ ~RecordRow(w) /\ ~RecordFails(w)
    <2>1. UNCHANGED disk /\ UNCHANGED claims
      BY <1>3 DEF Claim, ClaimStopped, ClaimLimit, ClaimInterrupted, ClaimUnreadable,
                  ClaimCapBlocked, ClaimNothing, ClaimStops, Work, Wait, PollTimeout,
                  FinishEpisode, RecordRefused, Notify
    <2>2. QED
      BY <2>1 DEF disk, claims, Pending, Attempted
  <1>4. QED
    BY <1>1, <1>2, <1>3

\* How a step of a thread sets the stop reason.
LEMMA ThreadStops ==
  ASSUME NEW w \in Slots, Claim(w) \/ Work(w)
  PROVE  /\ stop # "none" => stop' = stop
         /\ ClaimEpisode(w) => stop = "none" /\ stop' = "none"
         /\ stop' = "queue_exhausted" => stop' = stop \/ Pending = {}
         /\ stop' = "systems_drained" =>
              \/ stop' = stop
              \/ Pending # {} /\ \A k \in Pending : OutsidePhase(k)
         /\ RecordRow(w) /\ StopsRun(w) => stop' # "none"
  <1>1. /\ ClaimEpisode(w) => stop = "none" /\ stop' = "none"
        /\ RecordRow(w) /\ StopsRun(w) => stop' # "none"
    BY DEF ClaimEpisode, Searching, RecordRow, StopWith
  <1> DEFINE Told == /\ stop # "none" => stop' = stop
                     /\ stop' = "queue_exhausted" => stop' = stop \/ Pending = {}
                     /\ stop' = "systems_drained" =>
                          \/ stop' = stop
                          \/ Pending # {} /\ \A k \in Pending : OutsidePhase(k)
  <1>2. CASE ClaimLimit(w) \/ ClaimInterrupted(w)
    <2>1. PICK reason \in {"claim_limit_reached", "drain_requested", "free_space_reserve"} :
             StopWith(reason)
      BY <1>2, ConstantsOK DEF ClaimLimit, ClaimInterrupted, ClaimStops
    <2>2. Told
      BY <2>1 DEF StopWith
    <2>3. QED
      BY <1>1, <2>2
  <1>3. CASE ClaimNothing(w)
    <2>1. /\ StopWith(IF Pending # {} THEN "systems_drained" ELSE "queue_exhausted")
          /\ \A k \in Pending : OutsidePhase(k)
      BY <1>3 DEF ClaimNothing, ClaimStops
    <2>2. Told
      BY <2>1 DEF StopWith
    <2>3. QED
      BY <1>1, <2>2
  <1>4. CASE RecordRow(w)
    <2>1. stop' = stop \/ (stop = "none" /\ stop' = "invalid_episode")
      BY <1>4 DEF RecordRow, StopWith
    <2>2. QED
      BY <1>1, <2>1
  <1>5. CASE UNCHANGED stop
    BY <1>1, <1>5
  <1>6. QED
    BY <1>2, <1>3, <1>4, <1>5 DEF Claim, ClaimStopped, ClaimUnreadable, ClaimEpisode,
       ClaimCapBlocked, Work, Wait, PollTimeout, FinishEpisode, RecordRefused, RecordFails,
       Notify

\* A thread leaves its loop only when claiming has stopped, and dies only of a fault.
LEMMA ThreadEnds ==
  ASSUME IInv, NEW w \in Slots, Claim(w) \/ Work(w)
  PROVE  /\ pc'[w] = "done" => stop' # "none"
         /\ IoFaults = {} /\ ~torn => ~torn' /\ pc'[w] # "dead"
         /\ RecordFails(w) => pc'[w] = "dead"
         /\ RecordRow(w) => pc'[w] = "notify"
         /\ pc'[w] \in {"run", "record"} => ClaimEpisode(w) \/ pc[w] = "run"
  <1>1. pc \in [Slots -> PcValues]
    BY DEF IInv, TypeOK
  <1>2. ASSUME NEW there \in Alive \cup {"done", "dead"}, there # "waiting",
               pc' = [pc EXCEPT ![w] = there] \/ pc' = WakeAll([pc EXCEPT ![w] = there])
        PROVE  pc'[w] = there
    <2> DEFINE at == [pc EXCEPT ![w] = there]
    <2>1. at \in [Slots -> PcValues] /\ at[w] = there
      BY <1>1, <1>2 DEF Alive, PcValues
    <2>2. pc' = at \/ pc' = WakeAll(at)
      BY <1>2
    <2> HIDE DEF at
    <2>3. QED
      BY <1>2, <2>1, <2>2, WakeAllMoves
  <1>3. ASSUME NEW reason \in StopReasons \ {"none"}, ClaimStops(w, reason)
        PROVE  stop' # "none" /\ torn' = torn /\ pc'[w] = "done"
    BY <1>2, <1>3 DEF ClaimStops, StopWith, disk
  <1>4. CASE ClaimLimit(w) \/ ClaimInterrupted(w) \/ ClaimNothing(w)
    <2>1. PICK reason \in StopReasons \ {"none"} : ClaimStops(w, reason)
      BY <1>4, ConstantsOK DEF ClaimLimit, ClaimInterrupted, ClaimNothing, StopReasons
    <2>2. pc[w] = "claim"
      BY <1>4 DEF ClaimLimit, ClaimInterrupted, ClaimNothing, Searching
    <2>3. QED
      BY <1>3, <2>1, <2>2 DEF RecordFails, RecordRow
  <1>5. CASE ClaimStopped(w) \/ ClaimUnreadable(w) \/ ClaimCapBlocked(w)
    <2>1. /\ pc[w] = "claim" /\ stop' = stop /\ torn' = torn
          /\ \/ pc' = [pc EXCEPT ![w] = "done"] /\ stop # "none"
             \/ pc' = [pc EXCEPT ![w] = "dead"] /\ torn
             \/ pc' = [pc EXCEPT ![w] = "blocked"]
      BY <1>5 DEF ClaimStopped, ClaimUnreadable, ClaimCapBlocked, Searching, disk
    <2>2. QED
      BY <1>1, <2>1 DEF RecordFails, RecordRow
  <1>6. CASE ClaimEpisode(w)
    <2>1. pc[w] = "claim" /\ torn' = torn /\ pc' = [pc EXCEPT ![w] = "run"]
      BY <1>6 DEF ClaimEpisode, Searching, disk
    <2>2. QED
      BY <1>1, <1>6, <2>1 DEF RecordFails, RecordRow
  <1>7. CASE Wait(w) \/ PollTimeout(w) \/ FinishEpisode(w)
    <2>1. /\ torn' = torn /\ pc[w] # "record"
          /\ \/ pc' = [pc EXCEPT ![w] = "waiting"]
             \/ pc' = [pc EXCEPT ![w] = "claim"]
             \/ pc' = [pc EXCEPT ![w] = "record"] /\ pc[w] = "run"
      BY <1>7 DEF Wait, PollTimeout, FinishEpisode, disk
    <2>2. QED
      BY <1>1, <2>1 DEF RecordFails, RecordRow
  <1>8. CASE Notify(w)
    <2>1. pc'[w] = "claim"
      BY <1>2, <1>8 DEF Notify, Alive
    <2>2. QED
      BY <1>8, <2>1 DEF Notify, disk, RecordFails, RecordRow
  <1>9. CASE RecordRow(w)
    <2>1. pc'[w] = "notify"
      BY <1>2, <1>9 DEF RecordRow, Alive
    <2>2. torn' = torn
      BY <1>9 DEF RecordRow
    <2>3. ~RecordFails(w)
      BY <1>1, <2>1 DEF RecordFails
    <2>4. QED
      BY <2>1, <2>2, <2>3
  <1>10. CASE RecordFails(w)
    <2>1. pc'[w] = "dead" /\ IoFaults # {}
      BY <1>1, <1>10 DEF RecordFails
    <2>2. pc' # [pc EXCEPT ![w] = "notify"] /\ ~RecordRow(w)
      <3>1. RecordRow(w) => pc'[w] = "notify"
        BY <1>2 DEF RecordRow, Alive
      <3>2. QED
        BY <1>1, <2>1, <3>1
    <2>3. QED
      BY <2>1, <2>2
  <1>11. CASE RecordRefused(w)
    <2>1. /\ pc[w] = "record" /\ ~Recordable(job[w]) /\ torn' = torn
          /\ pc' = [pc EXCEPT ![w] = "dead"]
      BY <1>11 DEF RecordRefused, disk
    <2>2. torn
      BY <2>1 DEF Recordable, IInv, ClaimsConsistent, Active
    <2>3. QED
      BY <1>1, <2>1, <2>2 DEF RecordRow, RecordFails
  <1>12. QED
    BY <1>4, <1>5, <1>6, <1>7, <1>8, <1>9, <1>10, <1>11 DEF Claim, Work

LEMMA SlotsFinite ==
  ASSUME IInv
  PROVE  /\ IsFiniteSet(Busy) /\ Cardinality(Busy) \in Nat
         /\ IsFiniteSet(Launched) /\ Cardinality(Launched) \in Nat
         /\ Cardinality(Slots) \in Nat
  <1>1. Busy \subseteq Slots /\ Launched \subseteq Keys
    BY DEF Busy, Launched
  <1>2. IsFiniteSet(Busy) /\ IsFiniteSet(Launched)
    BY <1>1, KeysFinite, ConstantsOK, FS_Subset
  <1>3. QED
    BY <1>2, ConstantsOK, FS_CardinalityType

LEMMA ThreadResult ==
  ASSUME IInv, PcByMain, ResultFollows, NEW w \in Slots, Claim(w) \/ Work(w)
  PROVE  ResultFollows'
  <1>1. /\ pc[w] \in Alive
        /\ \A v \in Slots : \/ v = w \/ pc'[v] = pc[v]
                            \/ pc[v] = "waiting" /\ pc'[v] = "claim"
    BY ThreadMoves
  <1>2. Died => Died'
    BY <1>1 DEF Died, Alive
  <1>3. claimed' = Cardinality(Launched')
    <2>1. CASE ClaimEpisode(w)
      <3>1. claimed' = claimed + 1
        BY <2>1 DEF ClaimEpisode
      <3>2. PICK k \in Keys \ (Attempted \cup Launched) : Launched' = Launched \cup {k}
        BY <2>1, ThreadRows DEF Launches, RecordRow, RecordFails, ClaimEpisode, Searching
      <3>3. Cardinality(Launched') = Cardinality(Launched) + 1
        BY <3>2, SlotsFinite, FS_AddElement
      <3>4. QED
        BY <3>1, <3>3 DEF ResultFollows
    <2>2. CASE ~ClaimEpisode(w)
      <3>1. launched' = launched
        BY <2>2, ThreadRows DEF AppendsRow
      <3>2. claimed' = claimed
        BY <2>2 DEF Claim, ClaimStopped, ClaimLimit, ClaimInterrupted, ClaimUnreadable,
                    ClaimCapBlocked, ClaimNothing, ClaimStops, Work, Wait, PollTimeout,
                    FinishEpisode, RecordRow, RecordRefused, RecordFails, Notify, claims
      <3>3. QED
        BY <3>1, <3>2 DEF ResultFollows, Launched
    <2>3. QED
      BY <2>1, <2>2
  <1>4. invalid' = 0 /\ ~Died' => InvalidRows' = {}
    <2> SUFFICES ASSUME invalid' = 0, ~Died'
                 PROVE  InvalidRows' = {}
      OBVIOUS
    <2>1. CASE RecordRow(w)
      <3>1. valid[w] /\ invalid = 0
        BY <2>1 DEF RecordRow, IInv, TypeOK
      <3>2. AppendsRow(w)
        BY <2>1, ThreadRows DEF RecordRow, ClaimEpisode, Searching
      <3>3. QED
        BY <1>2, <3>1, <3>2, InvalidRowsGrow DEF ResultFollows
    <2>2. ~RecordFails(w)
      BY ThreadEnds DEF Died
    <2>3. CASE ~RecordRow(w)
      <3>1. invalid' = invalid
        BY <2>3 DEF Claim, ClaimStopped, ClaimLimit, ClaimInterrupted, ClaimUnreadable,
                    ClaimEpisode, ClaimCapBlocked, ClaimNothing, ClaimStops, Work, Wait,
                    PollTimeout, FinishEpisode, RecordRefused, RecordFails, Notify, counts
      <3>2. InvalidRows' = InvalidRows
        BY <2>2, <2>3, ThreadRows, InvalidRowsGrow
      <3>3. QED
        BY <1>2, <3>1, <3>2 DEF ResultFollows
    <2>4. QED
      BY <2>1, <2>3
  <1>5. \A v \in Slots : pc'[v] = "done" => stop' # "none"
    BY <1>1, ThreadStops, ThreadEnds DEF ResultFollows
  <1>6. Pending' # Pending => stop' = "none"
    BY PendingStays, ThreadStops
  <1>7. stop' = "queue_exhausted" /\ ~Died' => Pending' = {}
    BY <1>2, <1>6, ThreadStops DEF ResultFollows
  <1>8. stop' = "systems_drained" =>
           Pending' # {} /\ \A k \in Pending' : OutsidePhase(k)
    BY <1>6, ThreadStops DEF ResultFollows
  <1>9. QED
    BY <1>3, <1>4, <1>5, <1>7, <1>8 DEF ResultFollows, OutsidePhase

\* After an invalid row only the attempts that are in a slot already can add rows.
LEMMA ThreadStopFollows ==
  ASSUME IInv, PcByMain, StopFollows, NEW w \in Slots, Claim(w) \/ Work(w)
  PROVE  StopFollows'
  <1> SUFFICES ASSUME StopOnFirstInvalid, "whole" \notin IoFaults, NEW i \in InvalidRows'
               PROVE  /\ stop' # "none"
                      /\ Len(ledger') - i + Cardinality(Busy') < Cardinality(Slots)
    BY DEF StopFollows
  <1>1. /\ pc[w] \in Alive
        /\ \A v \in Slots : \/ v = w \/ pc'[v] = pc[v]
                            \/ pc[v] = "waiting" /\ pc'[v] = "claim"
    BY ThreadMoves
  <1>2. /\ \A j \in InvalidRows : /\ stop # "none" /\ j \in Nat
                                  /\ Len(ledger) - j + Cardinality(Busy) < Cardinality(Slots)
        /\ Len(ledger) \in Nat /\ Cardinality(Busy) \in Nat /\ Cardinality(Slots) \in Nat
        /\ IsFiniteSet(Busy)
    BY SlotsFinite, LedgerRows DEF StopFollows, InvalidRows, IInv, TypeOK
  <1>3. CASE ClaimEpisode(w)
    <2>1. InvalidRows' = InvalidRows
      BY <1>3, ThreadRows, InvalidRowsGrow DEF RecordRow, RecordFails, ClaimEpisode, Searching
    <2>2. QED
      BY <1>2, <1>3, <2>1, ThreadStops
  <1>4. CASE RecordRow(w)
    <2>1. /\ AppendsRow(w) /\ w \in Busy
      BY <1>4, ThreadRows DEF RecordRow, ClaimEpisode, Searching, Busy
    <2>2. Busy' = Busy \ {w}
      BY <1>1, <1>4, ThreadEnds DEF Busy
    <2>3. Cardinality(Busy') = Cardinality(Busy) - 1 /\ Cardinality(Busy') \in Nat
      BY <1>2, <2>1, <2>2, FS_RemoveElement, FS_CardinalityType
    <2>4. CASE i \in InvalidRows
      <3>1. Len(ledger') = Len(ledger) + 1
        BY <2>1, InvalidRowsGrow
      <3>2. QED
        BY <1>2, <2>3, <2>4, <3>1, ThreadStops
    <2>5. CASE i \notin InvalidRows
      <3>1. Len(ledger') = Len(ledger) + 1 /\ i = Len(ledger) + 1 /\ ~valid[w]
        BY <2>1, <2>5, InvalidRowsGrow
      <3>2. Cardinality(Busy) <= Cardinality(Slots)
        BY ConstantsOK, FS_Subset DEF Busy
      <3>3. stop' # "none"
        BY <1>4, <3>1, ThreadStops DEF StopsRun
      <3>4. QED
        BY <1>2, <2>3, <3>1, <3>2, <3>3
    <2>6. QED
      BY <2>4, <2>5
  <1>5. CASE ~ClaimEpisode(w) /\ ~RecordRow(w)
    <2>1. ledger' = ledger /\ launched' = launched
      BY <1>5, ThreadRows DEF RecordFails, claims
    <2>2. i \in InvalidRows
      BY <2>1, InvalidRowsGrow
    <2>3. Busy' \subseteq Busy
      BY <1>1, <1>5, ThreadEnds DEF Busy
    <2>4. Cardinality(Busy') <= Cardinality(Busy) /\ Cardinality(Busy') \in Nat
      BY <1>2, <2>3, FS_Subset, FS_CardinalityType
    <2>5. QED
      BY <1>2, <2>1, <2>2, <2>4, ThreadStops
  <1>6. QED
    BY <1>3, <1>4, <1>5

LEMMA ThreadNoLoss ==
  ASSUME IInv, PcByMain, NoFaultNoLoss, NEW w \in Slots, Claim(w) \/ Work(w)
  PROVE  NoFaultNoLoss'
  <1>1. /\ pc[w] \in Alive
        /\ \A v \in Slots : \/ v = w \/ pc'[v] = pc[v]
                            \/ pc[v] = "waiting" /\ pc'[v] = "claim"
    BY ThreadMoves
  <1>2. QED
    BY <1>1, ThreadEnds DEF NoFaultNoLoss, Died

\* The main thread changes the result once, when every thread has died.
LEMMA MainOutcome ==
  ASSUME IInv, PcByMain, OutcomeInv, Main
  PROVE  OutcomeInv'
  <1>1. /\ ledger' = ledger /\ launched' = launched /\ inFlight' = inFlight
        /\ torn' = torn /\ claimed' = claimed /\ invalid' = invalid
    BY DEF Main, ReadLedger, ReadLedgerFails, FinalizeWave, FinalizeFails, EndScan, JoinAll,
           disk, claims, counts
  <1>2. /\ Launched' = Launched /\ InvalidRows' = InvalidRows /\ Pending' = Pending
    BY <1>1 DEF Launched, InvalidRows, Pending, Attempted
  <1>3. /\ \A v \in Slots : pc'[v] = "done" => pc[v] = "done"
        /\ Died' <=> Died
        /\ Busy' \subseteq Busy
    <2>1. CASE ReadLedgerFails \/ FinalizeFails
      <3>1. Crash
        BY <2>1 DEF ReadLedgerFails, FinalizeFails
      <3>2. QED
        BY <3>1, CrashMoves DEF Died, Busy
    <2>2. CASE EndScan
      <3>1. pc' = pc \/ (main = "start" /\ pc' = [v \in Slots |-> "claim"])
        BY <2>2 DEF EndScan
      <3>2. QED
        BY <3>1 DEF IInv, SlotHistory, Died, Busy
    <2>3. CASE ReadLedger \/ FinalizeWave \/ JoinAll
      BY <2>3 DEF ReadLedger, FinalizeWave, JoinAll, threads, Died, Busy
    <2>4. QED
      BY <2>1, <2>2, <2>3 DEF Main
  <1>4. stop' = stop \/ (stop = "none" /\ stop' = "queue_exhausted" /\ Died)
    <2>1. CASE EndScan /\ main = "final" /\ stop = "none"
      <3>1. \A v \in Slots : pc[v] = "dead"
        BY <2>1 DEF PcByMain, OutcomeInv, ResultFollows
      <3>2. QED
        BY <2>1, <3>1, ConstantsOK DEF EndScan, Died
    <2>2. CASE ~(EndScan /\ main = "final" /\ stop = "none")
      BY <2>2 DEF Main, ReadLedger, ReadLedgerFails, FinalizeWave, FinalizeFails, EndScan,
                  JoinAll
    <2>3. QED
      BY <2>1, <2>2
  <1>5. StopFollows'
    <2> SUFFICES ASSUME StopOnFirstInvalid, "whole" \notin IoFaults, NEW i \in InvalidRows
                 PROVE  /\ stop' # "none"
                        /\ Len(ledger) - i + Cardinality(Busy') < Cardinality(Slots)
      BY <1>1, <1>2 DEF StopFollows
    <2>1. /\ Cardinality(Busy') <= Cardinality(Busy) /\ Cardinality(Busy') \in Nat
          /\ Cardinality(Busy) \in Nat /\ Cardinality(Slots) \in Nat
      BY <1>3, SlotsFinite, FS_Subset, FS_CardinalityType
    <2>2. /\ stop # "none" /\ i \in Nat /\ Len(ledger) \in Nat
          /\ Len(ledger) - i + Cardinality(Busy) < Cardinality(Slots)
      BY LedgerRows DEF OutcomeInv, StopFollows, InvalidRows, IInv, TypeOK
    <2>3. QED
      BY <1>4, <2>1, <2>2
  <1>6. ResultFollows'
    BY <1>1, <1>2, <1>3, <1>4 DEF OutcomeInv, ResultFollows, OutsidePhase
  <1>7. NoFaultNoLoss'
    BY <1>1, <1>3 DEF OutcomeInv, NoFaultNoLoss
  <1>8. QED
    BY <1>5, <1>6, <1>7 DEF OutcomeInv

-----------------------------------------------------------------------------
LEMMA AllInit == Init => AllInv
  <1> SUFFICES ASSUME Init PROVE AllInv
    OBVIOUS
  <1>1. IInv
    BY InitInv
  <1>2. Launched = {}
    BY DEF Init, Launched
  <1>3. PcByMain
    BY <1>2 DEF Init, PcByMain
  <1>4. WavesInv
    <2>1. Len(ledger) \in Nat /\ DOMAIN reported = {} /\ DOMAIN skipped = {}
      BY <1>1, LedgerRows DEF IInv, TypeOK, Init
    <2>2. ~Started
      BY DEF Init, Started
    <2>3. WavesInOrder
      BY <2>1 DEF Init, WavesInOrder
    <2>4. WavesByRows
      BY <2>1 DEF Init, WavesByRows
    <2>5. WavesOnTime
      BY <2>2 DEF Init, WavesOnTime
    <2>6. QED
      BY <2>3, <2>4, <2>5 DEF WavesInv
  <1>5. OutcomeInv
    <2>1. InvalidRows = {}
      BY <1>2 DEF InvalidRows
    <2>2. Cardinality(Launched) = 0
      BY <1>2, FS_EmptySet
    <2>3. ~Died /\ \A w \in Slots : pc[w] # "done"
      BY DEF Init, Died
    <2>4. StopFollows
      BY <2>1 DEF StopFollows
    <2>5. ResultFollows
      BY <2>1, <2>2, <2>3 DEF Init, ResultFollows
    <2>6. NoFaultNoLoss
      BY <2>3 DEF Init, NoFaultNoLoss
    <2>7. QED
      BY <2>4, <2>5, <2>6 DEF OutcomeInv
  <1>6. QED
    BY <1>1, <1>3, <1>4, <1>5 DEF AllInv

LEMMA AllStep == AllInv /\ [Next]_vars => AllInv'
  <1> SUFFICES ASSUME AllInv, [Next]_vars
               PROVE  AllInv'
    OBVIOUS
  <1>1. IInv'
    BY StepInv DEF AllInv
  <1>2. ASSUME NEW w \in Slots, Claim(w) \/ Work(w)
        PROVE  AllInv'
    BY <1>1, <1>2, ThreadPc, ThreadWaves, ThreadResult, ThreadStopFollows, ThreadNoLoss
       DEF AllInv, OutcomeInv
  <1>3. CASE Main
    BY <1>1, <1>3, MainPc, MainWaves, MainOutcome DEF AllInv
  <1>4. CASE UNCHANGED vars
    <2>1. /\ UNCHANGED <<ledger, torn, inFlight, running, claimed, launched, recorded, invalid>>
          /\ UNCHANGED <<stop, pc, job, valid>>
          /\ UNCHANGED <<main, scan, seen, finalizedWaves, reported, skipped>>
      BY <1>4 DEF vars, disk, claims, counts, threads, reporting
    <2>2. /\ Launched' = Launched /\ Attempted' = Attempted /\ Pending' = Pending
          /\ InvalidRows' = InvalidRows /\ Busy' = Busy
          /\ (Died' <=> Died) /\ (Started' <=> Started)
      BY <2>1 DEF Launched, Attempted, Pending, InvalidRows, Busy, Died, Started
    <2>3. PcByMain'
      BY <2>1, <2>2 DEF AllInv, PcByMain
    <2>4. WavesInv'
      <3>1. /\ \A i \in DOMAIN reported : WaveValid(reported[i])' <=> WaveValid(reported[i])
            /\ \A i \in DOMAIN skipped : WaveValid(skipped[i])' <=> WaveValid(skipped[i])
        BY <2>1 DEF WaveValid, Wave
      <3>2. WavesByRows'
        BY <2>1, <3>1 DEF AllInv, WavesInv, WavesByRows
      <3>3. WavesInOrder' /\ WavesOnTime'
        BY <2>1, <2>2 DEF AllInv, WavesInv, WavesInOrder, WavesOnTime, Handled, EndOf
      <3>4. QED
        BY <3>2, <3>3 DEF WavesInv
    <2>5. OutcomeInv'
      BY <2>1, <2>2 DEF AllInv, OutcomeInv, StopFollows, ResultFollows, NoFaultNoLoss,
                        OutsidePhase
    <2>6. QED
      BY <1>1, <2>3, <2>4, <2>5 DEF AllInv
  <1>5. QED
    BY <1>2, <1>3, <1>4 DEF Next, Finished

LEMMA AllInvariance == Spec => []AllInv
  BY AllInit, AllStep, PTL DEF Spec

-----------------------------------------------------------------------------
(* The theorems.                                                           *)

\* Whatever append and whichever wave report fails, and whatever ledger the invocation
\* resumes: _finalize_complete_waves() reports complete waves without an invalid row, in
\* order and once, skips only waves with one, handles the waves of earlier invocations
\* before it starts an episode, and has handled all when run() returns.
THEOREM ReportsMatch == Spec => []ReportsMatchLedger
  <1>1. ASSUME AllInv PROVE ReportsMatchLedger
    <2>1. /\ Len(ledger) \in Nat /\ seen \in Nat /\ seen <= Len(ledger)
          /\ finalizedWaves \subseteq Nat \ {0}
      BY <1>1, LedgerRows DEF AllInv, IInv, TypeOK, WavesInv, WavesInOrder
    <2>2. \A n \in finalizedWaves : EndOf(n) \in Nat /\ EndOf(n) <= Len(ledger)
      BY <1>1, <2>1, WaveBounds DEF AllInv, WavesInv, WavesInOrder
    <2>3. \A i, j \in DOMAIN reported : i < j => reported[i] < reported[j]
      BY <1>1 DEF AllInv, WavesInv, WavesInOrder
    <2>4. \A i \in DOMAIN reported : reported[i] * WaveSize <= Len(ledger) /\
             \A r \in ((reported[i] - 1) * WaveSize + 1)..(reported[i] * WaveSize) : ledger[r].ok
      BY <1>1, <2>2 DEF AllInv, WavesInv, WavesByRows, WaveValid, Wave, EndOf
    <2>5. \A i \in DOMAIN skipped : skipped[i] * WaveSize <= Len(ledger) /\
             \E r \in ((skipped[i] - 1) * WaveSize + 1)..(skipped[i] * WaveSize) : ~ledger[r].ok
      BY <1>1, <2>2 DEF AllInv, WavesInv, WavesByRows, WaveValid, Wave, EndOf
    <2>6. ASSUME NEW rows \in Nat, Handled(rows)
          PROVE  1..(rows \div WaveSize) \subseteq finalizedWaves
      <3>1. ASSUME NEW n \in 1..(rows \div WaveSize)
            PROVE  n \in finalizedWaves
        <4>1. n \in Nat \ {0}
          OBVIOUS
        <4>2. QED
          BY <2>6, <4>1, WaveCount DEF Handled
      <3>2. QED
        BY <3>1
    <2>7. Launched # {} =>
             1..(Cardinality(Attempted \ Launched) \div WaveSize) \subseteq finalizedWaves
      BY <1>1, <2>6, PriorRowsFit DEF AllInv, PcByMain, WavesInv, WavesOnTime
    <2>8. ASSUME main = "done"
          PROVE  {reported[i] : i \in DOMAIN reported} \cup {skipped[i] : i \in DOMAIN skipped}
                    = 1..(Len(ledger) \div WaveSize)
      <3>1. 1..(Len(ledger) \div WaveSize) \subseteq finalizedWaves
        BY <1>1, <2>1, <2>6, <2>8 DEF AllInv, WavesInv, WavesOnTime
      <3>2. finalizedWaves \subseteq 1..(Len(ledger) \div WaveSize)
        BY <2>1, <2>2, WaveCount
      <3>3. {reported[i] : i \in DOMAIN reported} \cup {skipped[i] : i \in DOMAIN skipped}
               = finalizedWaves
        BY <1>1, <2>8 DEF AllInv, WavesInv, WavesByRows
      <3>4. QED
        BY <3>1, <3>2, <3>3
    <2>9. QED
      BY <2>3, <2>4, <2>5, <2>7, <2>8 DEF ReportsMatchLedger
  <1>2. QED
    BY <1>1, AllInvariance, PTL

\* What run() returns can be believed, and an invalid row stops the run; the latter if
\* no append fails after it has written its row (the fsync of append_ledger()), since
\* record() then ends its thread before it stops the run.
THEOREM ResultIsHonest ==
  ASSUME StopOnFirstInvalid => "whole" \notin IoFaults
  PROVE  Spec => []ResultHonest
  <1>1. ASSUME AllInv PROVE ResultHonest
    <2>1. ASSUME StopOnFirstInvalid, NEW i \in DOMAIN ledger,
                 ledger[i].key \in Launched, ~ledger[i].ok
          PROVE  Len(ledger) - i < Cardinality(Slots)
      <3>1. /\ Len(ledger) - i + Cardinality(Busy) < Cardinality(Slots)
            /\ i \in Nat /\ Len(ledger) \in Nat
        BY <1>1, <2>1, LedgerRows
           DEF AllInv, OutcomeInv, StopFollows, InvalidRows, IInv, TypeOK
      <3>2. Cardinality(Busy) \in Nat /\ Cardinality(Slots) \in Nat
        BY <1>1, SlotsFinite DEF AllInv
      <3>3. QED
        BY <3>1, <3>2
    <2>2. ASSUME main = "done", ~Died
          PROVE  /\ Launched \subseteq Attempted /\ inFlight = {}
                 /\ claimed = recorded /\ recorded = Cardinality(Launched)
                 /\ ReturnCode = 0 =>
                       \A i \in DOMAIN ledger : ledger[i].key \in Launched => ledger[i].ok
                 /\ stop = "queue_exhausted" => Attempted = Keys
                 /\ stop = "systems_drained" =>
                       /\ \A k \in Keys \ Attempted : OutsidePhase(k)
                       /\ Attempted # Keys
      <3>1. \A w \in Slots : pc[w] = "done"
        BY <1>1, <2>2 DEF AllInv, PcByMain, Died
      <3>2. inFlight = {}
        BY <1>1, <3>1 DEF AllInv, IInv, ClaimsConsistent, Active
      <3>3. Pending = Keys \ Attempted /\ Attempted \subseteq Keys
        BY <1>1, <3>2, LedgerRows DEF Pending, Attempted, KeysOf, AllInv, IInv, TypeOK
      <3>4. Launched \subseteq Attempted
        BY <1>1, <3>3 DEF AllInv, IInv, LaunchHistory, Launched
      <3>5. Cardinality(inFlight) = 0
        BY <3>2, FS_EmptySet
      <3>6. claimed = recorded /\ recorded = Cardinality(Launched)
        BY <1>1, <3>5 DEF AllInv, IInv, TypeOK, ClaimsConsistent, OutcomeInv, ResultFollows
      <3>7. ReturnCode = 0 => InvalidRows = {}
        BY <1>1, <2>2 DEF ReturnCode, AllInv, IInv, TypeOK, OutcomeInv, ResultFollows
      <3>8. QED
        BY <1>1, <2>2, <3>2, <3>3, <3>4, <3>6, <3>7
           DEF AllInv, OutcomeInv, ResultFollows, InvalidRows
    <2>3. QED
      BY <2>1, <2>2 DEF ResultHonest
  <1>2. QED
    BY <1>1, AllInvariance, PTL

\* As long as no ledger append fails, a slot that waits at a cap waits for an episode
\* that is going to be recorded.  (A failed append leaves its claim in _in_flight for
\* good, and the waiting slot behind it.)
THEOREM WaitsAreJustified ==
  ASSUME IoFaults = {}
  PROVE  Spec => []CapWaitJustified
  <1>1. ASSUME AllInv PROVE CapWaitJustified
    <2> SUFFICES ASSUME NEW w \in Slots, NEW k \in Pending,
                        pc[w] \in {"blocked", "waiting"}, CapBlocked(k)
                 PROVE  \E v \in Slots : pc[v] \in {"run", "record"} /\ System[job[v]] = System[k]
      BY DEF CapWaitJustified
    <2>1. System[k] \in Systems
      BY ConstantsOK DEF Pending
    <2>2. /\ running[System[k]] = Cardinality(InFlightOf(System[k]))
          /\ running[System[k]] >= Cap[System[k]] /\ Cap[System[k]] \in Nat \ {0}
      BY <1>1, <2>1, ConstantsOK DEF AllInv, IInv, ClaimsConsistent, CapBlocked
    <2>3. InFlightOf(System[k]) # {}
      <3>1. Cardinality({}) = 0
        BY FS_EmptySet
      <3>2. QED
        BY <2>2, <3>1
    <2>4. PICK q \in inFlight : System[q] = System[k]
      BY <2>3 DEF InFlightOf
    <2>5. PICK v \in Slots : job[v] = q
      BY <1>1 DEF AllInv, IInv, ClaimsConsistent
    <2>6. Active(v)
      BY <1>1, <2>5 DEF AllInv, IInv, ClaimsConsistent, OutcomeInv, NoFaultNoLoss, Died
    <2>7. main = "loop"
      BY <1>1 DEF AllInv, IInv, TypeOK, SlotHistory, PcByMain
    <2>8. pc[v] \in {"run", "record"}
      BY <1>1, <2>6, <2>7 DEF AllInv, PcByMain, Active
    <2>9. QED
      BY <2>4, <2>5, <2>8
  <1>2. QED
    BY <1>1, AllInvariance, PTL

-----------------------------------------------------------------------------
(* The threads implement the exact-once queue.                             *)

\* The queue counts with a Cardinality of its own instance of FiniteSets.
LEMMA CountedAlike == \A S : Queue!Cardinality(S) = Cardinality(S)
  BY DEF Queue!Cardinality, Cardinality

\* A claim is what the queue calls a start: the counter claim() compares with the cap
\* counts the attempts in progress, and the first claimable episode is the first that
\* may start.
LEMMA ClaimStarts ==
  ASSUME IInv, NEW w \in Slots, ClaimEpisode(w)
  PROVE  \E k \in Keys : Queue!Start(k)
  <1>1. PICK k \in Claimable : /\ \A j \in Claimable : k <= j
                               /\ inFlight' = inFlight \cup {k}
    BY DEF ClaimEpisode
  <1>2. ledger' = ledger
    BY DEF ClaimEpisode, disk
  <1>3. ASSUME NEW y \in Systems
        PROVE  Queue!InProgress(y) = InFlightOf(y)
    BY <1>3 DEF Queue!InProgress, StatusOf, InFlightOf, IInv, TypeOK
  <1>4. ASSUME NEW j \in Keys
        PROVE  Queue!MayStart(j) <=> j \in Claimable
    <2>1. StatusOf[j] = "pending" <=> j \in Pending
      BY DEF StatusOf, Pending
    <2>2. System[j] \in Systems
      BY ConstantsOK
    <2>3. /\ running[System[j]] = Cardinality(InFlightOf(System[j]))
          /\ running[System[j]] \in Nat /\ Cap[System[j]] \in Nat
      BY <2>2, ConstantsOK DEF IInv, ClaimsConsistent, TypeOK
    <2>4. Cardinality(Queue!InProgress(System[j])) < Cap[System[j]] <=> ~CapBlocked(j)
      BY <1>3, <2>2, <2>3 DEF CapBlocked
    <2>5. Queue!MayStart(j) <=> /\ StatusOf[j] = "pending" /\ System[j] \in Phase
                                /\ Cardinality(Queue!InProgress(System[j])) < Cap[System[j]]
      BY CountedAlike DEF Queue!MayStart
    <2>6. j \in Claimable <=> j \in Pending /\ System[j] \in Phase /\ ~CapBlocked(j)
      BY DEF Claimable, OutsidePhase
    <2>7. QED
      BY <2>1, <2>4, <2>5, <2>6
  <1>5. k \in Keys /\ k \in Pending
    BY <1>1 DEF Claimable, Pending
  <1>6. StatusOf' = [StatusOf EXCEPT ![k] = "attempting"]
    BY <1>1, <1>2, <1>5 DEF StatusOf, Attempted
  <1>7. Queue!Start(k)
    BY <1>1, <1>4, <1>5, <1>6 DEF Queue!Start
  <1>8. QED
    BY <1>5, <1>7

LEMMA RowRecords ==
  ASSUME IInv, NEW w \in Slots, RecordRow(w)
  PROVE  \E k \in Keys : Queue!Record(k)
  <1>1. /\ job[w] \in inFlight /\ job[w] \in Keys /\ job[w] \notin Attempted
    BY DEF RecordRow, IInv, ClaimsConsistent, Active, TypeOK
  <1>2. inFlight' = inFlight \ {job[w]}
    BY DEF RecordRow, Release
  <1>3. Attempted' = Attempted \cup {job[w]}
    BY <1>1, AppendRow DEF RecordRow, Attempted, NewRow, Row, IInv, TypeOK
  <1>4. StatusOf[job[w]] = "attempting"
    BY <1>1 DEF StatusOf
  <1>5. StatusOf' = [StatusOf EXCEPT ![job[w]] = "recorded"]
    BY <1>1, <1>2, <1>3 DEF StatusOf
  <1>6. QED
    BY <1>1, <1>4, <1>5 DEF Queue!Record

\* Every other step leaves the status of all episodes alone, a failed append that has
\* written its row included: the claim stays in flight.
LEMMA OthersStutter ==
  ASSUME IInv, [Next]_vars, \A w \in Slots : ~ClaimEpisode(w) /\ ~RecordRow(w)
  PROVE  StatusOf' = StatusOf
  <1>1. CASE \E w \in Slots : RecordFails(w)
    <2>1. PICK w \in Slots : RecordFails(w)
      BY <1>1
    <2>2. /\ inFlight' = inFlight /\ job[w] \in inFlight
          /\ ledger' = ledger \/ AppendsRow(w)
      BY <2>1, ThreadRows DEF Work, RecordFails, claims, IInv, ClaimsConsistent, Active
    <2>3. Attempted' = Attempted \/ Attempted' = Attempted \cup {job[w]}
      BY <2>2, AppendRow DEF AppendsRow, Attempted, NewRow, IInv, TypeOK
    <2>4. QED
      BY <2>2, <2>3 DEF StatusOf
  <1>2. CASE \A w \in Slots : ~RecordFails(w)
    <2>1. UNCHANGED disk /\ UNCHANGED inFlight
      <3>1. ASSUME NEW w \in Slots, Claim(w) \/ Work(w)
            PROVE  UNCHANGED disk /\ UNCHANGED inFlight
        BY <1>2, <3>1 DEF Claim, ClaimStopped, ClaimLimit, ClaimInterrupted, ClaimUnreadable,
           ClaimCapBlocked, ClaimNothing, ClaimStops, Work, Wait, PollTimeout,
           FinishEpisode, RecordRefused, Notify, claims
      <3>2. CASE Main
        BY <3>2 DEF Main, ReadLedger, ReadLedgerFails, FinalizeWave, FinalizeFails, EndScan,
           JoinAll, claims
      <3>3. QED
        BY <3>1, <3>2 DEF Next, Finished, vars, claims
    <2>2. QED
      BY <2>1 DEF disk, StatusOf, Attempted
  <1>3. QED
    BY <1>1, <1>2

\* ParallelDispatcher is the exact-once work queue its class comment promises: its threads,
\* counters, crashes and failing appends are steps of that queue, or invisible to it.
THEOREM QueueImplemented == Spec => ImplementsQueue
  <1>1. Init => Queue!Init
    BY DEF Init, Queue!Init, StatusOf
  <1>2. IInv /\ [Next]_vars => [Queue!Next]_StatusOf
    <2> SUFFICES ASSUME IInv, [Next]_vars
                 PROVE  [Queue!Next]_StatusOf
      OBVIOUS
    <2>1. CASE \E w \in Slots : ClaimEpisode(w)
      BY <2>1, ClaimStarts DEF Queue!Next
    <2>2. CASE \E w \in Slots : RecordRow(w)
      BY <2>2, RowRecords DEF Queue!Next
    <2>3. CASE \A w \in Slots : ~ClaimEpisode(w) /\ ~RecordRow(w)
      BY <2>3, OthersStutter
    <2>4. QED
      BY <2>1, <2>2, <2>3
  <1>3. QED
    BY <1>1, <1>2, Invariance, PTL DEF Spec, ImplementsQueue, Queue!Spec
=============================================================================

----------------------------- MODULE Dispatcher -----------------------------
(***************************************************************************)
(* One invocation of the parallel campaign dispatcher                      *)
(* (scripts/run_campaign_parallel.py, class ParallelDispatcher): worker    *)
(* threads claim episodes under one lock, run them, and append one ledger  *)
(* row per attempt, while the main thread reports every complete wave of   *)
(* the ledger.                                                             *)
(*                                                                         *)
(* The body of claim() and of record() runs under the in-process mutex and *)
(* the ledger file lock (_locked), so each of their outcomes is one atomic *)
(* action.  What happens between two lock regions (the episode process,    *)
(* the notify after record(), the wait on the condition variable) is a     *)
(* step of its own.                                                        *)
(***************************************************************************)
EXTENDS Naturals, Sequences, FiniteSets

CONSTANTS
    NumEpisodes,         \* episodes of the manifest, numbered in execution order
    Systems,             \* the systems of the campaign: s0, s3, ...
    System,              \* System[k]: the system of episode k
    Slots,               \* the worker slots
    Cap,                 \* Cap[y]: how many episodes of y may be in flight;
                         \*   Cardinality(Slots) or more is "no cap"
    Phase,               \* the systems --systems names (all of them: no filter)
    MaxClaims,           \* --max-episodes (above NumEpisodes: no limit)
    WaveSize,            \* ledger rows per wave report
    StopOnFirstInvalid,  \* execution_policy.stop_on_first_invalid
    Interrupts,          \* stop conditions a claim may find outside the process:
                         \*   "drain_requested", "free_space_reserve"
    PriorLedgers,        \* ledgers earlier invocations may have left
    IoFaults,            \* what a failing ledger append leaves on disk:
                         \*   "nothing", "torn" (part of a line), "whole" (fsync failed)
    FinalizeMayFail      \* whether a wave report may raise

Keys == 1..NumEpisodes
NoKey == 0
Row == [key : Keys, ok : BOOLEAN]

KeysOf(rows) == {rows[i].key : i \in DOMAIN rows}
NoRepeats(rows) == \A i, j \in DOMAIN rows : rows[i].key = rows[j].key => i = j

StopReasons == {"none", "claim_limit_reached", "drain_requested",
                "free_space_reserve", "invalid_episode", "systems_drained",
                "queue_exhausted"}
NormalStops == {"claim_limit_reached", "drain_requested", "systems_drained",
                "queue_exhausted"}

ASSUME ConstantsOK ==
    /\ NumEpisodes \in Nat
    /\ IsFiniteSet(Slots) /\ Slots # {}
    /\ System \in [Keys -> Systems]
    /\ Cap \in [Systems -> Nat \ {0}]
    /\ Phase \subseteq Systems
    /\ MaxClaims \in Nat \ {0}
    /\ WaveSize \in Nat \ {0}
    /\ StopOnFirstInvalid \in BOOLEAN
    /\ Interrupts \subseteq {"drain_requested", "free_space_reserve"}
    /\ \A rows \in PriorLedgers : rows \in Seq(Row) /\ NoRepeats(rows)
    /\ IoFaults \subseteq {"nothing", "torn", "whole"}
    /\ FinalizeMayFail \in BOOLEAN

VARIABLES
    ledger,      \* the rows on disk, in append order
    torn,        \* the file ends in a partial line, which no reader can parse
    inFlight,    \* _in_flight
    running,     \* _in_flight_systems
    claimed, recorded, invalid,   \* counters of the DispatchResult
    stop,        \* the reason of _stop ("none": not set)
    pc,          \* pc[w]: where worker thread w is
    job,         \* job[w]: the episode w claimed last
    valid,       \* valid[w]: the effective return code of that attempt is 0
    main,        \* which part of run() the main thread is in
    scan,        \* "poll" between two scans of the ledger, "waves" inside one
    seen,        \* rows read by the current scan
    finalizedWaves,               \* _finalized_waves
    reported, skipped,            \* waves_finalized, waves_skipped_invalid
    launched     \* history: how often an episode process was started for a key

disk == <<ledger, torn>>
claims == <<inFlight, running, claimed, launched>>
counts == <<recorded, invalid>>
threads == <<pc, job, valid>>
reporting == <<main, scan, seen, finalizedWaves, reported, skipped>>
vars == <<disk, claims, counts, stop, threads, reporting>>

-----------------------------------------------------------------------------
(* What a claim reads under the lock.                                      *)

Attempted == KeysOf(ledger)

\* Defect: the in-flight set is not consulted.
PendingUnclaimed == Keys \ Attempted

\* Episodes with neither a ledger row nor a claim.
Pending == Keys \ (Attempted \cup inFlight)

\* _cap_blocked
CapBlocked(k) == running[System[k]] >= Cap[System[k]]

\* _outside_phase
OutsidePhase(k) == System[k] \notin Phase

Claimable == {k \in Pending : ~OutsidePhase(k) /\ ~CapBlocked(k)}

\* notify_all on _release: every waiting thread goes back to claim().
WakeAll(at) == [w \in Slots |-> IF at[w] = "waiting" THEN "claim" ELSE at[w]]

\* Only the first reason is kept, but the condition is notified every time.
StopWith(reason) == stop' = IF stop = "none" THEN reason ELSE stop

-----------------------------------------------------------------------------
Init ==
    /\ ledger \in PriorLedgers
    /\ torn = FALSE
    /\ inFlight = {}
    /\ running = [y \in Systems |-> 0]
    /\ claimed = 0 /\ recorded = 0 /\ invalid = 0
    /\ stop = "none"
    /\ pc = [w \in Slots |-> "unstarted"]
    /\ job = [w \in Slots |-> NoKey]
    /\ valid = [w \in Slots |-> FALSE]
    /\ main = "start" /\ scan = "poll" /\ seen = 0
    /\ finalizedWaves = {} /\ reported = <<>> /\ skipped = <<>>
    /\ launched = [k \in Keys |-> 0]

-----------------------------------------------------------------------------
(* claim(): the early returns, in their order, then the search.            *)

LimitReached == claimed >= MaxClaims

\* The thread leaves its loop because claiming has stopped.
ClaimStopped(w) ==
    /\ pc[w] = "claim" /\ stop # "none"
    /\ pc' = [pc EXCEPT ![w] = "done"]
    /\ UNCHANGED <<disk, claims, counts, stop, job, valid, reporting>>

\* This claim stops the run: it returns None and wakes every waiting slot.
ClaimStops(w, reason) ==
    /\ StopWith(reason)
    /\ pc' = WakeAll([pc EXCEPT ![w] = "done"])
    /\ UNCHANGED <<disk, claims, counts, job, valid, reporting>>

ClaimLimit(w) ==
    /\ pc[w] = "claim" /\ stop = "none"
    /\ LimitReached
    /\ ClaimStops(w, "claim_limit_reached")

\* The drain marker exists, or the raw volume is below the reserve.
ClaimInterrupted(w) ==
    /\ pc[w] = "claim" /\ stop = "none" /\ ~LimitReached
    /\ \E reason \in Interrupts : ClaimStops(w, reason)

\* From here on the ledger has been parsed.
Searching(w) == pc[w] = "claim" /\ stop = "none" /\ ~LimitReached /\ ~torn

\* attempted_keys() raises on a partial line: the thread ends.
ClaimUnreadable(w) ==
    /\ pc[w] = "claim" /\ stop = "none" /\ ~LimitReached /\ torn
    /\ pc' = [pc EXCEPT ![w] = "dead"]
    /\ UNCHANGED <<disk, claims, counts, stop, job, valid, reporting>>

\* The first claimable episode in execution order.
ClaimEpisode(w) ==
    /\ Searching(w)
    /\ \E k \in Claimable :
        /\ \A j \in Claimable : k <= j
        /\ inFlight' = inFlight \cup {k}
        /\ running' = [running EXCEPT ![System[k]] = @ + 1]
        /\ claimed' = claimed + 1
        /\ launched' = [launched EXCEPT ![k] = @ + 1]
        /\ job' = [job EXCEPT ![w] = k]
        /\ pc' = [pc EXCEPT ![w] = "run"]
    /\ UNCHANGED <<disk, counts, stop, valid, reporting>>

\* Pending episodes of the phase exist, all of them capped: CAP_BLOCKED.
ClaimCapBlocked(w) ==
    /\ Searching(w)
    /\ Claimable = {}
    /\ \E k \in Pending : ~OutsidePhase(k)
    /\ pc' = [pc EXCEPT ![w] = "blocked"]
    /\ UNCHANGED <<disk, claims, counts, stop, job, valid, reporting>>

\* Nothing is left for this phase.
ClaimNothing(w) ==
    /\ Searching(w)
    /\ \A k \in Pending : OutsidePhase(k)
    /\ ClaimStops(w, IF Pending # {} THEN "systems_drained" ELSE "queue_exhausted")

Claim(w) == \/ ClaimStopped(w) \/ ClaimLimit(w) \/ ClaimInterrupted(w)
            \/ ClaimUnreadable(w) \/ ClaimEpisode(w) \/ ClaimCapBlocked(w)
            \/ ClaimNothing(w)

-----------------------------------------------------------------------------
(* The rest of the worker loop.                                            *)

\* _release.wait(): a notify sent before this step is not seen.
Wait(w) ==
    /\ pc[w] = "blocked"
    /\ pc' = [pc EXCEPT ![w] = "waiting"]
    /\ UNCHANGED <<disk, claims, counts, stop, job, valid, reporting>>

\* Defect: the wait has no timeout.
PollTimeoutNever(w) == pc[w] = "waiting" /\ FALSE /\ UNCHANGED vars

\* The wait ends after cap_poll_seconds even without a notify.
PollTimeout(w) ==
    /\ pc[w] = "waiting"
    /\ pc' = [pc EXCEPT ![w] = "claim"]
    /\ UNCHANGED <<disk, claims, counts, stop, job, valid, reporting>>

\* The episode process ends; a crash of the runner or of the validator is an
\* invalid attempt like any other.
FinishEpisode(w) ==
    /\ pc[w] = "run"
    /\ \E ok \in BOOLEAN : valid' = [valid EXCEPT ![w] = ok]
    /\ pc' = [pc EXCEPT ![w] = "record"]
    /\ UNCHANGED <<disk, claims, counts, stop, job, reporting>>

\* record() refuses a second row, and cannot read a ledger with a partial line.
Recordable(k) == ~torn /\ k \notin Attempted

NewRow(w) == [key |-> job[w], ok |-> valid[w]]

\* Defect: the counter is not decremented.
ReleaseKeyOnly(k) == inFlight' = inFlight \ {k} /\ UNCHANGED running

Release(k) ==
    /\ inFlight' = inFlight \ {k}
    /\ running' = [running EXCEPT ![System[k]] = IF @ > 0 THEN @ - 1 ELSE 0]

StopsRun(w) == ~valid[w] /\ StopOnFirstInvalid

RecordRow(w) ==
    /\ pc[w] = "record" /\ Recordable(job[w])
    /\ ledger' = Append(ledger, NewRow(w))
    /\ Release(job[w])
    /\ recorded' = recorded + 1
    /\ invalid' = IF valid[w] THEN invalid ELSE invalid + 1
    /\ LET moved == [pc EXCEPT ![w] = "notify"]
       IN  IF StopsRun(w)
           THEN StopWith("invalid_episode") /\ pc' = WakeAll(moved)
           ELSE pc' = moved /\ UNCHANGED stop
    /\ UNCHANGED <<torn, claimed, launched, job, valid, reporting>>

RecordRefused(w) ==
    /\ pc[w] = "record" /\ ~Recordable(job[w])
    /\ pc' = [pc EXCEPT ![w] = "dead"]
    /\ UNCHANGED <<disk, claims, counts, stop, job, valid, reporting>>

\* Defect: a "finally" gives the claim back although the attempt was made.
RecordFailsReleasing(w) ==
    /\ pc[w] = "record" /\ Recordable(job[w]) /\ IoFaults # {}
    /\ Release(job[w])
    /\ pc' = [pc EXCEPT ![w] = "dead"]
    /\ UNCHANGED <<disk, claimed, launched, counts, stop, job, valid, reporting>>

\* append_ledger() raises: the thread ends with its claim still in memory.
RecordFails(w) ==
    /\ pc[w] = "record" /\ Recordable(job[w])
    /\ \E fault \in IoFaults :
        /\ ledger' = IF fault = "whole" THEN Append(ledger, NewRow(w)) ELSE ledger
        /\ torn' = (fault = "torn")
    /\ pc' = [pc EXCEPT ![w] = "dead"]
    /\ UNCHANGED <<claims, counts, stop, job, valid, reporting>>

\* record() notifies only after it has released the lock.
Notify(w) ==
    /\ pc[w] = "notify"
    /\ pc' = WakeAll([pc EXCEPT ![w] = "claim"])
    /\ UNCHANGED <<disk, claims, counts, stop, job, valid, reporting>>

Work(w) == \/ Wait(w) \/ PollTimeout(w) \/ FinishEpisode(w)
           \/ RecordRow(w) \/ RecordRefused(w) \/ RecordFails(w) \/ Notify(w)

-----------------------------------------------------------------------------
(* run(): the main thread.  _finalize_complete_waves() reads the ledger    *)
(* once, under the lock, then reports wave after wave without it.          *)

\* An exception leaves run(): the process ends, its daemon threads with it,
\* and the episode processes they had started are left behind.
Crash ==
    /\ main' = "crashed"
    /\ pc' = [w \in Slots |-> CASE pc[w] = "run"    -> "orphaned"
                                [] pc[w] = "record" -> "lost"
                                [] pc[w] \in {"claim", "blocked", "waiting", "notify"}
                                                    -> "killed"
                                [] OTHER            -> pc[w]]

Scanning == main \in {"start", "loop", "final"}

ReadLedger ==
    /\ Scanning /\ scan = "poll" /\ ~torn
    /\ main = "loop" => Len(ledger) # seen  \* a scan of an unchanged ledger does nothing
    /\ seen' = Len(ledger)
    /\ scan' = "waves"
    /\ UNCHANGED <<disk, claims, counts, stop, threads, main, finalizedWaves,
                   reported, skipped>>

ReadLedgerFails ==
    /\ Scanning /\ scan = "poll" /\ torn
    /\ Crash
    /\ UNCHANGED <<disk, claims, counts, stop, job, valid, scan, seen,
                   finalizedWaves, reported, skipped>>

\* Ledger rows of wave n.
Wave(n) == ((n - 1) * WaveSize + 1)..(n * WaveSize)
WaveValid(n) == \A i \in Wave(n) : ledger[i].ok

Unfinalized == (1..(seen \div WaveSize)) \ finalizedWaves

FinalizeWave ==
    /\ Scanning /\ scan = "waves"
    /\ \E n \in Unfinalized :
        /\ \A m \in Unfinalized : n <= m
        /\ finalizedWaves' = finalizedWaves \cup {n}
        /\ IF WaveValid(n)
           THEN reported' = Append(reported, n) /\ UNCHANGED skipped
           ELSE skipped' = Append(skipped, n) /\ UNCHANGED reported
    /\ UNCHANGED <<disk, claims, counts, stop, threads, main, scan, seen>>

\* finalize() raises after the wave was added to _finalized_waves.
FinalizeFails ==
    /\ Scanning /\ scan = "waves" /\ FinalizeMayFail
    /\ \E n \in Unfinalized :
        /\ \A m \in Unfinalized : n <= m
        /\ WaveValid(n)
        /\ finalizedWaves' = finalizedWaves \cup {n}
    /\ Crash
    /\ UNCHANGED <<disk, claims, counts, stop, job, valid, scan, seen,
                   reported, skipped>>

\* Defect: the main thread leaves as soon as the stop event is set.
EndedOnStop(w) == pc[w] \in {"done", "dead"} \/ stop # "none"
Ended(w) == pc[w] \in {"done", "dead"}

\* The scan is over.  The first one precedes the threads, the last one run()'s end.
EndScan ==
    /\ Scanning /\ scan = "waves" /\ Unfinalized = {}
    /\ scan' = "poll"
    /\ main' = CASE main = "start" -> "loop" [] main = "loop" -> "loop"
                 [] main = "final" -> "done"
    /\ pc' = IF main = "start" THEN [w \in Slots |-> "claim"] ELSE pc
    /\ stop' = IF main = "final" /\ stop = "none" THEN "queue_exhausted" ELSE stop
    /\ UNCHANGED <<disk, claims, counts, job, valid, seen, finalizedWaves,
                   reported, skipped>>

\* Defect: no scan after the last thread has ended.
JoinAllReturn ==
    /\ main = "loop" /\ scan = "poll"
    /\ \A w \in Slots : Ended(w)
    /\ main' = "done"
    /\ UNCHANGED <<disk, claims, counts, stop, threads, scan, seen,
                   finalizedWaves, reported, skipped>>

\* No thread is alive any more: one last scan.
JoinAll ==
    /\ main = "loop" /\ scan = "poll"
    /\ \A w \in Slots : Ended(w)
    /\ main' = "final"
    /\ UNCHANGED <<disk, claims, counts, stop, threads, scan, seen,
                   finalizedWaves, reported, skipped>>

Main == \/ ReadLedger \/ ReadLedgerFails \/ FinalizeWave \/ FinalizeFails
        \/ EndScan \/ JoinAll

\* run() has returned, or the process is gone.
Over == main \in {"done", "crashed"}
Finished == Over /\ UNCHANGED vars

Next == (\E w \in Slots : Claim(w) \/ Work(w)) \/ Main \/ Finished

\* The threads are scheduled, an episode process ends (the episode runner has
\* its own deadlines), and the main thread polls every 0.2 s per thread.
Fairness == /\ \A w \in Slots : WF_vars(Claim(w)) /\ WF_vars(Work(w))
            /\ WF_vars(Main)

Spec == Init /\ [][Next]_vars
FairSpec == Spec /\ Fairness

-----------------------------------------------------------------------------
(* Properties.                                                             *)

PcValues == {"unstarted", "claim", "blocked", "waiting", "run", "record",
             "notify", "done", "dead", "killed", "orphaned", "lost"}

TypeOK ==
    /\ ledger \in Seq(Row) /\ torn \in BOOLEAN
    /\ inFlight \subseteq Keys /\ running \in [Systems -> Nat]
    /\ claimed \in Nat /\ recorded \in Nat /\ invalid \in Nat
    /\ launched \in [Keys -> Nat]
    /\ stop \in StopReasons
    /\ pc \in [Slots -> PcValues]
    /\ job \in [Slots -> Keys \cup {NoKey}]
    /\ valid \in [Slots -> BOOLEAN]
    /\ main \in {"start", "loop", "final", "done", "crashed"}
    /\ scan \in {"poll", "waves"} /\ seen \in Nat
    /\ finalizedWaves \in SUBSET (Nat \ {0})
    /\ reported \in Seq(Nat \ {0}) /\ skipped \in Seq(Nat \ {0})

Launched == {k \in Keys : launched[k] > 0}
Died == \E w \in Slots : pc[w] = "dead"

\* Whatever the slots do at the same time, and whichever append fails, an episode
\* is started at most once in an invocation, never when an earlier invocation has
\* recorded it, and the ledger never holds two rows of it.
AttemptedOnce ==
    /\ NoRepeats(ledger)
    /\ \A k \in Keys : launched[k] <= 1
    /\ \A i, j \in DOMAIN ledger :
          (i < j /\ launched[ledger[i].key] > 0) => launched[ledger[j].key] > 0

\* The slots that really run an episode of a system never exceed its cap, though
\* claim() only looks at a counter that record() decrements in another thread.
CapsHold ==
    \A y \in Systems :
        Cardinality({w \in Slots : pc[w] = "run" /\ System[job[w]] = y}) <= Cap[y]

\* A slot waits at a cap only while some slot holds an episode of the capped system
\* that is going to be recorded: it never waits for nobody.
CapWaitJustified ==
    \A w \in Slots, k \in Pending :
        (pc[w] \in {"blocked", "waiting"} /\ stop = "none" /\ CapBlocked(k))
            => \E v \in Slots : pc[v] \in {"run", "record"} /\ System[job[v]] = System[k]

\* DispatchResult.returncode
ReturnCode == IF invalid > 0 THEN 1
              ELSE IF stop \notin NormalStops THEN 2 ELSE 0

\* What run() returns can be believed when no thread died: every attempt it started
\* has its row, those that were running when it was stopped included, and its counters
\* agree; return code 0 means that every row it added is valid, "queue_exhausted" that
\* the manifest is attempted, "systems_drained" that the phase is and that another
\* phase is left.  Whatever it returns, only the episodes already running in the other
\* slots were recorded after the invalid row that stops the run.
ResultHonest ==
    /\ StopOnFirstInvalid =>
        \A i \in DOMAIN ledger :
            (ledger[i].key \in Launched /\ ~ledger[i].ok)
                => Len(ledger) - i < Cardinality(Slots)
    /\ (main = "done" /\ ~Died) =>
        /\ Launched \subseteq Attempted /\ inFlight = {}
        /\ claimed = recorded /\ recorded = Cardinality(Launched)
        /\ ReturnCode = 0 =>
              \A i \in DOMAIN ledger : ledger[i].key \in Launched => ledger[i].ok
        /\ stop = "queue_exhausted" => Attempted = Keys
        /\ stop = "systems_drained" =>
              /\ \A k \in Keys \ Attempted : OutsidePhase(k)
              /\ Attempted # Keys

\* Waves are reported in ledger order, each once, and only a complete slice without
\* an invalid row; a wave is skipped only for an invalid row.  Waves that were complete
\* before this invocation are handled before its first episode starts (the comment in
\* run(): a finaliser failure there must stop the run with nothing in flight), and when
\* run() returns every complete wave was, the one of the last thread included.
ReportsMatchLedger ==
    /\ \A i, j \in DOMAIN reported : i < j => reported[i] < reported[j]
    /\ \A i \in DOMAIN reported : reported[i] * WaveSize <= Len(ledger) /\
          \A r \in ((reported[i] - 1) * WaveSize + 1)..(reported[i] * WaveSize) : ledger[r].ok
    /\ \A i \in DOMAIN skipped : skipped[i] * WaveSize <= Len(ledger) /\
          \E r \in ((skipped[i] - 1) * WaveSize + 1)..(skipped[i] * WaveSize) : ~ledger[r].ok
    /\ Launched # {} =>
          1..(Cardinality(Attempted \ Launched) \div WaveSize) \subseteq finalizedWaves
    /\ main = "done" =>
          {reported[i] : i \in DOMAIN reported} \cup {skipped[i] : i \in DOMAIN skipped}
              = 1..(Len(ledger) \div WaveSize)

\* "never orphan an unrecorded attempt whose subprocess outlives the crashed
\* dispatcher" (the same comment), for every finaliser failure.
NoOrphans == \A w \in Slots : pc[w] # "orphaned"

\* The bookkeeping the claims rest on: a key in flight belongs to exactly one slot, a
\* live claim has no ledger row yet, the cap counters count the keys in flight, and
\* no attempt is missing from the totals.
Active(w) == pc[w] \in {"run", "record", "orphaned", "lost"}
InFlightOf(y) == {k \in inFlight : System[k] = y}
ClaimsConsistent ==
    /\ \A w \in Slots : Active(w) => job[w] \in inFlight /\ job[w] \notin Attempted
    /\ \A k \in inFlight : \E w \in Slots : job[w] = k
    /\ \A w \in Slots : job[w] \in inFlight => Active(w) \/ pc[w] = "dead"
    /\ \A v, w \in Slots : job[v] \in inFlight /\ job[v] = job[w] => v = w
    /\ \A y \in Systems : running[y] = Cardinality(InFlightOf(y)) /\ running[y] <= Cap[y]
    /\ claimed = recorded + Cardinality(inFlight)

\* run() always ends: the slots drain, whatever invalid episodes, drain requests and
\* cap waits occur, although a notify can be lost between claim() and wait().
Termination == <>Over

=============================================================================

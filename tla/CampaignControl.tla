--------------------------- MODULE CampaignControl ---------------------------
(***************************************************************************)
(* What happens around the runner of one sequential campaign: the          *)
(* continuous controller starts one child runner per wave and reports each *)
(* complete wave, a dispatcher that is started on the campaign reports the *)
(* waves it finds complete, invalid attempts are declared and replaced,    *)
(* every report goes to the hash-chained research log, and a monitor looks *)
(* on.  The reports of a wave are taken by no lock.                        *)
(*                                                                         *)
(* A controller or dispatcher may be killed at any step and started again; *)
(* the child the controller waited for then goes on alone, and so may the  *)
(* script that adds its record to the log.  A report that is being written *)
(* then may stay behind in part.  An attempt leaves one summary.  The      *)
(* dispatcher's episodes are in Dispatcher: it claims none here.           *)
(***************************************************************************)
EXTENDS Integers, FiniteSets, Sequences

CONSTANTS
    WaveSize,    \* maximum_episodes_per_invocation
    Waves,       \* expected_episode_count / WaveSize
    MaxKills,    \* bound: how often a controller or a dispatcher dies
    MaxRepairs   \* bound: how many attempts are declared for replacement

ASSUME ControlOK == /\ {WaveSize, Waves} \subseteq Nat \ {0}
                    /\ {MaxKills, MaxRepairs} \subseteq Nat

Expected == WaveSize * Waves
Keys == 1..Expected          \* the design, in execution order
Runners == {"first", "second"}   \* the controller's child and an older one
Finalisers == {"controller", "dispatcher"}
\* Who started a research_log.py that is running: one that a killed finaliser left
\* behind is an orphan (bound: one orphan at a time).
Writers == Finalisers \cup {"declarer", "orphan"}
Nobody == "nobody"

VARIABLES
    protected,   \* a confirmatory campaign
    ledger,      \* rows of the campaign ledger: [key, ok]
    repaired,    \* per key: "no", or what became of the declared replacement
    lock,        \* holder of the campaign lock: Nobody, a runner, ...
    runner,      \* per runner: [st, todo (keys), rc]
    pc, seen, waiting,   \* the controller: completed, its child
    task,        \* per finaliser: [at, wave], the wave it reports and where it is
    adder,       \* per writer: [st, wave, base], the record its research_log.py adds
    raced,       \* history: waves two finalisers had in the gap of LookUp at once
    reports,     \* the waves whose report is whole
    torn,        \* the waves of whose report only a part was written
    log,         \* the research log: [wave, prev], prev the record hashed in
    view,        \* monitor: the rows it read, or -1
    kills        \* bounded by MaxKills

control == <<pc, seen, waiting>>
logging == <<log, adder, raced>>
reporting == <<reports, torn>>
vars == <<protected, ledger, repaired, lock, runner, control, task, logging, reporting, view,
          kills>>

Idle == [st |-> "none", todo |-> {}, rc |-> 0]
NoTask == [at |-> "none", wave |-> 0]
NoRecord == [st |-> "none", wave |-> 0, base |-> 0]
Repairs == {"no", "declared", "valid", "invalid", "unusable"}
NotRead == -1

Init ==
    /\ protected \in BOOLEAN
    /\ ledger = <<>> /\ repaired = [k \in Keys |-> "no"] /\ lock = Nobody
    /\ runner = [r \in Runners |-> Idle]
    /\ pc = "down" /\ seen = 0 /\ waiting = Nobody
    /\ task = [f \in Finalisers |-> NoTask] /\ adder = [o \in Writers |-> NoRecord]
    /\ reports = {} /\ torn = {} /\ log = <<>> /\ raced = {}
    /\ view = NotRead /\ kills = 0

Attempts(k) == {i \in DOMAIN ledger : ledger[i].key = k}
Attempted == {ledger[i].key : i \in DOMAIN ledger}
Declared == {k \in Keys : repaired[k] # "no"}
Logged == {log[i].wave : i \in DOMAIN log}
RowsOf(w) == {i \in DOMAIN ledger : i > (w - 1) * WaveSize /\ i <= w * WaveSize}

\* verify: every record hashes the one before it.
ChainIntact == \A i \in DOMAIN log : log[i].prev = i - 1

-----------------------------------------------------------------------------
(* finalize_wave: the report of a wave, by the controller or a dispatcher. *)

\* A confirmatory wave has no report, it is logged from the ledger alone.
Begin(f, w) == task' = [task EXCEPT ![f] = [at |-> IF protected THEN "log" ELSE "report",
                                            wave |-> w]]
Go(f, at) == task' = [task EXCEPT ![f].at = at]

\* The controller goes on with the next wave, the dispatcher with whatever is left.
Finished(f) ==
    /\ task' = [task EXCEPT ![f] = NoTask]
    /\ pc' = IF f = "controller" THEN "spawn" ELSE pc
    /\ UNCHANGED <<seen, waiting, lock>>

Stop == pc' = "down" /\ waiting' = Nobody /\ seen' = 0

\* What a finaliser's script refuses ends the finaliser, and with it its lock.
Failed(f) ==
    /\ task' = [task EXCEPT ![f] = NoTask]
    /\ IF f = "controller" THEN Stop /\ UNCHANGED lock
       ELSE lock' = Nobody /\ UNCHANGED control

\* The replacement of a key as the wave report sees it: a usable summary.
\* (The ledger of the replacement campaign is not consulted.)
Resolved(k) == repaired[k] \in {"valid", "invalid"}

\* Defect: a row that failed is reported like any other.
ReportableAny(w) == Len(ledger) >= w * WaveSize

\* summarize_pilot_wave: one summary for every row of the wave, and each usable
\* or replaced; otherwise it raises.
Reportable(w) ==
    /\ \A k \in Keys : repaired[k] \notin {"declared", "unusable"}
    /\ Cardinality(RowsOf(w)) = WaveSize
    /\ \A i \in RowsOf(w) : /\ Cardinality(Attempts(ledger[i].key)) = 1
                            /\ ledger[i].ok \/ Resolved(ledger[i].key)

\* A report that is there is not written again.
FindReport(f) ==
    /\ task[f].at = "report"
    /\ Go(f, IF task[f].wave \in reports \cup torn THEN "log" ELSE "write")
    /\ UNCHANGED <<protected, ledger, repaired, lock, runner, control, logging, reporting, view,
                   kills>>

\* The report script refuses to overwrite what another finaliser wrote meanwhile.
WriteReport(f) ==
    LET w == task[f].wave
    IN /\ task[f].at = "write"
       /\ IF w \notin reports \cup torn /\ Reportable(w)
          THEN reports' = reports \cup {w} /\ Go(f, "log") /\ UNCHANGED <<lock, control>>
          ELSE Failed(f) /\ UNCHANGED reports
       /\ UNCHANGED <<torn, protected, ledger, repaired, runner, logging, view, kills>>

\* A research_log.py is started that will add a record of wave w.
StartAdding(o, w) == adder' = [adder EXCEPT ![o] = [st |-> "started", wave |-> w, base |-> 0]]
Adding(w) == \E o \in Writers : adder[o].st # "none" /\ adder[o].wave = w

\* Defect: the log is not asked whether the wave is in it.
LookUpNever(f) ==
    LET w == task[f].wave
    IN /\ task[f].at = "log"
       /\ StartAdding(f, w) /\ Go(f, "add")
       /\ raced' = IF Adding(w) THEN raced \cup {w} ELSE raced
       /\ UNCHANGED <<protected, ledger, repaired, lock, runner, control, log, reporting, view,
                      kills>>

\* The wave is logged if the log does not hold it yet, from its report.
LookUp(f) ==
    LET w == task[f].wave
    IN /\ task[f].at = "log"
       /\ \/ w \in Logged /\ Finished(f) /\ UNCHANGED <<adder, raced>>
          \/ /\ w \notin Logged /\ ~protected /\ w \notin reports   \* a torn report
             /\ Failed(f) /\ UNCHANGED <<adder, raced>>
          \/ /\ w \notin Logged /\ (protected \/ w \in reports)
             /\ StartAdding(f, w) /\ Go(f, "add")
             /\ raced' = IF Adding(w) THEN raced \cup {w} ELSE raced
             /\ UNCHANGED <<lock, control>>
       /\ UNCHANGED <<protected, ledger, repaired, runner, log, reporting, view, kills>>

\* research_log.py add: the log is read and verified, ...
ReadLog(o) ==
    /\ adder[o].st = "started"
    /\ IF ChainIntact
       THEN /\ adder' = [adder EXCEPT ![o] =
                            [st |-> "read", wave |-> adder[o].wave, base |-> Len(log)]]
            /\ UNCHANGED <<task, lock, control>>
       ELSE /\ adder' = [adder EXCEPT ![o] = NoRecord]
            /\ IF o \in Finalisers THEN Failed(o) ELSE UNCHANGED <<task, lock, control>>
    /\ UNCHANGED <<protected, ledger, repaired, runner, log, raced, reporting, view, kills>>

\* ... and the record appended, in a second step that nothing excludes.
AppendRecord(o) ==
    /\ adder[o].st = "read"
    /\ log' = Append(log, [wave |-> adder[o].wave, prev |-> adder[o].base])
    /\ adder' = [adder EXCEPT ![o] = NoRecord]
    /\ IF o \in Finalisers THEN Go(o, "verify") ELSE UNCHANGED task
    /\ UNCHANGED <<protected, ledger, repaired, lock, runner, control, raced, reporting, view,
                   kills>>

VerifyLog(f) ==
    /\ task[f].at = "verify"
    /\ IF ChainIntact THEN Finished(f) ELSE Failed(f)
    /\ UNCHANGED <<protected, ledger, repaired, runner, logging, reporting, view, kills>>

-----------------------------------------------------------------------------
(* The controller.                                                         *)

\* The ledger is counted; the last complete wave is finalised (again).
Start ==
    /\ pc = "down" /\ waiting = Nobody /\ kills <= MaxKills
    /\ seen' = Len(ledger)
    /\ LET w == Len(ledger) \div WaveSize
       IN IF w = 0 THEN pc' = "spawn" /\ UNCHANGED task
          ELSE pc' = "finalise" /\ Begin("controller", w)
    /\ UNCHANGED <<protected, ledger, repaired, lock, runner, waiting, logging, reporting, view,
                   kills>>

\* The rest of the wave, from the keys the ledger does not hold.
Todo ==
    LET left == WaveSize - (Cardinality(Attempted) % WaveSize)
        pending == Keys \ Attempted
    IN {k \in pending : Cardinality({j \in pending : j <= k}) <= left}

Spawn ==
    /\ pc = "spawn"
    /\ IF seen >= Expected
       THEN Stop /\ UNCHANGED runner
       ELSE \E r \in Runners :
              /\ runner[r].st = "none"
              /\ runner' = [runner EXCEPT ![r] = [st |-> "ready", todo |-> Todo, rc |-> 0]]
              /\ pc' = "wait" /\ waiting' = r /\ UNCHANGED seen
    /\ UNCHANGED <<protected, ledger, repaired, lock, task, logging, reporting, view, kills>>

\* The child has ended: a failure ends the controller, and so does a number
\* of new rows other than the rest of the wave.
Reap ==
    /\ pc = "wait" /\ runner[waiting].st = "done"
    /\ runner' = [runner EXCEPT ![waiting] = Idle]
    /\ IF runner[waiting].rc = 0 /\ Len(ledger) = seen + WaveSize - (seen % WaveSize)
       THEN /\ seen' = Len(ledger)
            /\ pc' = "finalise" /\ Begin("controller", Len(ledger) \div WaveSize)
            /\ waiting' = Nobody
       ELSE Stop /\ UNCHANGED task
    /\ UNCHANGED <<protected, ledger, repaired, lock, logging, reporting, view, kills>>

-----------------------------------------------------------------------------
(* A dispatcher of the campaign (run_campaign_parallel.py).                *)

StartDispatcher ==
    /\ lock = Nobody
    /\ lock' = "dispatcher"
    /\ UNCHANGED <<protected, ledger, repaired, runner, control, task, logging, reporting, view,
                   kills>>

\* _finalize_complete_waves: a wave with a failed row is left to the researcher.
Finalise(w) ==
    /\ lock = "dispatcher" /\ task["dispatcher"] = NoTask
    /\ w * WaveSize <= Len(ledger) /\ \A i \in RowsOf(w) : ledger[i].ok
    /\ Begin("dispatcher", w)
    /\ UNCHANGED <<protected, ledger, repaired, lock, runner, control, logging, reporting, view,
                   kills>>

EndDispatcher ==
    /\ lock = "dispatcher" /\ task["dispatcher"] = NoTask
    /\ lock' = Nobody
    /\ UNCHANGED <<protected, ledger, repaired, runner, control, task, logging, reporting, view,
                   kills>>

-----------------------------------------------------------------------------
(* SIGKILL of the controller or the dispatcher.                            *)

\* The report script that was running has written nothing, a part or all of it.
Halves(f) ==
    LET w == task[f].wave
    IN \/ UNCHANGED reporting
       \/ /\ task[f].at = "write" /\ w \notin reports \cup torn /\ Reportable(w)
          /\ \/ torn' = torn \cup {w} /\ UNCHANGED reports
             \/ reports' = reports \cup {w} /\ UNCHANGED torn

\* The research_log.py that was running dies as well, or goes on without its parent.
Leaves(f) ==
    \/ adder' = [adder EXCEPT ![f] = NoRecord]
    \/ /\ adder[f].st # "none" /\ adder["orphan"].st = "none"
       /\ adder' = [adder EXCEPT ![f] = NoRecord, !["orphan"] = adder[f]]

Kill(f) ==
    /\ IF f = "controller" THEN pc # "down" ELSE lock = "dispatcher"
    /\ kills < MaxKills /\ kills' = kills + 1
    /\ Halves(f) /\ Leaves(f) /\ Failed(f)
    /\ runner' = [r \in Runners |->
                    IF f = "controller" /\ runner[r].st = "done" THEN Idle ELSE runner[r]]
    /\ UNCHANGED <<protected, ledger, repaired, log, raced, view>>

-----------------------------------------------------------------------------
(* The child runner (run_balanced_pilot.py; CampaignRunners has the         *)
(* admission in full).                                                     *)

\* A child that nobody waits for any more leaves no trace.
End(r, rc) ==
    runner' = [runner EXCEPT ![r] =
                  IF waiting = r THEN [st |-> "done", todo |-> {}, rc |-> rc] ELSE Idle]

\* The keys were read before the lock was taken.
Acquire(r) ==
    /\ runner[r].st = "ready"
    /\ IF lock = Nobody
       THEN \/ runner' = [runner EXCEPT ![r].st = "run"] /\ lock' = r
            \/ End(r, 1) /\ UNCHANGED lock      \* another gate refuses
       ELSE End(r, 1) /\ UNCHANGED lock
    /\ UNCHANGED <<protected, ledger, repaired, control, task, logging, reporting, view, kills>>

\* One episode: its row is appended, and a failure stops the campaign.
Attempt(r) ==
    /\ runner[r].st = "run"
    /\ \E k \in runner[r].todo, ok \in BOOLEAN :
         /\ \A j \in runner[r].todo : k <= j
         /\ ledger' = Append(ledger, [key |-> k, ok |-> ok])
         /\ IF ok THEN runner' = [runner EXCEPT ![r].todo = @ \ {k}] /\ UNCHANGED lock
            ELSE End(r, 1) /\ lock' = Nobody
    /\ UNCHANGED <<protected, repaired, control, task, logging, reporting, view, kills>>

Finish(r) ==
    /\ runner[r].st = "run"
    /\ End(r, IF runner[r].todo = {} THEN 0 ELSE 1)   \* done, or it crashed
    /\ lock' = Nobody
    /\ UNCHANGED <<protected, ledger, repaired, control, task, logging, reporting, view, kills>>

-----------------------------------------------------------------------------
(* Replacements.                                                           *)

\* declare_startup_replacements: a failed attempt is declared once; then the
\* declaration goes to the log.
Declare(k) ==
    /\ adder["declarer"].st = "none" /\ repaired[k] = "no"
    /\ Cardinality(Declared) < MaxRepairs
    /\ \E i \in Attempts(k) : ~ledger[i].ok
    /\ repaired' = [repaired EXCEPT ![k] = "declared"]
    /\ StartAdding("declarer", 0)
    /\ UNCHANGED <<protected, ledger, lock, runner, control, task, log, raced, reporting, view,
                   kills>>

\* run_balanced_pilot_replacements: under the lock of the parent campaign.
Replace(k) ==
    /\ repaired[k] = "declared" /\ lock = Nobody
    /\ Cardinality(Attempts(k)) = 1
    /\ lock' = "replacement"
    /\ UNCHANGED <<protected, ledger, repaired, runner, control, task, logging, reporting, view,
                   kills>>

\* The attempt is valid, or its validator rejects it, or it leaves nothing
\* usable; there is no second one.
Replaced(k) ==
    /\ repaired[k] = "declared" /\ lock = "replacement"
    /\ \E outcome \in {"valid", "invalid", "unusable"} :
         repaired' = [repaired EXCEPT ![k] = outcome]
    /\ lock' = Nobody
    /\ UNCHANGED <<protected, ledger, runner, control, task, logging, reporting, view, kills>>

-----------------------------------------------------------------------------
(* The monitor: it reads the ledger, then tries the lock.                  *)

Rows == SubSeq(ledger, 1, view)

Good == {Rows[i].key : i \in {j \in DOMAIN Rows : Rows[j].ok}}
Attempts1 == {Rows[i].key : i \in DOMAIN Rows}
Valid1 == {k \in Attempts1 : repaired[k] = "valid"}

\* Defect: the attempts are counted, whatever became of them.
JudgeAttempts(held) ==
    IF Cardinality(Attempts1) = Expected THEN "complete"
    ELSE IF held THEN "running" ELSE "idle_incomplete"

\* snapshot: the state it reports.
Judge(held) ==
    LET bad == ({Rows[i].key : i \in {j \in DOMAIN Rows : ~Rows[j].ok}}
                  \cup (Declared \cap Attempts1)) \ Valid1
        resolved == Cardinality(Good \ Declared) + Cardinality(Valid1)
    IN IF Cardinality(Attempts1) # Len(Rows) THEN "fail_stopped_ledger_integrity"
       ELSE IF resolved = Expected /\ bad = {} THEN "complete"
       ELSE IF held THEN "running"
       ELSE IF bad # {} THEN "fail_stopped_unresolved_invalid"
       ELSE "idle_incomplete"

Look ==
    /\ view = NotRead
    /\ view' = Len(ledger)
    /\ UNCHANGED <<protected, ledger, repaired, lock, runner, control, task, logging, reporting,
                   kills>>

\* To find out whether the lock is free the monitor takes it.
Probe ==
    /\ view # NotRead /\ lock = Nobody
    /\ lock' = "monitor"
    /\ UNCHANGED <<protected, ledger, repaired, runner, control, task, logging, reporting, view,
                   kills>>

Snapshot ==
    /\ view # NotRead /\ lock # Nobody
    /\ view' = NotRead      \* it reports Judge(lock # "monitor")
    /\ lock' = IF lock = "monitor" THEN Nobody ELSE lock
    /\ UNCHANGED <<protected, ledger, repaired, runner, control, task, logging, reporting,
                   kills>>

-----------------------------------------------------------------------------
Next ==
    \/ \E f \in Finalisers :
          FindReport(f) \/ WriteReport(f) \/ LookUp(f) \/ VerifyLog(f) \/ Kill(f)
    \/ \E o \in Writers : ReadLog(o) \/ AppendRecord(o)
    \/ Start \/ Spawn \/ Reap
    \/ StartDispatcher \/ EndDispatcher \/ \E w \in 1..Waves : Finalise(w)
    \/ \E r \in Runners : Acquire(r) \/ Attempt(r) \/ Finish(r)
    \/ \E k \in Keys : Declare(k) \/ Replace(k) \/ Replaced(k)
    \/ Look \/ Probe \/ Snapshot

Spec == Init /\ [][Next]_vars

-----------------------------------------------------------------------------
(* Properties.                                                             *)

\* A wave is in the log at most once: reporting is recovered idempotently.
LoggedOnce ==
    \A i, j \in DOMAIN log : i # j /\ log[i].wave = log[j].wave => log[i].wave = 0

\* What the look-up gives for that: however often finalisers fail, die between any
\* two of their steps and start again, a wave gets a second record only when one
\* looked it up while another one's research_log.py was already adding it.
LoggedOnceApart ==
    \A i, j \in DOMAIN log :
        i # j /\ log[i].wave = log[j].wave => log[i].wave \in raced \cup {0}

\* A wave that is in the log was complete, and (unless it is protected) every
\* cell of it has a usable episode: no failed attempt without a replacement.
LoggedResolved ==
    \A w \in Logged \ {0} :
        /\ Cardinality(RowsOf(w)) = WaveSize
        /\ ~protected =>
             /\ w \in reports
             /\ \A i \in RowsOf(w) : ledger[i].ok \/ Resolved(ledger[i].key)

\* Every cell of a logged wave passed artifact validation.
LoggedValidated ==
    ~protected => \A w \in Logged \ {0} : \A i \in RowsOf(w) :
                      ledger[i].ok \/ repaired[ledger[i].key] = "valid"

\* The monitor calls a campaign complete only if every cell of the design was
\* attempted once and has a valid episode, its own or its replacement's.
CompleteIsComplete ==
    view # NotRead /\ Judge(lock # "monitor") = "complete" =>
        \A k \in Keys : /\ Attempts(k) # {}
                        /\ \/ \E i \in Attempts(k) : ledger[i].ok
                           \/ repaired[k] = "valid"
=============================================================================

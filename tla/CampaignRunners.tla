--------------------------- MODULE CampaignRunners ---------------------------
(***************************************************************************)
(* Runner processes of several campaigns on one workstation: the parallel  *)
(* dispatcher (scripts/run_campaign_parallel.py, main), the sequential     *)
(* runner (scripts/run_balanced_pilot.py, main) and the monitor's lock     *)
(* probe (scripts/monitor_campaign_status.py, lock_is_held).               *)
(*                                                                         *)
(* A campaign's flock is advisory, belongs to an open file, and goes when  *)
(* its process does; it can only be tested by taking it.  The claims of a  *)
(* dispatcher live in its memory, so a crash loses them and may leave its  *)
(* episode processes running.  What one dispatcher does inside (slots,     *)
(* caps, waves) is module Dispatcher; here it claims pending keys of its   *)
(* ledger, up to Workers at a time.                                        *)
(***************************************************************************)
EXTENDS Naturals, Sequences, FiniteSets, FiniteSetsExt

CONSTANTS
    NumCampaigns,   \* campaigns, numbered in the order of their lock file names
    NumKeys,        \* episodes of each campaign, in execution order
    Runners,        \* the invocations, each of which may start at any time
    Target,         \* Target[r]: the campaign of invocation r
    Parallel,       \* the invocations of run_campaign_parallel.py
    Workers,        \* worker slots of a dispatcher
    WaveSize,       \* a sequential invocation stops at a wave boundary
    MaxCrashes,     \* how many runners may be killed
    Monitor         \* the monitor process, or "off"

Campaigns == 1..NumCampaigns
Keys == 1..NumKeys
Free == "free"

ASSUME RunnersOK ==
    /\ NumCampaigns \in Nat /\ NumKeys \in Nat
    /\ Target \in [Runners -> Campaigns]
    /\ Parallel \subseteq Runners
    /\ Workers \in Nat \ {0} /\ WaveSize \in Nat \ {0} /\ MaxCrashes \in Nat
    /\ Free \notin Runners /\ Monitor \notin Runners /\ Monitor # Free

VARIABLES
    ledger,     \* ledger[c]: the keys of the rows of campaign c
    files,      \* campaigns whose .lock file exists
    lock,       \* lock[c]: the process that holds the flock of campaign c
    pc,         \* pc[r]: where invocation r is
    left, held, at,   \* other_runner_locks: lock files left, found held, being probed
    todo,       \* the episodes a sequential invocation decided to run
    procs,      \* episode processes: [by |-> runner, key |-> key]
    launched,   \* history: launched[c][k], how often an episode process was started
    crashes

locks == <<files, lock>>
probe == <<left, held, at>>
work == <<ledger, todo, procs, launched>>
vars == <<locks, probe, work, pc, crashes>>

Init ==
    /\ ledger = [c \in Campaigns |-> <<>>]
    /\ files = {} /\ lock = [c \in Campaigns |-> Free]
    /\ pc = [r \in Runners |-> "idle"]
    /\ left = [r \in Runners |-> {}] /\ held = [r \in Runners |-> {}]
    /\ at = [r \in Runners |-> 0]
    /\ todo = [r \in Runners |-> {}]
    /\ procs = {}
    /\ launched = [c \in Campaigns |-> [k \in Keys |-> 0]]
    /\ crashes = 0

Attempted(c) == {ledger[c][i] : i \in DOMAIN ledger[c]}
ProcsOf(r) == {p \in procs : p.by = r}

\* The process ends: its flock goes with it.
Leave(r, how) ==
    /\ pc' = [pc EXCEPT ![r] = how]
    /\ lock' = [c \in Campaigns |-> IF lock[c] = r THEN Free ELSE lock[c]]

-----------------------------------------------------------------------------
(* other_runner_locks(): glob the lock files, then probe each by taking it *)
(* for a moment.  The dispatcher scans before and after it has its lock.   *)

StartScan(r) ==
    /\ pc[r] = "idle" /\ r \in Parallel
    /\ pc' = [pc EXCEPT ![r] = "scan"]
    /\ left' = [left EXCEPT ![r] = files]
    /\ UNCHANGED <<locks, held, at, work, crashes>>

\* Defect: the probe is not LOCK_NB, it waits for the lock.
ProbeHeldWaits(r) == pc[r] \in {"scan", "rescan"} /\ FALSE /\ UNCHANGED vars

ProbeHeld(r) ==
    /\ pc[r] \in {"scan", "rescan"}
    /\ \E c \in left[r] :
        /\ \A d \in left[r] : c <= d
        /\ lock[c] # Free
        /\ held' = [held EXCEPT ![r] = @ \cup {c}]
        /\ left' = [left EXCEPT ![r] = @ \ {c}]
    /\ UNCHANGED <<locks, at, work, pc, crashes>>

ProbeTake(r) ==
    /\ pc[r] \in {"scan", "rescan"}
    /\ \E c \in left[r] :
        /\ \A d \in left[r] : c <= d
        /\ lock[c] = Free
        /\ lock' = [lock EXCEPT ![c] = r]
        /\ at' = [at EXCEPT ![r] = c]
    /\ pc' = [pc EXCEPT ![r] = IF pc[r] = "scan" THEN "probe" ELSE "reprobe"]
    /\ UNCHANGED <<files, left, held, work, crashes>>

ProbeRelease(r) ==
    /\ pc[r] \in {"probe", "reprobe"}
    /\ lock' = [lock EXCEPT ![at[r]] = Free]
    /\ left' = [left EXCEPT ![r] = @ \ {at[r]}]
    /\ pc' = [pc EXCEPT ![r] = IF pc[r] = "probe" THEN "scan" ELSE "rescan"]
    /\ UNCHANGED <<files, held, at, work, crashes>>

\* Any lock held before ours is taken refuses the start.
EndScan(r) ==
    /\ pc[r] = "scan" /\ left[r] = {}
    /\ IF held[r] = {} THEN pc' = [pc EXCEPT ![r] = "open"] /\ UNCHANGED lock
                       ELSE Leave(r, "refused")
    /\ UNCHANGED <<files, probe, work, crashes>>

-----------------------------------------------------------------------------
(* Taking the campaign's lock.                                             *)

\* Episodes up to the next wave boundary, decided before the lock is asked for.
Planned(c) ==
    LET pending == Keys \ Attempted(c)
        limit == WaveSize - (Cardinality(Attempted(c)) % WaveSize)
    IN  {k \in pending : Cardinality({j \in pending : j < k}) < limit}

StartSequential(r) ==
    /\ pc[r] = "idle" /\ r \notin Parallel
    /\ todo' = [todo EXCEPT ![r] = Planned(Target[r])]
    /\ pc' = [pc EXCEPT ![r] = "open"]
    /\ UNCHANGED <<locks, probe, ledger, procs, launched, crashes>>

\* The gates and the pause marker may refuse; else open() creates the lock file.
OpenLock(r) ==
    /\ pc[r] = "open"
    /\ \/ /\ files' = files \cup {Target[r]}
          /\ pc' = [pc EXCEPT ![r] = "lock"] /\ UNCHANGED lock
       \/ Leave(r, "refused") /\ UNCHANGED files
    /\ UNCHANGED <<probe, work, crashes>>

\* Defect: the result of flock is not looked at.
TakeLockBlind(r) ==
    /\ pc[r] = "lock"
    /\ lock' = [lock EXCEPT ![Target[r]] = r]
    /\ pc' = [pc EXCEPT ![r] = IF r \in Parallel THEN "locked" ELSE "gate"]
    /\ UNCHANGED <<files, probe, work, crashes>>

TakeLock(r) ==
    /\ pc[r] = "lock" /\ lock[Target[r]] = Free
    /\ lock' = [lock EXCEPT ![Target[r]] = r]
    /\ pc' = [pc EXCEPT ![r] = IF r \in Parallel THEN "locked" ELSE "gate"]
    /\ UNCHANGED <<files, probe, work, crashes>>

LockRefused(r) ==
    /\ pc[r] = "lock" /\ lock[Target[r]] # Free
    /\ Leave(r, "refused")
    /\ UNCHANGED <<files, probe, work, crashes>>

\* Defect: the lock files found by the first scan are probed again.
StartRescanOld(r) ==
    /\ pc[r] = "locked"
    /\ left' = [left EXCEPT ![r] = {Target[r]}] /\ held' = [held EXCEPT ![r] = {}]
    /\ pc' = [pc EXCEPT ![r] = "rescan"]
    /\ UNCHANGED <<locks, at, work, crashes>>

StartRescan(r) ==
    /\ pc[r] = "locked"
    /\ left' = [left EXCEPT ![r] = files] /\ held' = [held EXCEPT ![r] = {}]
    /\ pc' = [pc EXCEPT ![r] = "rescan"]
    /\ UNCHANGED <<locks, at, work, crashes>>

EndRescan(r) ==
    /\ pc[r] = "rescan" /\ left[r] = {}
    /\ IF held[r] = {Target[r]} THEN pc' = [pc EXCEPT ![r] = "gate"] /\ UNCHANGED lock
                                ELSE Leave(r, "refused")
    /\ UNCHANGED <<files, probe, work, crashes>>

\* The readiness gate, the environment and the Research 1 check.
Gate(r) ==
    /\ pc[r] = "gate"
    /\ \/ pc' = [pc EXCEPT ![r] = "run"] /\ UNCHANGED lock
       \/ Leave(r, "refused")
    /\ UNCHANGED <<files, probe, work, crashes>>

-----------------------------------------------------------------------------
(* Running episodes.                                                       *)

Launch(r, k) ==
    /\ procs' = procs \cup {[by |-> r, key |-> k]}
    /\ launched' = [launched EXCEPT ![Target[r]][k] = @ + 1]

InFlight(r) == {p.key : p \in ProcsOf(r)}

Claimable(r) == Keys \ (Attempted(Target[r]) \cup InFlight(r))

\* A claim reads the ledger again, under the lock.
Claim(r) ==
    /\ pc[r] = "run" /\ r \in Parallel
    /\ Cardinality(ProcsOf(r)) < Workers
    /\ Claimable(r) # {} /\ Launch(r, Min(Claimable(r)))
    /\ UNCHANGED <<locks, probe, ledger, todo, pc, crashes>>

RunNext(r) ==
    /\ pc[r] = "run" /\ r \notin Parallel
    /\ ProcsOf(r) = {} /\ todo[r] # {}
    /\ Launch(r, Min(todo[r]))
    /\ todo' = [todo EXCEPT ![r] = @ \ {Min(todo[r])}]
    /\ UNCHANGED <<locks, probe, ledger, pc, crashes>>

\* The episode ends and its row is appended.  Only the dispatcher looks for a row of
\* the key before it appends (it raises on one); an invalid episode stops the runner.
Record(r) ==
    /\ pc[r] \in {"run", "drain"}
    /\ \E p \in ProcsOf(r) :
        /\ procs' = procs \ {p}
        /\ ledger' = IF r \in Parallel /\ p.key \in Attempted(Target[r]) THEN ledger
                     ELSE [ledger EXCEPT ![Target[r]] = Append(@, p.key)]
    /\ \E next \in {pc[r], "drain"} : pc' = [pc EXCEPT ![r] = next]
    /\ UNCHANGED <<locks, probe, todo, launched, crashes>>

\* Defect: a stopped runner does not wait for its running episodes.
FinishEarly(r) ==
    /\ pc[r] \in {"run", "drain"}
    /\ Leave(r, "ended")
    /\ UNCHANGED <<files, probe, work, crashes>>

\* The invocation ends: its queue is drained, or it was told to stop.
Finish(r) ==
    /\ pc[r] \in {"run", "drain"} /\ ProcsOf(r) = {}
    /\ Leave(r, "ended")
    /\ UNCHANGED <<files, probe, work, crashes>>

Alive(r) == pc[r] \notin {"idle", "ended", "refused", "crashed"}

\* The runner is killed.  Some of its episode processes survive it.
Crash(r) ==
    /\ Alive(r) /\ crashes < MaxCrashes
    /\ crashes' = crashes + 1
    /\ Leave(r, "crashed")
    /\ \E dead \in SUBSET ProcsOf(r) : procs' = procs \ dead
    /\ UNCHANGED <<files, probe, ledger, todo, launched>>

\* An orphaned episode process ends; nobody appends a row for it.
OrphanEnds ==
    /\ \E p \in procs : pc[p.by] = "crashed" /\ procs' = procs \ {p}
    /\ UNCHANGED <<locks, probe, ledger, todo, launched, pc, crashes>>

-----------------------------------------------------------------------------
(* The monitor tests a campaign's lock the same way.                       *)

MonitorTake ==
    /\ Monitor # "off"
    /\ \A c \in Campaigns : lock[c] # Monitor
    /\ \E c \in Campaigns :
        /\ lock[c] = Free
        /\ lock' = [lock EXCEPT ![c] = Monitor]
        /\ files' = files \cup {c}
    /\ UNCHANGED <<probe, work, pc, crashes>>

MonitorRelease ==
    /\ \E c \in Campaigns : lock[c] = Monitor /\ lock' = [lock EXCEPT ![c] = Free]
    /\ UNCHANGED <<files, probe, work, pc, crashes>>

-----------------------------------------------------------------------------
Scan(r) == StartScan(r) \/ ProbeHeld(r) \/ ProbeTake(r) \/ ProbeRelease(r) \/ EndScan(r)
Acquire(r) == \/ StartSequential(r) \/ OpenLock(r) \/ TakeLock(r) \/ LockRefused(r)
              \/ StartRescan(r) \/ EndRescan(r) \/ Gate(r)
Execute(r) == Claim(r) \/ RunNext(r) \/ Record(r) \/ Finish(r)

Next == (\E r \in Runners : Scan(r) \/ Acquire(r) \/ Execute(r) \/ Crash(r))
            \/ OrphanEnds \/ MonitorTake \/ MonitorRelease

\* A started process is scheduled, its episodes end and its queue is finite.
Fairness == \A r \in Runners : WF_vars(Scan(r) \/ Acquire(r) \/ Execute(r))

Spec == Init /\ [][Next]_vars
FairSpec == Spec /\ Fairness

-----------------------------------------------------------------------------
(* Properties.                                                             *)

PcValues == {"idle", "scan", "probe", "open", "lock", "locked", "rescan", "reprobe",
             "gate", "run", "drain", "ended", "refused", "crashed"}

TypeOK ==
    /\ ledger \in [Campaigns -> Seq(Keys)]
    /\ files \subseteq Campaigns
    /\ lock \in [Campaigns -> Runners \cup {Free, Monitor}]
    /\ pc \in [Runners -> PcValues]
    /\ left \in [Runners -> SUBSET Campaigns] /\ held \in [Runners -> SUBSET Campaigns]
    /\ at \in [Runners -> Campaigns \cup {0}]
    /\ todo \in [Runners -> SUBSET Keys]
    /\ procs \subseteq [by : Runners, key : Keys]
    /\ launched \in [Campaigns -> [Keys -> Nat]]
    /\ crashes \in Nat

\* The runners that hold their own campaign's lock, and the dispatchers among them
\* that have found every other one free.
HasLock(r) == pc[r] \in {"locked", "rescan", "reprobe", "gate", "run", "drain"}
Admitted(r) == r \in Parallel /\ pc[r] \in {"gate", "run", "drain"}

\* A campaign has one runner at a time, parallel or sequential.
OneRunnerPerCampaign ==
    \A r, s \in Runners : HasLock(r) /\ HasLock(s) /\ Target[r] = Target[s] => r = s

\* However two dispatchers, of one campaign or of two, interleave their scans, probes
\* and lock files, at most one of them gets to run episodes.
OneDispatcher == \A r, s \in Runners : Admitted(r) /\ Admitted(s) => r = s

NoRepeats(keys) == \A i, j \in DOMAIN keys : keys[i] = keys[j] => i = j

\* The rows of an episode, its attempts under live runners, and the killed runners of
\* a campaign.
RowsOf(c, k) == {i \in DOMAIN ledger[c] : ledger[c][i] = k}
Runs(c, k) == {p \in procs : p.key = k /\ Target[p.by] = c /\ Alive(p.by)}
Killed(c) == {r \in Runners : Target[r] = c /\ pc[r] = "crashed"}
Known(c, k) == Cardinality(RowsOf(c, k)) + Cardinality(Runs(c, k))

\* An attempt has its row or runs under a live runner, and what is missing was taken by
\* kills: at most one attempt of an episode by each kill of a runner of its campaign, so
\* none where no runner was killed.  No row is there without its own attempt.
AttemptsAccounted ==
    \A c \in Campaigns, k \in Keys :
        /\ Known(c, k) <= launched[c][k]
        /\ launched[c][k] <= Known(c, k) + Cardinality(Killed(c))

\* No invocation hangs, whatever locks the others hold or probe: each refuses or ends.
InvocationsEnd == \A r \in Runners : Alive(r) ~> ~Alive(r)

\* "All campaigns are exact-once per design key."
LedgerExactOnce == \A c \in Campaigns : NoRepeats(ledger[c])

\* "refuses while any other Research 2 runner (sequential or parallel) holds a campaign
\* lock": when a dispatcher is admitted, no other runner has one.
AdmittedAlone ==
    [][\A r \in Runners :
        (~Admitted(r) /\ Admitted(r)') => \A s \in Runners \ {r} : ~HasLock(s)]_vars

=============================================================================

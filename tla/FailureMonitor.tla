--------------------------- MODULE FailureMonitor ---------------------------
(***************************************************************************)
(* The online failure monitor (failure_monitor/monitor_core.py, node.py):  *)
(* telemetry samples are buffered as they arrive; a timer computes one     *)
(* decision row per grid point since the mission started, keeps a window   *)
(* of the last Steps rows, scores it, replays the alarm policy over all    *)
(* decisions, and publishes an event and a recovery request per alarm.     *)
(*                                                                         *)
(* Time is simulation time, in units smaller than the stride.  One         *)
(* telemetry channel is followed, the map-frame pose (/amcl_pose): every   *)
(* channel is buffered, selected and pruned the same way, and it is the    *)
(* one whose last fix the temporal features remember for ever.  A sample   *)
(* is identified by the time at which it was received.  Scores are         *)
(* abstracted to being at the threshold or above it, or below.  Of the     *)
(* robot state in a request, `clearance` stands for the clearances (the    *)
(* time of the scan they come from) and `poor` for a poor localisation,    *)
(* which has no fresh pose; a fresh pose is taken to be a good one.        *)
(***************************************************************************)
EXTENDS Integers, FiniteSets, Sequences, SequencesExt, FiniteSetsExt

CONSTANTS
    MaxTime,        \* bound: the clock stops there
    Stride,         \* decision_stride_seconds
    Steps,          \* rows of a window: history_seconds / stride
    MaxAge,         \* max_age_seconds of the channel
    ScanMaxAge,     \* scan_max_age_seconds
    ScanTimes,      \* bound: scans arrive at these times only
    Required, Considered, Cooldown,   \* the alarm policy
    SnapshotEvery,  \* decisions between two snapshots of the sidecar
    AssetCases      \* what the node may find when it starts

\* What resolve_monitor_assets looks at: the freeze record, the files and
\* hashes it names, the smoke switch, the overrides, the threshold.
Assets == [frozen: BOOLEAN, smoke: BOOLEAN, files: BOOLEAN, hashes: BOOLEAN,
           overrides: {"none", "same", "other"}, threshold: BOOLEAN]

ASSUME MonitorOK ==
    /\ MaxTime \in Nat /\ {Stride, Steps, MaxAge, ScanMaxAge, SnapshotEvery} \subseteq Nat \ {0}
    /\ ScanTimes \subseteq Nat
    /\ Required \in 1..Considered /\ Considered \in Nat /\ Cooldown \in Nat
    /\ AssetCases \subseteq Assets

None == 0      \* no sample, and no grid point: both are counted from 1

VARIABLES
    now,        \* simulation time
    arrivals,   \* history: the samples received, each with the next grid point then
    samples,    \* the buffered samples, oldest first
    scan,       \* aux: when the clearances were measured, None if they are not finite
    start,      \* grid_start
    next,       \* next_grid_index
    rows,       \* history: the sample each row selected; raw_rows holds rows[base..]
    base,       \* raw_base
    lastFix,    \* last_amcl_grid_index
    tail,       \* enriched_tail
    scores,     \* the scorer's rows
    alarms,     \* the decisions (indexes in scores) that raised an alarm
    phase,      \* where the node is
    due,        \* the last grid point of the current tick
    pending,    \* alarms of the tick whose messages are not published yet
    events, requests,   \* what was published
    partial, final      \* the two files of the sidecar

clock == <<now>>
telemetry == <<arrivals, samples, scan, start>>
window == <<next, rows, base, lastFix, tail>>
decided == <<scores, alarms>>
published == <<events, requests>>
files == <<partial, final>>
vars == <<clock, telemetry, window, decided, phase, due, pending, published, files>>

NoFile == [decisions |-> -1, alarms |-> <<>>]

Init ==
    /\ now = 1 /\ arrivals = <<>> /\ samples = <<>> /\ scan = None /\ start = -1
    /\ next = 1 /\ rows = <<>> /\ base = 1 /\ lastFix = None /\ tail = <<>>
    /\ scores = <<>> /\ alarms = <<>>
    /\ phase = "boot" /\ due = None /\ pending = <<>>
    /\ events = <<>> /\ requests = <<>> /\ partial = NoFile /\ final = NoFile

-----------------------------------------------------------------------------
(* Start-up.                                                               *)

\* A frozen model, bound by its hashes and not overridden, or an engineering
\* smoke run that names its assets; without a frozen threshold only smoke.
Accepted(a) ==
    /\ a.files
    /\ a.threshold \/ a.smoke
    /\ IF a.frozen
       THEN a.hashes /\ a.overrides # "other"
       ELSE a.smoke /\ a.overrides # "none"

\* The node starts, or refuses to.
Boot ==
    /\ phase = "boot"
    /\ \E a \in AssetCases :
         /\ phase' = IF Accepted(a) THEN "idle" ELSE "refused"
         /\ partial' = IF Accepted(a) THEN [decisions |-> 0, alarms |-> <<>>] ELSE partial
    /\ UNCHANGED <<clock, telemetry, window, decided, due, pending, published, final>>

-----------------------------------------------------------------------------
(* Telemetry.                                                              *)

\* (A callback reads the clock once, at its start.)
Clock ==
    /\ now < MaxTime /\ phase = "idle"
    /\ now' = now + 1
    /\ UNCHANGED <<telemetry, window, decided, phase, due, pending, published, files>>

\* SampleBuffer.add: in order.  At most one sample of the channel an instant.
Receive ==
    /\ phase = "idle" /\ (samples # <<>> => Last(samples) < now)
    /\ samples' = Append(samples, now)
    /\ arrivals' = Append(arrivals, [time |-> now, next |-> next])
    /\ UNCHANGED <<clock, scan, start, window, decided, phase, due, pending, published, files>>

\* receive_scan_clearances: a scan without a finite beam leaves no clearance.
ReceiveScan ==
    /\ phase = "idle" /\ now \in ScanTimes
    /\ scan' \in {now, None}
    /\ UNCHANGED <<clock, arrivals, samples, start, window, decided, phase, due, pending,
                   published, files>>

\* The first /behavior_tree_log anchors the grid.
MissionStarted ==
    /\ phase = "idle" /\ start = -1
    /\ start' = now
    /\ UNCHANGED <<clock, arrivals, samples, scan, window, decided, phase, due, pending,
                   published, files>>

GridTime(k) == start + k * Stride

\* The newest of the samples that is not in the future, unless it is too old.
Select(times, time) ==
    LET past == {t \in times : t <= time}
    IN IF past = {} \/ time - Max(past) > MaxAge THEN None ELSE Max(past)

\* SampleBuffer.prune: a sample goes when the next one is old already.
Prune(s, time) ==
    LET old == {i \in 1..(Len(s) - 1) : s[i + 1] <= time - MaxAge}
    IN IF old = {} THEN s ELSE SubSeq(s, Max(old) + 1, Len(s))

-----------------------------------------------------------------------------
(* Rows and windows.                                                       *)

\* derive_window_features of the rows from..k, its last row: what it takes
\* from the history, and the fix that pose_jump is measured from.
Enrich(r, from, k) ==
    LET fixes == {j \in from..(k - 1) : r[j] # None}
    IN [row  |-> k,
        past |-> {<<j, r[j]>> : j \in {i \in from..k : i >= k - Steps}},
        jump |-> IF r[k] = None \/ fixes = {} THEN None ELSE Max(fixes)]

\* Defect: the suffix starts one row late.
SuffixStartLate(k) ==
    Max({base, IF lastFix = None THEN k - Steps + 1 ELSE Min({k - Steps + 1, lastFix})})

\* _enrich_last: no older row is needed for row k, or after it.
SuffixStart(k) ==
    Max({base, IF lastFix = None THEN k - Steps ELSE Min({k - Steps, lastFix})})

\* apply_alarm_policy: the decisions among s that raise an alarm.
Persistent(s, i) ==
    /\ i >= Considered
    /\ Cardinality({j \in (i - Considered + 1)..i : s[j].above}) >= Required

\* Defect: an alarm exactly at the end of the cooldown is suppressed.
ReplayStrict(s) ==
    LET found[i \in 0..Len(s)] ==
          IF i = 0 THEN <<>>
          ELSE IF /\ Persistent(s, i)
                  /\ found[i - 1] # <<>> => s[i].time - s[Last(found[i - 1])].time > Cooldown
               THEN Append(found[i - 1], i) ELSE found[i - 1]
    IN found[Len(s)]

\* It is replayed over all decisions, oldest first; found[i] are the alarms among
\* the first i, the last of them is last_alarm.
Replay(s) ==
    LET found[i \in 0..Len(s)] ==
          IF i = 0 THEN <<>>
          ELSE IF /\ Persistent(s, i)
                  /\ found[i - 1] # <<>> => s[i].time - s[Last(found[i - 1])].time >= Cooldown
               THEN Append(found[i - 1], i) ELSE found[i - 1]
    IN found[Len(s)]

\* The timer fires, and grid points have come due.
Tick ==
    /\ phase = "idle" /\ start # -1 /\ GridTime(next) <= now
    /\ due' = (now - start) \div Stride
    /\ phase' = "step"
    /\ UNCHANGED <<clock, telemetry, window, decided, pending, published, files>>

\* A request: the decision, and estimate_robot_state at the time of its grid point.
RobotState(k, fix) ==
    [decision |-> Len(scores) + 1, sent |-> None,
     clearance |-> IF scan # None /\ GridTime(k) - scan <= ScanMaxAge THEN scan ELSE None,
     poor |-> fix = None, count |-> Len(alarms)]

\* A complete window is scored; an alarm gets the state of the robot.
Decide(enriched) ==
    IF Len(enriched) < Steps
    THEN UNCHANGED <<decided, pending>>
    ELSE \E above \in BOOLEAN :
           /\ scores' = Append(scores, [time |-> GridTime(next), above |-> above])
           /\ LET alarm == Replay(scores') # <<>> /\ Last(Replay(scores')) = Len(scores')
              IN /\ alarms' = IF alarm THEN Append(alarms, Len(scores')) ELSE alarms
                 /\ pending' = IF alarm
                               THEN Append(pending, RobotState(next, rows'[next]))
                               ELSE pending

\* WindowBuilder.advance and the rest of one round of step().
Advance ==
    /\ phase = "step" /\ next <= due
    /\ rows' = Append(rows, Select(Range(samples), GridTime(next)))
    /\ base' = SuffixStart(next)
    /\ LET all == Append(tail, Enrich(rows', SuffixStart(next), next))
       IN tail' = IF Len(all) > Steps THEN Tail(all) ELSE all
    /\ lastFix' = IF rows'[next] # None THEN next ELSE lastFix
    /\ next' = next + 1
    /\ samples' = Prune(samples, GridTime(next))
    /\ Decide(tail')
    /\ UNCHANGED <<clock, arrivals, scan, start, phase, due, published, files>>

-----------------------------------------------------------------------------
(* Publication.                                                            *)

StepDone ==
    /\ phase = "step" /\ next > due
    /\ phase' = "publish"
    /\ UNCHANGED <<clock, telemetry, window, decided, due, pending, published, files>>

PublishEvent ==
    /\ phase = "publish" /\ pending # <<>>
    /\ events' = Append(events, Head(pending).decision)
    /\ phase' = "request"
    /\ UNCHANGED <<clock, telemetry, window, decided, due, pending, requests, files>>

PublishRequest ==
    /\ phase = "request"
    /\ requests' = Append(requests, [Head(pending) EXCEPT !.sent = now])
    /\ pending' = Tail(pending)
    /\ phase' = "publish"
    /\ UNCHANGED <<clock, telemetry, window, decided, due, events, files>>

Sidecar == [decisions |-> Len(scores), alarms |-> alarms]

\* The tick returns, with a snapshot every so many decisions.
TickDone ==
    /\ phase = "publish" /\ pending = <<>>
    /\ partial' = IF scores # <<>> /\ Len(scores) % SnapshotEvery = 0 THEN Sidecar ELSE partial
    /\ phase' = "idle"
    /\ UNCHANGED <<clock, telemetry, window, decided, due, pending, published, final>>

-----------------------------------------------------------------------------
(* The end: an interrupt, which may come at any instruction, or a kill of a *)
(* node that does not close in time.                                       *)

Interrupt ==
    /\ phase \in {"idle", "step", "publish", "request"}
    /\ phase' = "closing"
    /\ UNCHANGED <<clock, telemetry, window, decided, due, pending, published, files>>

\* Defect: the last snapshot is renamed without being renewed.
CloseStale ==
    /\ phase = "closing"
    /\ UNCHANGED partial
    /\ phase' = "rename"
    /\ UNCHANGED <<clock, telemetry, window, decided, due, pending, published, final>>

CloseSnapshot ==
    /\ phase = "closing"
    /\ partial' = Sidecar
    /\ phase' = "rename"
    /\ UNCHANGED <<clock, telemetry, window, decided, due, pending, published, final>>

CloseRename ==
    /\ phase = "rename"
    /\ final' = partial /\ partial' = NoFile
    /\ phase' = "down"
    /\ UNCHANGED <<clock, telemetry, window, decided, due, pending, published>>

\* The launch kills the node wherever it is, also while it closes.
Kill ==
    /\ phase \in {"boot", "idle", "step", "publish", "request", "closing", "rename"}
    /\ phase' = "killed"
    /\ UNCHANGED <<clock, telemetry, window, decided, due, pending, published, files>>

\* promote_partial_sidecar: the episode's runner publishes the last snapshot of
\* a node that was killed first.
Promote ==
    /\ phase = "killed" /\ partial # NoFile /\ final = NoFile
    /\ final' = partial /\ partial' = NoFile
    /\ phase' = "promoted"
    /\ UNCHANGED <<clock, telemetry, window, decided, due, pending, published>>

Next ==
    \/ Boot \/ Clock \/ Receive \/ ReceiveScan \/ MissionStarted
    \/ Tick \/ Advance \/ StepDone \/ PublishEvent \/ PublishRequest \/ TickDone
    \/ Interrupt \/ CloseSnapshot \/ CloseRename \/ Kill \/ Promote

Spec == Init /\ [][Next]_vars

-----------------------------------------------------------------------------
(* Properties.                                                             *)

\* The samples that had been received when row k was computed.
ReceivedBy(k) == {a.time : a \in {b \in Range(arrivals) : b.next <= k}}

\* Pruning the buffer and enriching only a suffix of the rows lose nothing:
\* every row is the one computed from all the samples received by then, every
\* row of the window is the one computed from all rows of the mission, and
\* the window is the last Steps rows without a gap.  A request says that the
\* robot is lost if and only if no pose was fresh at its own decision, however
\* late its tick came and how many decisions the tick made.
WindowExact ==
    /\ \A k \in DOMAIN rows : rows[k] = Select(ReceivedBy(k), GridTime(k))
    /\ \A i \in DOMAIN tail :
         LET k == next - 1 - Len(tail) + i IN tail[i] = Enrich(rows, 1, k)
    /\ \A i \in DOMAIN requests :
         LET k == requests[i].decision + Steps - 1
         IN requests[i].poor <=> Select(ReceivedBy(k), GridTime(k)) = None

\* The live rows are those the offline pipeline extracts from the recording,
\* which holds every sample up to the decision time.
RowsMatchOffline ==
    \A k \in DOMAIN rows :
        rows[k] = Select({a.time : a \in Range(arrivals)}, GridTime(k))

\* An alarm is raised at exactly those decisions at which Required of the last
\* Considered scores are high and no alarm was raised less than Cooldown
\* before.  An alarm once raised is raised again by every later replay.
AlarmsExact ==
    \A i \in DOMAIN scores :
        LET recent == {j \in DOMAIN scores : j <= i /\ j > i - Considered}
            high == {j \in recent : scores[j].above}
            cooling == \E a \in Range(alarms) :
                           a < i /\ scores[i].time - scores[a].time < Cooldown
        IN i \in Range(alarms) <=>
               /\ Cardinality(recent) = Considered /\ Cardinality(high) >= Required
               /\ ~cooling

\* A clearance that a request carries is no older than ScanMaxAge.
ClearanceFresh ==
    \A i \in DOMAIN requests :
        requests[i].clearance # None => requests[i].sent - requests[i].clearance <= ScanMaxAge

\* A record holds exactly the alarms among the decisions it counts: it is what
\* the monitor's record was after that many decisions.
IsRecord(file) ==
    /\ IsPrefix(file.alarms, alarms) /\ file.decisions \in 0..Len(scores)
    /\ \A i \in DOMAIN alarms : i <= Len(file.alarms) <=> alarms[i] <= file.decisions

\* Each request follows its event, and says how many alarms came before it.  A
\* sidecar that the node closed itself covers every request that was ever sent:
\* the recovery manager never answers a warning that it does not hold.  One that
\* is promoted after a kill may lack the last of them, but is a record the node
\* had at an earlier decision, and every node that was ready leaves one or the
\* other: its episode is not invalid for want of a sidecar.
SidecarCovers ==
    /\ Len(requests) <= Len(events)
    /\ \A i \in DOMAIN requests : requests[i].decision = events[i] /\ requests[i].count = i - 1
    /\ phase = "down" => IsPrefix(events, final.alarms) /\ final.decisions = Len(scores)
    /\ final # NoFile => IsRecord(final)
    /\ phase \in {"idle", "step", "publish", "request", "closing", "rename"} => partial # NoFile
    /\ phase \in {"down", "promoted"} => final # NoFile
=============================================================================

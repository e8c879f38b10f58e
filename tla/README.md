# Failure prediction: TLA+ models, checks and proofs

TLA+ modules of the stateful parts of this repository, the TLC configurations that check
them, and proofs of their main invariants for the TLA+ proof system. Every definition is
translated from the Python source; `PROJECT.json` names the lines each one stands for.

    tlc -config dispatch.cfg MCDispatcher        # a run
    tlapm DispatcherProofs.tla                   # a proof module

## 1. Inventory

The repository runs simulated navigation episodes (ROS 2, Nav2, Gazebo) in campaigns,
records them, trains predictors of failures from the recordings, and lets a frozen
predictor trigger recovery actions in later episodes. Campaigns, plans and live nodes keep
state and run concurrently; the data path is a chain of batch programs, whose state is the
files they leave behind.

| part | state | operations | talks to |
|---|---|---|---|
| parallel dispatcher (`scripts/run_campaign_parallel.py`) | keys in flight, cap counters, stop reason, totals, finalised waves; ledger | `claim`, `record`, `_worker`, `_finalize_complete_waves`, `run` | episode processes, ledger, wave reports |
| campaign runners (the same file, `run_balanced_pilot.py`, `monitor_campaign_status.py`) | a flock and a lock file per campaign | lock scan, lock, gates, run, probe | each other through the locks |
| continuous controller, wave reports (`run_balanced_pilot_continuous.py`, `pilot_audit.py`) | report files | spawn a wave, `finalize_wave`, recovery of an interrupted one | child runner, log |
| research log (`research_log.py`) | a hash chain | `append_record`, `verify` | every writer |
| replacements, campaign monitor | replacement manifests and ledgers, snapshots | declare, run, resolve, judge | ledgers, locks |
| manifests and planners (`experiments/campaigns.py`, `recovery_campaigns.py`, `plan_*`, `build_*`) | published manifests | expand, validate, order, compare, publish | dispatcher |
| amendments and admission (`run_campaign_parallel.py`) | none | caps, phases, refusals of `main` | manifests |
| episode runner (`run_research2_episode.py`) | process stack, gates, mission state, sidecars | bring-up, mission loop, verdict, teardown, publication | Nav2, nodes, validator |
| fault injection (`failure_experiment/`) | schedule, corrupted streams, spawned models | proxies, environment faults | topics, Gazebo |
| failure monitor (`failure_monitor/`) | sample buffer, decision grid, alarms, sidecar | `receive`, `step`, `request_values` | recovery manager |
| recovery manager (`recovery_manager/`) | seen warnings, measured stop, executed count | `_receive`, `handle_request`, `safe_stop`, `execute` | monitor, Nav2 |
| recovery decision (`src/recovery/`) | none | guard, selectors, `decide_recovery` | recovery manager |
| labels and extraction (`labels/`, `extract_dataset_sequences.py`) | derived files of an episode | detectors, labels, extraction | recordings |
| calibration, threshold, alarm policy (`evaluation/`) | none | isotonic fit, choice of a method, threshold, replay | decision tables |
| training (`train_predictor.py`, `models/common.py`) | model directory | load, thin, fit, publish | extraction manifests |
| plans, gates, freeze (`run_*_plan.py`, `freeze_*.py`, `assign_protected_split.py`) | files shared by eight plans | stages, gate, freeze, assignment | all of the above |
| models, statistics, completion, review, reporting | files | batch | - |

What is hard, and what makes the parts correct:

- *Dispatcher.* Threads interleave between two lock regions, a notify can be lost between
  `claim` and `wait`, an append or a wave report can fail while episodes run. No key is
  started twice, caps hold, every complete wave is reported, and the reason `run` returns
  is true.
- *Runners.* A flock can be tested only by taking it, lock files appear while another
  process lists them, a kill loses the claims held in memory. One runner per campaign,
  one dispatcher in all.
- *Control.* Interruption between any two file operations; ledgers read before the lock;
  a second runner left over from a killed controller; two finalisers and the processes that
  write their records. A wave logged twice only after such a race, each logged wave resolved.
- *Planning.* Each planner chooses seeds by its own base and stride and looks at its own
  choice of manifests. No seed twice, nothing published that cannot be run.
- *Episode.* Runner, validator, two fault nodes, recorder and health node share no clock
  and no process. What is counted was complete and was treated.
- *Monitor.* Late ticks, pruned buffers, windows that remember arbitrarily old rows,
  alarms that are replayed. The live rows are those of the whole history.
- *Live recovery.* The manager's callback takes seconds while odometry, Nav2, collisions
  and the runner go on, and an accepted cancellation has not ended the goal. The robot is
  moved only when every goal was told to cancel, the reported end happened, nothing waits
  for ever.
- *Data path.* Boundaries of detectors and labels, kills between seven files, alarms that
  are not monotone in the threshold, ties, rows of the wrong split in a pool.
- *Study.* Every stage may be killed and is run again with what it finds. Held-out data
  unread before the freeze, the freeze final, no report from a short table.

The hazards, each at its line, are listed in `PROJECT.json` with the properties that
would catch them.

## 2. Modules

| module | models |
|---|---|
| `ExactOnceQueue` | abstract: what the dispatcher promises |
| `Dispatcher`, `DispatcherProofs` | one invocation of the parallel dispatcher |
| `DispatcherRefinement` | the mapping from the dispatcher to the queue, proved in `DispatcherProofs` |
| `CampaignRunners`, `CampaignRunnersProofs` | runner processes, locks, kills, the monitor's probe |
| `CampaignControl` | controller, wave reports, log, replacements, monitor |
| `CampaignDesign` | manifests: expansion, order, validators, admission (operators only) |
| `Preregistration` | the planners and the dispatcher's start; extends `CampaignDesign` |
| `ControlProofs` | proofs about `CampaignControl` and `Preregistration` |
| `FaultInjection` | schedule, signal proxy, environment fault node |
| `Episode` | one episode and its validator; extends `FaultInjection` |
| `FailureMonitor`, `MonitorProofs` | the online monitor |
| `RecoveryDecision` | guard, selectors, decision (operators only) |
| `RecoveryMission`, `RecoveryProofs` | recovery manager, Nav2's goals and the mission loop; extends `RecoveryDecision` |
| `EventLabels` | recordings to labelled decisions, and their extraction |
| `AlarmTuning` | calibration, threshold, alarms, measures; extends `EventLabels` |
| `EpisodeProofs` | proofs about `Episode`, and about `EventLabels` within `AlarmTuning` |
| `TrainingRun`, `TrainingProofs` | one run of `train_predictor.py`, killed and repeated |
| `StudyScripts` | what each script refuses, reads and publishes (operators only) |
| `StudyPlan`, `StudyProofs` | the plans over their shared files; extends `StudyScripts` |
| `MC...` | values of the constants for TLC where a configuration cannot write them (`MCPreregistration` is the run `design`) |

An operator with a comment `Defect:` or `Mutant:` (or whose name says what is wrong with
it, such as `AcceptsShort`) is a plausible mistake. No specification uses it; it is put in
the place of the definition that follows it to confirm that a property notices.

### Dispatcher

`claim()` and `record()` run under `_locked()` (the mutex and the ledger's file lock), so
each of their outcomes is one action: `ClaimEpisode`, `ClaimCapBlocked`, `ClaimLimit`,
`ClaimInterrupted`, `ClaimNothing`, `ClaimUnreadable`; `RecordRow`, `RecordRefused`,
`RecordFails`. The gaps between lock regions are steps of their own, and that is where
the interleavings are: `FinishEpisode` (the episode's process ended), `Notify`, `Wait`
(a notification before it is lost) and `PollTimeout`. The main thread scans for waves,
releasing the lock between reading the ledger and reporting a slice (`ReadLedger`,
`FinalizeWave`, `EndScan`, `JoinAll`). `pc[w]` is the place of worker `w`, `inFlight` is
`_in_flight`, `running` is `_in_flight_systems`, `ledger` the rows on disk; `torn` is a
partial last line, which makes every later read raise. `launched`, `reported` and
`skipped` are history.

### CampaignRunners

A dispatcher here is only: scan the lock files, open and lock its own, scan again, gates,
claim keys, record, leave. The sequential runner plans its wave before it takes its lock
(`StartSequential`, then `OpenLock`, `TakeLock`). A probe takes the lock and gives it
back in two steps. `Crash` releases the lock with the process and leaves an arbitrary
part of the episode processes alive. `launched` is history: what it counts beyond the rows
and the live processes must be explained by kills, one attempt of an episode each.

### CampaignControl

The controller counts the ledger, finalises the last complete wave, spawns a child and
reaps it. A dispatcher of the campaign holds its lock and finalises any complete wave without a
failed row. Either one is a `task` that goes through `finalize_wave` step by step:
`FindReport`, `WriteReport`, `LookUp` (is the wave in the log?), then a `research_log.py` of
its own (`adder`), which reads the log (`ReadLog`) and appends in a later step
(`AppendRecord`), then `VerifyLog`. Nothing excludes two finalisers between `LookUp` and
`AppendRecord`; `raced` is history and holds the waves for which that happened. `Kill` may
fall between any two steps or leave half a report; a `research_log.py` may then go on as an
orphan, and so does the controller's child while a new controller spawns another. `Declare`,
`Replace`, `Replaced` are the replacement campaign, with the parent campaign's lock; a
declaration is added to the log in the same two steps. The monitor reads the ledger and
judges later (`view`, `Judge`).

### CampaignDesign and Preregistration

A manifest is a record; validators return the set of their findings. Seeds are the
code's numbers in its two layouts, so that `SeedsApart` is about the actual bases and
strides. Each planner is one action: build, validate, compare with the manifests that
planner looks at, publish under a name that must be new. `BuildConfirmatory` publishes two
manifests and may die in between. `Dispatch` is `run_campaign_parallel.main` up to the
first claim. `Open` ends a behaviour with the first accepted run, since a run changes no
manifest.

### FaultInjection and Episode

`FaultSchedule` is `schedule`, with `Phase` and `Remember` for what `update` answers and
stores. Both nodes publish on `wire`; the runner's events are `marks`. In `Episode` the
steps of the runner follow `pc` through bring-up, recording window, dispatch, mission,
verdict, teardown and publication; every failure goes through `Fail` and the teardown, a
`Kill` does not. How much of what was published the recorder and the topic-health node
received is decided at the teardown (`Heard`). `Valid` is the part of
`validate_episode_artifacts.py` that follows from this state, `CausalSchedulePassed` the
stricter rule of the integrity audit. The proxy and the runner's marker may arm the
schedule in either order. The clean prefix is measured by the runner on the wall clock
and by the nodes on simulation time: the model relates the two in no way.

### FailureMonitor

Samples are numbered by their time of arrival. `Tick` fixes the last due grid point,
`Advance` is one round of `step()` (row, pruning, enrichment of a suffix, score, replayed
policy, robot state), and publication is step by step (`PublishEvent`, `PublishRequest`,
`TickDone`). `rows` is history; the node holds only `rows[base..]`. `Interrupt` may come
anywhere and the sidecar is closed afterwards (`CloseSnapshot`, `CloseRename`). `Kill` may come
anywhere too, closing included; the last snapshot is then published by the episode's
runner (`Promote`), and `SidecarCovers` says what each of the two sidecars is good for.

### RecoveryMission

The manager's `handle_request` is a callback in phases: `stop` (cancel all goals, zero
`cmd_vel`), `settle` (`_wait_for_stop`), `decide` (guard and policy), `act` (the steps of
`ACTION_SEQUENCES` in `todo`). `Odom` may happen in any phase, as it does in the reentrant
callback group. Any step that calls Nav2 may raise, and a cancellation that raised may
have been accepted all the same. The runner starts in `send`: its goal may be rejected
(`Rejected`) or not answered in time (`Unanswered`), which ends the episode as a planner
failure with no goal in hand. Its loop is `mission` (it owns the goal), `follow` (its goal
was cancelled, it watches the status array, which it sees as late as `view`), then `judge` and
`ended`; its cancel-all is an asynchronous call (`cancelling`). A cancellation that is
answered makes a goal `canceling`; it ends in a later step (`CancelEnds`), and may still
arrive or be aborted. Nav2, the robot and the transport are external, with little assumed
of them: a goal may succeed or abort at any time (by preemption too), a collision may
happen at any time, and a full request queue drops its oldest entry. So a mission may be
reported as a planner failure because the manager's new goal preempted the runner's, which was
still being cancelled; the verdict is then that of an aborted goal, and the manager
drives on until the stack is shut down.

### EventLabels and AlarmTuning

An episode is its recorded evidence. `FirstLocalisationLoss` and `FirstImmobilisation`
pass over it sample by sample as the code does, with gaps and persistence; `Labels` gives the
eligible decisions. A recording begins before the goal is dispatched and outlasts the
mission; an annotation whose event or injection is outside the mission is refused
(`Inside`), after the two files before it were written. `ExtractEpisode` writes seven files one after the other and refuses
an episode that has some; `KillExtraction` leaves a torn one, `MoveAside` is the operator.
`AlarmTuning` goes on from there: the isotonic fit pushes one block at a time, the method
is chosen, the threshold selected among candidates, and the alarms replayed. All of it is
exact: scores are integers over a unit that every denominator divides.

### TrainingRun

`Load` checks every manifest of the pool (an empty one is refused), `Draw` is one phase of
the thinning of one episode, `Epoch` one epoch with any score, `Publish` one file. `Raises`
is an exception at any point of it, also between two outputs: `FAILED` then stands beside
what was published. The record is written outside the `try`, so that failing to write it
leaves no marker (`RecordRaises`), and neither does a `Kill`. An empty validation set raises
before its classes are looked at. `Again` starts the program once more, which must refuse.
Two oddities of
the program that break no property: a validation set of one class ends in `SystemExit`,
which leaves no `FAILED` marker (stage `exited`), and the quota that a short phase would
hand on (`spare`) is never used, which `CapExact` states and `TrainingProofs` proves.

### StudyScripts and StudyPlan

A script is a record: the files whose existence makes it refuse, those it needs, which of
them it checks for completeness, what it publishes in which order, and which outputs are
streamed row by row. A file is absent, whole, or short in one of two ways: episodes
missing (`part`) or rows missing from the last one (`cut`); an output is no better than the
worst of `from`. Tables that are paired are compared only with each other: one that is short
is refused beside a whole one, two short ones are refused or pass (`Alike`, `MayDiffer`),
as they lack the same episodes or not. A plan is a list of stages with the outputs that let it skip them;
`Start`, `Refuse`, `Launch`, `Open`, `Publish`, `Lose`, `Hold` and `Kill` apply to all.
A file is the tuple of its kind and its owner. `Scenes` says which plans have ended before
and which run, and how many kills there are; `ScenesOK` asks of the former no more than that their stages found what
they wait for and read (`Ended`), which plans that ended did.

## 3. Runs

| run | instance | asks |
|---|---|---|
| `dispatch` | 3 slots, 5 episodes, two systems with caps 2 and 1, a claim limit, an interrupt, resumed or not, reports that raise; fair | nothing attempted twice, no slot waits at a cap nobody uses, the result is true, `run()` ends |
| `dispatch_faults` | 3 slots, 5 episodes, a row left by a killed run; appends that leave nothing, part of a line or the whole; reports that raise | still the exact-once queue, and the reports match the ledger |
| `runners` | 2 dispatchers on 2 campaigns, a sequential runner, the monitor, 1 kill; fair | locks exclude, no attempt missing but by a kill, invocations end |
| `recovery_mission` | 2 alarms, queue of 1, 1 repeated delivery, budget 1, gate open or closed, the learned policy; fair | robot moved only when every goal was told to cancel, honest end, requests in order, no success after a collision, a cancelled mission resumes or ends |
| `monitor_windows` | 6 instants, windows of 2 rows, 1 of 2 scores, cooldown 2, an interrupt or a kill | rows and windows exact, alarms exact, a closed sidecar complete, a promoted one a record the node had |
| `episode` | six families, a schedule of 4 instants, messages 1 late, 1 event lost | clean prefix, accepted is complete, accepted is treated |
| `control` | 1 wave of 2, controller and dispatcher, 1 kill, 1 replacement, protected or not | a wave logged twice only by a race, a logged wave resolved, complete is complete |
| `study` | six sets of plans, 1 kill (2 of the main plan alone), 1 incomplete campaign; fair | protected data after the freeze, the freeze stays, no short main report, a fold's report short only with both tables, plans finish |
| `design` | 3 development maps of 3 routes, 2 validation maps and 2 held-out maps, 2 fault families, five drafts, caps from three sources | seeds apart, planned is runnable, waves whole, caps honoured |
| `tuning` | 1373 validation sets: all scores of four decisions, localisation errors with gaps, before the dispatch and after the end, all short paths | labels, isotonic fit, threshold and rank metrics against their definitions |
| `training` | eight pools, three validation sets, three kinds of model, exceptions, kills and restarts | nothing leaks, cap exact, a record is complete and not of a failed run |
| `runners_stale` | 2 sequential runners of one campaign | "exact-once per design key": violated |

All but the last hold.

A `finding` of `PROJECT.json` is a disagreement of code and text, with a counterexample.
One of them is among the runs. The others have a configuration of their own, to be run by
hand; TLC reports the named property as violated:

| configuration (module) | property | what happens |
|---|---|---|
| `dispatch_orphan` (`MCDispatcher`) | `NoOrphans` | a wave report raises in the join loop; `run()` ends while slots run episodes |
| `dispatch_cap_leak` (`MCDispatcher`) | `CapWaitJustified` | `record()` cannot append, its cap counter stays taken, others wait for nobody |
| `runners_stale` (`MCCampaignRunners`) | `LedgerExactOnce` | the list of pending keys is older than the lock |
| `runners_admitted` (`MCCampaignRunners`) | `AdmittedAlone` | a sequential runner starts behind the dispatcher's second scan |
| `recovery_measured` (`MCRecoveryMission`) | `GuardSeesMeasuredStop` | the safe stop raises, and the guard is told the monitor's estimate |
| `recovery_measured` (`MCRecoveryMission`) | `StepsWait` | a cancellation is answered, and the robot moves while the goal is still being cancelled |
| `recovery_failure` (`MCRecoveryMission`) | `FailureLeavesNoGoal` | a cancellation raises, and Nav2 drives on after one zero `cmd_vel` |
| `monitor_replay` (`MCFailureMonitor`) | `RowsMatchOffline` | a sample of the same instant arrives after the tick |
| `monitor_clearance` (`MCFailureMonitor`) | `ClearanceFresh` | a late tick judges a scan by the time of the grid point |
| `episode_late` (`Episode`) | `AcceptedInTime` | a fault starts after the mission; the validator accepts it |
| `labels_progress` (`MCAlarmTuning`) | `ImmobilisedByThen` | the anchor of the progress is not where the robot was ten seconds ago |
| `control_log` (`CampaignControl`) | `LoggedOnce` | an orphaned `research_log.py` and the next finaliser log one wave |
| `control_log` (`CampaignControl`) | `LoggedValidated` | a replacement that its ledger calls invalid resolves a wave |
| `control_log` (`CampaignControl`) | `ChainIntact` | two writers append a successor of one record |
| `study_resume` (`MCStudyPlan`) | `Resumable` | the split assignment is killed and then refuses for ever |
| `study_whole` (`MCStudyPlan`) | `EvaluatedWhole` | half a table of the threshold rules is taken for whole |
| `study_whole` (`MCStudyPlan`) | `FoldsWhole` | a kill in each of the two tables of a fold, and both lack the same episodes |

Of a configuration with several properties TLC stops at the first that is violated: leave
one of them in, or use `tlc -continue`.

Facts the models show that contradict no text: a dispatcher killed with an episode running
loses the claim, and the next invocation starts that key again (`AttemptsAccounted` grants
one attempt of an episode to each kill); the sidecar that is published for a killed monitor
may lack requests the manager has answered (`SidecarCovers` asks less of it); a probe of a lock takes it, so a runner that starts at that
instant refuses and has to be started again; `build_confirmatory_manifests.py`, killed
between its two publications, can never be completed because each name must be new.

### Bounds

- *dispatch, dispatch_faults.* Slots compete for one capped system while another has room;
  waves of 2 rows put a wave boundary inside the run and an earlier invalid row in the
  first wave. `MaxClaims` = 9 is no limit, 4 is one.
- *runners.* Two keys tell the one that is running from the one that is pending;
  `MaxCrashes` = 1 takes one claim. The proofs hold for any number of runners.
- *recovery_mission.* Two alarms with a budget of 1 give one recovery and one exhausted
  budget; a queue of depth 1 (10 in the node) makes drops happen, `MaxRedelivered` = 1
  duplicates. All clearances are open, the case in which the guard depends on `stopped`,
  and the policy is the learned one, which admits every action and may fail to decide; the
  proofs hold for all surroundings and policies.
- *monitor.* `MaxTime` = 6 leaves five grid points of stride 1: a window fills, is pruned
  and slides, a second alarm falls at the end of the cooldown and one tick may cover
  several points. A `ScanTimes` of one instant is enough for a scan to be fresh, stale or
  missing at a decision.
- *episode.* Clean prefix 1, onset 2, duration 1 and the wait 1 put every phase of the
  schedule before `MaxTime` = 4; a lag of 1 lets two streams cross a phase boundary;
  `MaxLost` = 1 separates a marker from the one before it.
- *control.* One kill: a wave is finalised by the controller that saw it, by the next, or
  by a dispatcher, with an old child and an orphaned `research_log.py` still running (one
  orphan at a time). The two cells of its wave are enough for one that failed and one that
  did not; `MaxRepairs` = 1. With a second wave and a replacement the states are too many,
  so `control_waves.cfg`, which is no run of `PROJECT.json`, checks `LoggedOnceApart` over two
  waves without one. The proofs hold for all four numbers.
- *study.* `Scenes` run together the plans that share files and take earlier ones as
  ended; one incomplete campaign and one kill, at any stage. Where the main plan runs alone
  there are two kills, one for each table of a fold, so that both can be short.
- *design.* The maps and conditions are fewer than in the study; bases, strides, replicate
  offsets and sizes per block are the code's, so a collision of ranges is one here.
- *tuning.* Scores of four values at four decisions, estimates of three poses and
  odometry paths of five: the shortest that can exceed a persistence, break it by a gap, and
  start again. Maps for the two logistic fits: one sharper, one flatter, one decreasing.
- *training.* Five negatives in two phases with a cap of 3: phases of unequal size and
  unequal quotas. Patience 2 of 4 epochs.

`CHECK_DEADLOCK FALSE` is set where the modelled programs really end: runners, monitor,
episode, control, plans, tuning, a training run that was refused, and the chain of
planning calls.

### Fairness

`Dispatcher!Fairness`: threads are scheduled, an episode process ends (the episode runner
has its own deadlines), `wait(timeout)` returns, the main thread polls.
`CampaignRunners!Fairness`: a started process is scheduled and its episodes end; starting
one, a kill and the monitor are not fair. `RecoveryMission!Fairness`: the manager's
callback and the runner's loop are scheduled, status arrays arrive, and Nav2 ends a goal
whose cancellation it accepted (the one assumption about Nav2; service calls and
behaviours have a time limit in `nav2_commander.py`; `goToPose` and `clearAllCostmaps` of
the external navigator are assumed to return or raise; the status topic is reliable and
transient-local). Nothing is assumed of odometry, of other goals, of the mission deadline
or of the runner's cancel-all. `StudyPlan`: a plan that can make a step makes one; it is started
again when a stage failed, as the operator or the reboot script does, and holds and kills
are not fair. `PlansFinish` is therefore conditional on nobody disturbing the plans: it
says that the stages, in their order and over all plans, produce what each of them needs.

## 4. Proofs

For every value of the constants that satisfies the named assumptions (`ConstantsOK`,
`RunnersOK`, `ControlOK`, `DesignOK`, `ScheduleOK`, `LostOK`, `MonitorOK`, `MaxRecoveriesOK`,
`MissionOK`, `TrainingOK`, `LabelsOK`, `TuningOK`, `ScenesOK`), which TLC evaluates for the instances of the runs. Every
invariant below was checked by TLC before it was proved.

- `DispatcherProofs`, claims: `TypeCorrect`, `ClaimsAreConsistent`, `ExactOnce`,
  `CapsNeverExceeded`. Neither exact-once nor the caps are inductive: that a claim finds
  its key unused depends on every live claim being in `inFlight` and not in the ledger,
  and the cap on the counter being the cardinality of the keys in flight. The invariant is
  `IInv == TypeOK /\ ClaimsConsistent /\ SlotHistory /\ LaunchHistory`, where
  `SlotHistory` says what became of a slot's last claim and `LaunchHistory` that what was
  launched is in flight or recorded, once. `ClaimEpisodeStep`, `RecordRowStep` and
  `RecordFailsStep` are the steps that disturb it; failing appends and a crashing main
  thread are included.
- `DispatcherProofs`, outcomes: `ReportsMatch`, `ResultIsHonest`, `WaitsAreJustified`, from
  `AllInv`, which adds where threads can be at each stage of `run()` (`PcByMain`), what a
  scan has handled (`WavesInv`: waves in order, by their rows, and on time, the rows of
  earlier invocations before the first launch) and what counters and the stop reason say
  (`OutcomeInv`: fewer rows follow an invalid one than there are slots). `ReportsMatch`
  needs no hypothesis on faults. `ResultIsHonest` has one, `"whole" \notin IoFaults`, for a
  run that stops on the first invalid row: an append that raises after the row was written
  ends its thread before the stop is set, and another slot may claim. `WaitsAreJustified`
  holds if no append fails, which `dispatch_cap_leak` shows to be needed.
- `DispatcherProofs`, refinement: `QueueImplemented`, that every step of the dispatcher is
  a step of `ExactOnceQueue` under the mapping of `DispatcherRefinement`, or a stutter.
- `CampaignRunnersProofs`: `OneRunner` and `DispatchersExclude`, from
  `LockInv == Types /\ Owns /\ NotBoth`. `Owns`: a runner past its lock holds it and its
  lock file exists. `NotBoth`: of two dispatchers that hold their locks, one has not yet
  looked at the other's or has found it held. It is preserved because the files are
  listed again after the lock was taken, which is what the second scan is for.
  `NoAttemptForgotten` rests on these locks: `WorkInv` adds that a key a dispatcher runs
  has no row yet (it is the only writer of its ledger), so that a row which is written is
  one process less and one row more. A kill takes its processes out of both sides of the
  count, and adds one runner to those that were killed: it takes at most one attempt of an
  episode, because what a runner has in flight are distinct keys.
- `ControlProofs`, control: `LoggedOnceUnlessRaced`, `LoggedIsResolved`,
  `CompleteMeansComplete`. A record is appended long after its wave was looked up, so that
  `LoggedOnceApart` is not inductive: outside the waves that were raced for, no two
  processes add records of one wave (`AddersApart`), and what is being added is not in the
  log yet (`AddersFresh`). That a logged wave is resolved needs what the finalisers
  remember between two file operations (`WavesInHand`, `Called`), that what was reported
  was usable when it was and stays so (`ReportsResolved`, over a ledger and replacements
  that only grow), and that outside confirmatory campaigns nothing is logged, or about to
  be, without its report (`LogFollowsReports`).
  "Complete" is counted by the monitor from an earlier `view`; a pigeonhole argument over
  keys and rows turns the count into a row for every key.
- `ControlProofs`, designs: `CapsAreHonoured`. What planners write has integer caps (`ShelfWritten`);
  the tighter of two sets of caps is below both for every system (`TighterBoth`), whether
  one names it or the other; and without a finding of the amendment's rules the number of
  workers is within the amendment and each phase (`Admitted`).
- `EpisodeProofs`, episodes: `StartsAfterPrefix`, `PrefixIsClean`, `AcceptedIsComplete`,
  `AcceptedIsTreated`. The invariant ties what was published to the schedule that published
  it (`WireFollowsSchedule`: one event of each kind, at the time stored), corrupted
  messages to its window (`CorruptionBounded`), and the verdict to the runner's marks, in
  their order, and the files (`MarksInOrder`, `VerdictFollows`). `PrefixIsClean` has the
  hypothesis that the second stream of `semantic_corruption` lags by no more than
  `Onset - CleanPrefix`. Without it TLC finds a corrupted message of the clean prefix:
  the stream that is ahead starts the fault, and `on_message` corrupts whatever arrives
  then. The campaigns leave 3 s between the two (onset 8 s, prefix 5 s), the treatment
  verification none, and `schedule.py:21` admits equality.
- `EpisodeProofs`, labels: `LabelsFromEvidence`, that `LabelsExact` holds for recordings of
  any length and any kill of the extraction. Two parts. `TuningInv` says that the last of
  an episode's seven files is never torn, so that an episode that counts as extracted is
  whole and the table holds `Entry` of its recording (`EntryExact`). The other part is
  about the definitions. `ClockAt`: a clock of `LossStep` is the start of the longest
  unbroken run of bad samples, so `FirstLossEarliest`, the first moment at which such a run
  has lasted. `Anchored`: the anchor of `StuckStep` is a sample the robot is still near,
  and no later than any sample it is exactly at, so `FirstStuckBounded`. `PrimaryEventExact`
  takes the earliest by time and rank; `DecisionTimesCount` is a bijection between rows and
  windows; `EligibilityExact` is the arithmetic of the distances. What a pass over a
  sequence computes comes from `EveryStep`, by least counterexample. Of a recording
  `LabelsOK` assumes that its AMCL and odometry samples are sorted and no stamp occurs
  twice: `read_evidence` sorts them, and on a repeated stamp the detectors raise
  (`_validate_times`).
- `MonitorProofs`: `WindowIsExact`, `AlarmsAreExact`, `SidecarIsComplete`, from the
  conjuncts of `MonitorInv`; that a snapshot is a record the node had follows from alarms
  that are never taken back. `BufferSuffices`: a sample that was pruned is too old for
  every later row. `HistoryKept`: the rows that are kept reach back to the last one with a
  pose, so that `TailExact`, a suffix enriched from `base`, is the suffix enriched from the
  first row. `AlarmsFollow`: replaying the policy over one more score repeats the alarms
  it gave before. What a fold or a recursive function computes is proved there by least
  counterexample (`LeastNat`, from the library's well-foundedness of `<`), since the
  induction rules of the library take an operator and cannot be instantiated.
- `RecoveryProofs`: `GuardHasAuthority` (the decision is admitted by the guard, and an
  exhausted budget leaves assistance), `BudgetHolds`, `MotionIsExclusive`,
  `VerdictIsHonest`, `HandedOverForGood`, `CollisionIsSeen`. The budget is not inductive
  because `executed_count` omits failed sequences; the invariant bounds the sequences begun
  by the number of distinct warnings among the first `MaxRecoveries` that have been
  decided, and `seen_warning_ids` makes each count once. `MotionIsExclusive` rests on
  `MotionInv`: what is left of a running sequence is an end of `ACTION_SEQUENCES`, once its
  cancellation has been performed every goal was told to cancel until its last step, and a
  request is there only after the runner's goal was answered (`NothingBefore`).
  `VerdictIsHonest` follows the two statuses the runner sees, its own and the late `view`,
  back to a goal that arrived or was aborted (`Seen`), or to a runner without a handle.
  `HandedOverForGood` needs the order of the queue (`InOrder`: what is decided was the
  newest warning seen), as a count carried by an old request is otherwise too small.
- `TrainingProofs`: `NothingEverLeaks`, from `Loaded` (whatever is sampled passed
  `Loads`, over restarts); `RecordsAreComplete`, from `RecordInv` (outputs appear in their
  order, a directory that exists is never entered again, and a working run has no marker); `BestIsKept`, from
  `EpochInv`; and `CapIsExact`, from `DrawInv`. The last rests on arithmetic: the shares
  of a smaller number into the same parts are never larger (`SharesGrow`), so no phase is
  too short for its quota, and the shares add up (`BeforeStep`). No bound on the cap, the
  number of phases or the length of an episode is left.

- `StudyProofs`: `StudyIsOrdered`, and from it `ProtectedWaits`, `FreezeHolds` and
  `NothingShort`, for any plans that ended before, any that run together, and any number of
  kills and incomplete campaigns. None of the three is inductive: a script that was
  launched behind the gate writes long after it looked. `StudyInv` has what it takes.
  `Order`: what exists came after what it was made from (`Behind`), protected files after
  the split, the split after its record and the freeze, the freeze after the rules, the
  secondary predictor and everything fitted. `Work`: a running script still has what it
  asked for. `Past`: a plan stands behind a stage only with that stage's output, which is
  why the packet freezes the model last and why the folds, which are not asked for their
  tables, are evaluated on tables that exist. `Turn` and `Fresh`: what is frozen or fitted
  is not made twice. The first part of the proof is about the code's scripts and plans, one
  lemma each (`...Good`: what a script writes it guards, reads and moves aside as its kind
  of file demands; `...Simple`: so do all stages of a list), and the second about a step
  (`Change`: who may touch a file; `Course`: where the step leaves its plan).

Model-checked only:

- Liveness (`Termination`, `InvocationsEnd`, `CancelledResumesOrEnds`, `PlansFinish`),
  which the prover does not reach.
- `SeedsApart`, `PlannedIsRunnable`, `WavesWhole`. They are about the numbers of the
  study's own designs: for other bases, strides or routes they are false, and for these
  they are a computation over some thousand episodes, which TLC does.
- `FoldsAlike`: that a single short table of a fold is found needs to follow the table
  through the five files it is made from.
- Three properties of `tuning` (`IsotonicExact`, `ThresholdOptimal`,
  `RankMetricsExact`): folds and sorts over sequences (isotonic regression, merging of
  ties, areas under curves) against definitions that enumerate all fits or thresholds.
- For the learned selector, that the cheapest admitted action is admitted (a minimum over
  an arbitrary set of costs).

## 5. What is abstracted

An episode is one step for the dispatcher, one walk through `pc` in `Episode`, and a
mission in `RecoveryMission`. A gate is a step that may refuse; a ledger row is its key and
validity. A clearance is whether it is known and sufficient, a cost an integer. Times are
choices (a limit may expire) where only their expiry matters, and integers where they are
compared.

- *Recovery.* The evidence file of the live gate is a constant, as the node evaluates it
  once. Malformed requests, which the monitor does not send, are left out, and so are the
  manager's sidecar files.
- *Monitor.* One telemetry channel, the one with unbounded memory; a fresh pose counts as
  a good one; a score is above the threshold or not; `clearance` is the time of its scan.
- *Faults.* Families with the same control share a value; the contents of a corrupted
  message, and the levels of severity, are left out. A planner oscillation is two
  obstacles.
- *Labels.* Poses have one coordinate and a yaw; features are left out; the terminal kinds
  differ by rank only; `unsafe_perception` has no automatic candidate;
  `--allow-partial-manifest` is not modelled.
- *Design.* Checks of onset, duration and placement are one flag; the six forced actions
  of the recovery pilot are two, the fault families two.
- *Training.* What an epoch learns is a score; the random draw is any subset of the right
  size. That a run id is not repeated is checked within a manifest, as in the code, not
  over the pool.
- *Study.* A script's numbers are left out: what is kept is who reads and publishes what,
  and whether it is whole. The ablations share one unit; moving their outputs aside by
  hand, to start them anew, is left out.

## 6. Not modelled, and what is left

Not modelled: the neural models, the temperature and Platt fits and the features (real
arithmetic on tensors); bootstrap statistics and the evaluations built on it (numerical);
worker slots (a table, which a test covers); completion records, review and reporting
(conjunctions and formatting over files, whose order of publication is in `StudyPlan` and
`CampaignControl`); the Research 1 adapter (batch conversion); ROS and Gazebo (external).

Partly modelled: recovery manager (without its sidecar), recovery plumbing (what the
runner makes of statuses, not launch arguments and record checks), gates and freeze
(without the checklist behind the gate).

Worth proving next: `ThresholdOptimal` of `AlarmTuning`, once its candidates are stated as
order statistics of a set rather than as positions of a sorted sequence.

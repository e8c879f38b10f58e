---------------------------- MODULE FaultInjection ----------------------------
(***************************************************************************)
(* The two nodes that inject a fault into an episode: the signal proxy,    *)
(* which every sensor message passes through, and the environment fault    *)
(* node, which puts obstacles into the world.  Both follow one schedule    *)
(* (schedule.py) and publish what they do on /research2/events.            *)
(*                                                                         *)
(* Families of the code with the same control share a value here:          *)
(*   "signal"      wheel_slip, lidar_dropout and camera_occlusion (one     *)
(*                 stream, every message of it may be corrupted),          *)
(*   "pose"        localisation_perturbation (one displaced pose),         *)
(*   "semantic"    semantic_corruption (two streams, one schedule),        *)
(*   "blockage"    dynamic_blockage (one obstacle),                        *)
(*   "oscillation" planner_oscillation (a pair of obstacles),              *)
(*   "none"        no fault.                                               *)
(* Time is simulation time, followed from the dispatch of the goal on.     *)
(***************************************************************************)
EXTENDS Integers, FiniteSets, Sequences

CONSTANTS
    Families,      \* the families of the instance
    CleanPrefix, Onset, Duration, MaxWait,   \* the schedule, from the goal on
    MaxTime,       \* bound: the clock stops there
    MaxLag         \* bound: how old a sensor message may be when it arrives

Environment == {"blockage", "oscillation"}
Passive == {"none"} \cup Environment     \* the proxy only forwards

ASSUME ScheduleOK ==
    /\ Families \subseteq {"none", "signal", "pose", "semantic"} \cup Environment
    /\ CleanPrefix \in Nat /\ Onset \in Nat /\ CleanPrefix <= Onset
    /\ Duration \in Nat \ {0} /\ MaxWait \in Nat /\ MaxTime \in Nat /\ MaxLag \in Nat

Never == -1

VARIABLES
    now,        \* the simulation clock
    family,     \* the family of the episode
    schedule,   \* armed_time, actual_onset_time, rejection_time
    last,       \* last_state of the proxy
    eligible,   \* command speed, plan length, non-empty payload: all conditions
    readable,   \* the encoding of the images is one the proxy can corrupt
    stamps,     \* per sensor stream, the stamp of its newest message
    corrupted,  \* history: stamps of the corrupted messages that were forwarded
    entities,   \* obstacles in the list of the node
    removed,    \* the node has tried to remove them
    nodeUp,     \* the environment node has not raised
    wire        \* what both nodes published: [type, time]

faultVars == <<now, family, schedule, last, eligible, readable, stamps, corrupted,
               entities, removed, nodeUp, wire>>
proxyVars == <<last, stamps, corrupted>>
worldVars == <<entities, removed, nodeUp>>

Streams == CASE family = "signal"   -> {"sensor"}
             [] family = "pose"     -> {"amcl"}
             [] family = "semantic" -> {"grid", "grid_odom"}
             [] OTHER               -> {}

FaultInit ==
    /\ now = 0 /\ family \in Families
    /\ schedule = [armed |-> Never, onset |-> Never, rejected |-> Never]
    /\ last = "waiting_for_goal" /\ eligible = TRUE
    /\ readable \in IF family = "signal" THEN BOOLEAN ELSE {TRUE}
    /\ stamps = [s \in Streams |-> Never] /\ corrupted = {}
    /\ entities = 0 /\ removed = FALSE /\ nodeUp = TRUE /\ wire = <<>>

Publish(type, time) == wire' = Append(wire, [type |-> type, time |-> time])

-----------------------------------------------------------------------------
(* FaultSchedule.                                                          *)

\* Defect: a second goal signal arms the schedule again.
ArmAgain(time) ==
    /\ schedule' = [schedule EXCEPT !.armed = time]
    /\ Publish("injection_planned", time)

\* arm, and the event of the node that armed it: only the first signal counts.
Arm(time) ==
    IF schedule.armed # Never
    THEN UNCHANGED <<schedule, wire>>
    ELSE /\ schedule' = [schedule EXCEPT !.armed = time]
         /\ Publish("injection_planned", time)

\* update: what the schedule answers at a time.
Phase(time, ok) ==
    LET elapsed == time - schedule.armed
    IN CASE schedule.armed = Never -> "waiting_for_goal"
         [] schedule.armed # Never /\ schedule.onset # Never ->
              IF time <= schedule.onset + Duration THEN "active" ELSE "complete"
         [] schedule.armed # Never /\ schedule.onset = Never /\ schedule.rejected # Never ->
              "ineligible"
         [] OTHER ->
              CASE elapsed < CleanPrefix -> "clean_prefix"
                [] elapsed >= CleanPrefix /\ elapsed < Onset -> "waiting_for_onset"
                [] elapsed >= Onset /\ ok -> "activated"
                [] elapsed > Onset + MaxWait /\ ~ok -> "rejected"
                [] OTHER -> "waiting_for_eligibility"

\* update: what the schedule remembers of that answer.
Remember(phase, time) ==
    CASE phase = "activated" -> [schedule EXCEPT !.onset = time]
      [] phase = "rejected"  -> [schedule EXCEPT !.rejected = time]
      [] OTHER               -> schedule

-----------------------------------------------------------------------------
(* The signal proxy.                                                       *)

\* on_bt: the behaviour tree's first log, or a later one.  The environment
\* node arms by it too; the proxy does not when it is passive.
BehaviorTreeLog ==
    /\ family # "none" /\ nodeUp
    /\ Arm(now)
    /\ UNCHANGED <<now, family, eligible, readable, proxyVars, worldVars>>

\* on_event: the retained goal marker of the runner, with the runner's stamp.
GoalMarker(time) ==
    IF family \in Passive THEN UNCHANGED <<schedule, wire>> ELSE Arm(time)

\* on_command, on_plan: the robot moves or stops, a plan appears or is empty.
Eligibility ==
    /\ family # "none" /\ schedule.armed # Never /\ schedule.onset = Never
    /\ eligible' = ~eligible
    /\ UNCHANGED <<now, family, schedule, readable, proxyVars, worldVars, wire>>

\* A message of a corrupted stream.  The stamps of a stream grow; two streams
\* are not ordered with each other.  (Other messages are only forwarded, and
\* before the schedule is armed these are too.)
Message(s, time) ==
    LET phase == Phase(time, eligible)
        active == phase \in {"activated", "active"}
        once == family = "pose" => corrupted = {}    \* localisation_applied
    IN /\ schedule.armed # Never /\ time > stamps[s]
       /\ stamps' = [stamps EXCEPT ![s] = time]
       /\ schedule' = Remember(phase, time)
       /\ last' = IF phase = "activated" THEN "active" ELSE phase
       /\ corrupted' = IF active /\ readable /\ once THEN corrupted \cup {time} ELSE corrupted
       /\ LET told == CASE phase = "activated" -> <<"injection_started">>
                        [] phase = "rejected"  -> <<"injection_ineligible">>
                        [] phase = "complete" /\ last = "active" -> <<"injection_ended">>
                        [] OTHER -> <<>>
              error == IF active /\ ~readable THEN <<"injection_error">> ELSE <<>>
              types == told \o error
          IN wire' = wire \o [i \in DOMAIN types |-> [type |-> types[i], time |-> time]]
       /\ UNCHANGED <<now, family, eligible, readable, worldVars>>

Sensor == \E s \in Streams, lag \in 0..MaxLag : lag <= now /\ Message(s, now - lag)

-----------------------------------------------------------------------------
(* The environment fault node.                                             *)

\* One create command: it succeeds, fails, or does not return in time, which
\* raises out of the timer and ends the node.
Spawn == {"ok", "failed", "raised"}

Wanted == IF family = "oscillation" THEN 2 ELSE 1

\* activate: the pair is attempted to the end unless a command raises.
Activate ==
    \E outcome \in [1..Wanted -> Spawn] :
        LET raised == \E i \in 1..Wanted : outcome[i] = "raised"
            spawned == Cardinality({i \in 1..Wanted : outcome[i] = "ok"})
        IN /\ entities' = spawned
           /\ nodeUp' = ~raised
           /\ schedule' = [schedule EXCEPT !.onset = now,
                              !.rejected = IF raised \/ spawned = Wanted THEN @ ELSE now]
           /\ IF raised THEN UNCHANGED wire
              ELSE Publish(IF spawned = Wanted THEN "injection_started"
                           ELSE "injection_error", now)
           /\ UNCHANGED removed

\* remove: every entity is tried; a failure is only logged, a timeout raises.
RemoveEntities ==
    \/ /\ removed' = TRUE
       /\ Publish("injection_ended", now)
       /\ UNCHANGED <<schedule, entities, nodeUp>>
    \/ /\ nodeUp' = FALSE
       /\ UNCHANGED <<schedule, entities, removed, wire>>

\* The ten-hertz timer.
EnvironmentTick ==
    /\ family \in Environment /\ nodeUp
    /\ LET phase == Phase(now, eligible)
       IN \/ phase = "activated" /\ Activate
          \/ /\ phase = "rejected"
             /\ schedule' = Remember(phase, now)
             /\ Publish("injection_ineligible", now)
             /\ UNCHANGED worldVars
          \/ phase = "complete" /\ entities > 0 /\ ~removed /\ RemoveEntities
    /\ UNCHANGED <<now, family, eligible, readable, proxyVars>>

FaultClock ==
    /\ now < MaxTime
    /\ now' = now + 1
    /\ UNCHANGED <<family, schedule, eligible, readable, proxyVars, worldVars, wire>>

-----------------------------------------------------------------------------
Published(type) == {i \in DOMAIN wire : wire[i].type = type}

\* A fault is planned and started at most once, and between the two the clean
\* prefix passes.
StartedAfterPrefix ==
    /\ Cardinality(Published("injection_planned")) <= 1
    /\ Cardinality(Published("injection_started")) <= 1
    /\ \A i \in Published("injection_started") : \E j \in Published("injection_planned") :
         j < i /\ wire[i].time - wire[j].time >= CleanPrefix

\* No message is corrupted that belongs to the clean prefix, or after the end.
OnlyFaultCorrupts ==
    \A t \in corrupted : /\ t - schedule.armed >= CleanPrefix
                          /\ t <= schedule.onset + Duration

\* Whatever order goal signals, messages and ticks come in, the clean prefix is
\* kept, even when a second stream lags behind the one that started the fault.
CleanPrefixKept == StartedAfterPrefix /\ OnlyFaultCorrupts
=============================================================================

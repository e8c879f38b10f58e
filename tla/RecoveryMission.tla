--------------------------- MODULE RecoveryMission ---------------------------
(***************************************************************************)
(* A mission under live recovery.  The recovery manager node               *)
(* (recovery_manager/node.py, live_execution.py, nav2_commander.py)        *)
(* answers the alarms of the failure monitor: it cancels the mission goal, *)
(* waits until /odom shows the robot stopped, asks the guard, and runs the *)
(* chosen action, which ends with a fresh goal.  The episode runner        *)
(* (scripts/run_research2_episode.py) meanwhile follows the mission and    *)
(* decides how it ended.                                                   *)
(*                                                                         *)
(* The manager handles one request at a time while /odom is received in a  *)
(* second thread.  Nav2, the robot and the transport are external: a goal  *)
(* may be rejected, may end and a collision happen at any time; a          *)
(* cancellation that is answered has been accepted, and the goal ends      *)
(* later; /odom may say anything, and a request is lost only when the      *)
(* subscription's queue is full.                                           *)
(***************************************************************************)
EXTENDS RecoveryDecision, Integers, Sequences

CONSTANTS
    MaxAlarms,       \* bound: alarms of the monitor in one episode
    QueueDepth,      \* depth of the request subscription
    MaxRedelivered,  \* bound: requests delivered a second time
    Gates,           \* whether the live gate may be open (TRUE) or closed (FALSE)
    PoliciesUsed,    \* the policies to consider
    Nearby,          \* the surroundings the monitor may report
    Groups,          \* the signal groups it may diagnose
    Costs            \* the costs R3's selector may predict

ASSUME MissionOK ==
    /\ MaxAlarms \in Nat /\ QueueDepth \in Nat \ {0} /\ MaxRedelivered \in Nat
    /\ Gates \subseteq BOOLEAN
    /\ PoliciesUsed \subseteq Policies
    /\ Nearby \subseteq Surroundings /\ Groups \subseteq SignalGroups

Ids == 1..MaxAlarms
NoId == 0

VARIABLES
    gate, policy,    \* fixed when the node starts
    alarms,          \* how many requests the monitor has published
    queue,           \* the warnings whose request the manager has not received yet
    redelivered,
    seen,            \* seen_warning_ids
    phase,           \* where the callback is: idle, stop, settle, decide, act
    req,             \* the warning it handles
    todo,            \* steps of the running sequence still to perform
    basis,           \* where `stopped` comes from: "monitor", or an /odom received
                     \*   "before" or "after" the safe stop
    state, action,   \* what the guard was told, and what was then decided
    executed,        \* executed_count
    begun,           \* history: automated sequences begun
    own, other,      \* status of the runner's goal, of the newest other goal
    arrived, aborted,   \* history: a goal has succeeded, has been aborted
    measured,        \* measured_stopped
    collided,        \* the collision flag of the runner's monitor
    run,             \* where the runner is: send, mission, follow, judge, ended, down
    handle,          \* the runner holds the handle of its accepted goal
    terminal,
    view,            \* the status of `other` in the last status array received
    cancelling       \* a cancel-all of the runner is on its way

inbox == <<alarms, queue, redelivered>>
callback == <<seen, phase, req, todo, basis, state, action, executed, begun>>
nav2 == <<own, other, arrived, aborted>>
robot == <<measured, collided>>
runner == <<run, handle, terminal, view, cancelling>>
vars == <<gate, policy, inbox, callback, nav2, robot, runner>>

NoState == [count |-> 0]

Init ==
    /\ gate \in Gates /\ policy \in PoliciesUsed
    /\ alarms = 0 /\ queue = <<>> /\ redelivered = 0
    /\ seen = {} /\ phase = "idle" /\ req = NoId /\ todo = <<>> /\ basis = "monitor"
    /\ state = NoState /\ action = "none"
    /\ executed = 0 /\ begun = 0
    /\ own = "unsent" /\ other = "none"
    /\ arrived = FALSE /\ aborted = FALSE
    /\ measured = FALSE /\ collided = FALSE
    /\ run = "send" /\ handle = FALSE /\ terminal = "invalid"
    /\ view = "none" /\ cancelling = FALSE

Up == run # "down"

-----------------------------------------------------------------------------
(* The failure monitor, and the transport of its requests.                 *)

\* KEEP_LAST: a full queue drops its oldest request.
Deliver(id) == queue' = Append(IF Len(queue) < QueueDepth THEN queue ELSE Tail(queue), id)

\* Nav2 has begun to execute the runner's goal.
Started == own \notin {"unsent", "rejected"}

\* The monitor numbers its warnings; its first window begins with the first message of
\* the behaviour tree.
Alarm ==
    /\ Up /\ Started /\ alarms < MaxAlarms
    /\ alarms' = alarms + 1
    /\ Deliver(alarms + 1)
    /\ UNCHANGED <<gate, policy, redelivered, callback, nav2, robot, runner>>

\* The latest request once more.
Redeliver ==
    /\ Up /\ redelivered < MaxRedelivered /\ alarms > 0
    /\ redelivered' = redelivered + 1
    /\ Deliver(alarms)
    /\ UNCHANGED <<gate, policy, alarms, callback, nav2, robot, runner>>

\* repeated_recovery_count of a request: the alarms before it.
RecoveryCount(id) == id - 1

-----------------------------------------------------------------------------
(* Nav2 and the robot.                                                     *)

\* Nav2 answers the runner's goal.
Answer ==
    /\ Up /\ own = "unsent" /\ own' \in {"active", "rejected"}
    /\ UNCHANGED <<gate, policy, inbox, callback, other, arrived, aborted, robot, runner>>

Ongoing == {"active", "canceling"}

\* A goal ends; whether it was told to cancel or not, it may arrive or be aborted first
\* (by a newer goal too).
End(before, after) ==
    /\ Up /\ before \in Ongoing
    /\ after \in {"succeeded", "aborted"} \cup (IF before = "canceling" THEN {"canceled"} ELSE {})
    /\ arrived' = (arrived \/ after = "succeeded")
    /\ aborted' = (aborted \/ after = "aborted")
    /\ UNCHANGED <<gate, policy, inbox, callback, robot, runner>>

OwnEnds == End(own, own') /\ UNCHANGED other
OtherEnds == End(other, other') /\ UNCHANGED own
CancelEnds == \/ own = "canceling" /\ OwnEnds
              \/ other = "canceling" /\ OtherEnds

Collide ==
    /\ Up /\ ~collided
    /\ collided' = TRUE
    /\ UNCHANGED <<gate, policy, inbox, callback, nav2, measured, runner>>

\* _receive_odom, in the reentrant group: at any moment of the callback.
Odom ==
    /\ Up /\ measured' \in BOOLEAN
    /\ basis' = IF phase = "settle" THEN "after" ELSE basis
    /\ UNCHANGED <<gate, policy, inbox, seen, phase, req, todo, state, action,
                   executed, begun, nav2, collided, runner>>

\* The answer to a cancellation says that it was accepted, not that the goal has ended.
Told(status) == IF status = "active" THEN "canceling" ELSE status

\* Every navigate_to_pose goal is told to cancel.
CancelGoals == own' = Told(own) /\ other' = Told(other)

-----------------------------------------------------------------------------
(* The manager's callback.                                                 *)

SafeStop == <<"cancel_task", "zero_cmd_vel">>

OwnSteps(a) ==
    CASE a = "controlled_stop"    -> <<"resume_navigation">>
      [] a = "request_assistance" -> <<a>>
      [] OTHER                    -> <<a, "resume_navigation">>

\* Defect: the sequences rely on the safe stop before them.
SequenceBare(a) == OwnSteps(a)

\* ACTION_SEQUENCES; a step of its own has the action's name.
Sequence(a) == SafeStop \o OwnSteps(a)

\* With the gate open the manager stops the robot before anything else.
Handle(id) ==
    /\ req' = id
    /\ phase' = IF gate THEN "stop" ELSE "decide"
    /\ todo' = IF gate THEN SafeStop ELSE <<>>
    /\ basis' = "monitor"
    /\ UNCHANGED <<gate, policy, alarms, redelivered, state, action, executed,
                   begun, nav2, robot, runner>>

FirstTime(id) == id \notin seen

\* _receive: a warning is handled once, one at a time.
Receive ==
    /\ Up /\ phase = "idle" /\ queue # <<>> /\ FirstTime(Head(queue))
    /\ queue' = Tail(queue)
    /\ seen' = seen \cup {Head(queue)}
    /\ Handle(Head(queue))

Duplicate ==
    /\ Up /\ phase = "idle" /\ queue # <<>> /\ ~FirstTime(Head(queue))
    /\ queue' = Tail(queue)
    /\ UNCHANGED <<gate, policy, alarms, redelivered, callback, nav2, robot, runner>>

\* The callback returns.
Return ==
    /\ phase' = "idle" /\ basis' = "monitor"
    /\ req' = NoId /\ state' = NoState /\ action' = "none"

\* What a step does when it returns.
Effect(step) ==
    CASE step \in {"cancel_task", "request_assistance"} -> CancelGoals
      [] step = "resume_navigation" -> other' = "active" /\ UNCHANGED own
      [] OTHER -> UNCHANGED <<own, other>>

Perform ==
    /\ Up /\ phase \in {"stop", "act"} /\ todo # <<>>
    /\ Effect(Head(todo))
    /\ todo' = Tail(todo)
    /\ UNCHANGED <<gate, policy, inbox, seen, phase, req, basis, state, action,
                   executed, begun, arrived, aborted, robot, runner>>

StopDone ==
    /\ Up /\ phase = "stop" /\ todo = <<>>
    /\ phase' = "settle" /\ basis' = "before"
    /\ UNCHANGED <<gate, policy, inbox, seen, req, todo, state, action, executed,
                   begun, nav2, robot, runner>>

SequenceDone ==
    /\ Up /\ phase = "act" /\ todo = <<>>
    /\ executed' = executed + 1
    /\ Return
    /\ UNCHANGED <<gate, policy, inbox, seen, todo, begun, nav2, robot, runner>>

MayRaise == {"cancel_task", "request_assistance", "resume_navigation", "backup",
             "spin_active_rescan", "relocalise", "replan_clear_costmaps"}

\* The manager's own goal is cancelled first, then all; a cancellation may have been
\* accepted although its answer was not seen.
Raises(step) ==
    /\ step \in MayRaise
    /\ \/ UNCHANGED <<own, other>>
       \/ /\ step \in {"cancel_task", "request_assistance"}
          /\ own' \in {own, Told(own)} /\ other' = Told(other)
    /\ todo' = <<>>
    /\ UNCHANGED <<gate, policy, inbox, seen, executed, begun, arrived, aborted, robot,
                   runner>>

\* After a stop that failed the manager still decides.
StopFails ==
    /\ Up /\ phase = "stop" /\ todo # <<>> /\ Raises(Head(todo))
    /\ phase' = "decide"
    /\ UNCHANGED <<req, basis, state, action>>

SequenceFails ==
    /\ Up /\ phase = "act" /\ todo # <<>> /\ Raises(Head(todo))
    /\ Return

\* _wait_for_stop: as soon as the last /odom says stopped, or after the time limit.
Settle ==
    /\ Up /\ phase = "settle"
    /\ phase' = "decide"
    /\ UNCHANGED <<gate, policy, inbox, seen, req, todo, basis, state, action,
                   executed, begun, nav2, robot, runner>>

Budget == IF RecoveryCount(req) > executed THEN RecoveryCount(req) ELSE executed

MayExecute(a, told) == gate /\ a \in Eligible(told)

\* The guard and the policy.  After a stop that was performed the guard is told the
\* last measurement, else the monitor's estimate.
Decided ==
    /\ Up /\ phase = "decide"
    /\ \E near \in Nearby, estimate \in BOOLEAN, group \in Groups, cost \in Costs :
        LET told == [near |-> near, count |-> Budget,
                     stopped |-> IF basis = "monitor" THEN estimate ELSE measured]
            a == Decide(policy, group, cost, told)
        IN  IF MayExecute(a, told)
            THEN /\ phase' = "act" /\ todo' = Sequence(a)
                 /\ state' = told /\ action' = a
                 /\ begun' = IF a = "request_assistance" THEN begun ELSE begun + 1
                 /\ UNCHANGED <<req, basis>>
            ELSE Return /\ UNCHANGED <<todo, begun>>
    /\ UNCHANGED <<gate, policy, inbox, seen, executed, nav2, robot, runner>>

\* R3's costs cannot be predicted: an error record and nothing else.
DecideFails ==
    /\ Up /\ phase = "decide" /\ policy = "R3"
    /\ Return
    /\ UNCHANGED <<gate, policy, inbox, seen, todo, executed, begun, nav2, robot, runner>>

Manager == \/ Receive \/ Duplicate \/ Perform \/ StopDone \/ SequenceDone
           \/ StopFails \/ SequenceFails \/ Settle \/ Decided \/ DecideFails

-----------------------------------------------------------------------------
(* The runner's mission loop.                                              *)

\* The goal was accepted, and the answer is back.
Accepted ==
    /\ run = "send" /\ Started
    /\ run' = "mission" /\ handle' = TRUE /\ terminal' = "timeout"
    /\ UNCHANGED <<gate, policy, inbox, callback, nav2, robot, view, cancelling>>

NotAccepted ==
    /\ run' = "judge" /\ terminal' = "planner_failure"
    /\ UNCHANGED <<gate, policy, inbox, callback, nav2, robot, handle, view, cancelling>>

Rejected == run = "send" /\ own = "rejected" /\ NotAccepted

\* No answer before the deadline, even if the goal is accepted later on.
Unanswered == run = "send" /\ NotAccepted

Looping == run \in {"mission", "follow"}

\* The loop ends; cancel: every goal is cancelled, by a call that nobody waits for.
Leave(how, cancel) ==
    /\ run' = "judge" /\ terminal' = how
    /\ cancelling' = cancel
    /\ UNCHANGED <<gate, policy, inbox, callback, nav2, robot, handle, view>>

SeeCollision == Looping /\ collided /\ Leave("collision", TRUE)

\* The result of the runner's own goal, which nobody cancels with the gate closed.  A
\* goal that is aborted before a fault may begin makes the episode invalid.
SeeResult ==
    /\ run = "mission" /\ ~collided
    /\ \/ own = "succeeded" /\ Leave("success", FALSE)
       \/ own = "aborted" /\ Leave("planner_failure", FALSE)
       \/ own = "aborted" /\ Leave("invalid", FALSE)
       \/ /\ own = "canceled" /\ gate
          /\ run' = "follow"
          /\ UNCHANGED <<gate, policy, inbox, callback, nav2, robot, handle, terminal,
                         view, cancelling>>

\* observe_goal_statuses
Observe ==
    /\ Up /\ view # other /\ view' = other
    /\ UNCHANGED <<gate, policy, inbox, callback, nav2, robot, run, handle, terminal,
                   cancelling>>

\* Defects: an aborted goal is not looked at; any goal that is not active has arrived.
FollowDeaf == /\ run = "follow" /\ ~collided /\ view = "succeeded" /\ Leave("success", FALSE)
FollowEager ==
    run = "follow" /\ ~collided /\ view # "active" /\ Leave("success", FALSE)

\* resumed_mission_terminal: the newest goal of the manager decides.
Follow ==
    /\ run = "follow" /\ ~collided
    /\ \/ view = "succeeded" /\ Leave("success", FALSE)
       \/ view = "aborted" /\ Leave("planner_failure", FALSE)

\* No goal was active for the grace period.
GraceExpires ==
    /\ run = "follow" /\ ~collided /\ view \in {"none", "canceled"}
    /\ Leave("timeout", TRUE)

Deadline == Looping /\ Leave("timeout", TRUE)

\* Defect: a collision after the loop's last look is not looked for.
JudgeBlind ==
    /\ run = "judge" /\ run' = "ended"
    /\ \E reached \in BOOLEAN :
        terminal' = IF terminal = "success" /\ ~reached THEN "false_arrival" ELSE terminal
    /\ UNCHANGED <<gate, policy, inbox, callback, nav2, robot, handle, view, cancelling>>

\* The distance to the goal and the collision flag have the last word.
Judge ==
    /\ run = "judge" /\ run' = "ended"
    /\ \E reached \in BOOLEAN :
        terminal' = IF terminal # "success" THEN terminal
                    ELSE IF ~reached THEN "false_arrival"
                    ELSE IF collided THEN "collision" ELSE "success"
    /\ UNCHANGED <<gate, policy, inbox, callback, nav2, robot, handle, view, cancelling>>

\* The cancel-all reaches Nav2.
CancelArrives ==
    /\ Up /\ cancelling
    /\ CancelGoals /\ cancelling' = FALSE
    /\ UNCHANGED <<gate, policy, inbox, callback, arrived, aborted, robot, run, handle,
                   terminal, view>>

\* The stack is shut down, with whatever its nodes were doing.
Shutdown ==
    /\ run = "ended" /\ run' = "down"
    /\ UNCHANGED <<gate, policy, inbox, callback, nav2, robot, handle, terminal, view,
                   cancelling>>

Runner == \/ Accepted \/ Rejected \/ SeeCollision \/ SeeResult \/ Follow \/ GraceExpires
          \/ Judge \/ Shutdown

Finished == run = "down" /\ UNCHANGED vars

Next == \/ Alarm \/ Redeliver \/ Answer \/ OwnEnds \/ OtherEnds \/ Collide \/ Odom
        \/ Manager \/ Runner \/ Observe \/ Unanswered \/ Deadline \/ CancelArrives
        \/ Finished

\* The callback and the runner's loop are scheduled, status arrays arrive, and Nav2 ends
\* a goal whose cancellation it has accepted.  Nothing is assumed of the robot, of other
\* goals or of the deadline.
Fairness == WF_vars(Manager) /\ WF_vars(Runner) /\ WF_vars(Observe) /\ WF_vars(CancelEnds)

Spec == Init /\ [][Next]_vars
FairSpec == Spec /\ Fairness

-----------------------------------------------------------------------------
(* Properties.                                                             *)

Statuses == Ongoing \cup {"canceled", "succeeded", "aborted"}

TypeOK ==
    /\ gate \in BOOLEAN /\ policy \in Policies
    /\ alarms \in Nat /\ queue \in Seq(Ids) /\ redelivered \in Nat
    /\ seen \subseteq Ids /\ req \in Ids \cup {NoId}
    /\ phase \in {"idle", "stop", "settle", "decide", "act"}
    /\ todo \in Seq(Actions \cup {"cancel_task", "zero_cmd_vel", "resume_navigation"})
    /\ basis \in {"monitor", "before", "after"}
    /\ state \in RobotStates \cup {NoState} /\ action \in Actions \cup {"none"}
    /\ executed \in Nat /\ begun \in Nat
    /\ own \in Statuses \cup {"unsent", "rejected"}
    /\ other \in Statuses \cup {"none"} /\ view \in Statuses \cup {"none"}
    /\ arrived \in BOOLEAN /\ aborted \in BOOLEAN
    /\ measured \in BOOLEAN /\ collided \in BOOLEAN
    /\ run \in {"send", "mission", "follow", "judge", "ended", "down"} /\ handle \in BOOLEAN
    /\ terminal \in {"success", "planner_failure", "timeout", "collision", "false_arrival",
                     "invalid"}
    /\ cancelling \in BOOLEAN

\* maximum_repeated_recoveries bounds the automated sequences an episode begins,
\* failed ones included, whatever is lost, delivered twice or answered late: the alarm
\* count of the request makes up for what executed_count leaves out.
RecoveriesBounded == begun <= MaxRecoveries

\* The next step of the sequence moves the robot or sends a goal.
Moving == phase = "act" /\ todo # <<>> /\ Head(todo) \notin {"cancel_task", "zero_cmd_vel"}

\* The manager moves the robot or sends a goal only for an action that the guard
\* admitted, and only after every navigation goal was told to cancel, although the runner
\* and the manager both cancel goals and any cancellation may fail.
MotionExclusive ==
    Moving => /\ own # "active" /\ other # "active"
              /\ Admits(action, state) /\ (Exhausted(state) => action = "request_assistance")

\* Once the budget is exhausted the mission is handed over for good: no later request
\* makes the manager send another goal.
HandedOver ==
    [][(executed >= MaxRecoveries \/ \E id \in seen : RecoveryCount(id) >= MaxRecoveries)
            => ~(other # "active" /\ other' = "active")]_vars

\* A reported success is one, whoever's goal it was: a goal did arrive.  A reported
\* planner failure is a goal that was aborted, or the runner never held an accepted one.
TerminalHonest ==
    /\ terminal = "success" => arrived
    /\ terminal = "planner_failure" => aborted \/ ~handle

\* A mission that arrived after a collision is not a success.
NoSuccessAfterCollision ==
    [][(collided /\ run = "judge" /\ run' = "ended") => terminal' # "success"]_vars

\* Every callback ends although the robot may never come to rest and any call may fail
\* again and again, and a mission that recovery cancels is resumed or ends without
\* waiting for its deadline.
CancelledResumesOrEnds ==
    /\ phase # "idle" ~> (phase = "idle" \/ run = "down")
    /\ (own \in {"canceling", "canceled"}) ~> (other = "active" \/ run = "down")

\* "every step waits for task completion or a timeout": no goal is still being cancelled
\* when the robot is moved.
StepsWait == Moving => own \notin Ongoing /\ other \notin Ongoing

\* "the guard must only ever see the /odom measurement taken after the stop"
GuardSeesMeasuredStop == phase = "act" => basis = "after"

\* "never leave the robot moving after a failed step": no goal keeps driving it.
FailureLeavesNoGoal ==
    [][SequenceFails => own' # "active" /\ other' # "active"]_vars

=============================================================================

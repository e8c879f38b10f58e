-------------------------------- MODULE Episode --------------------------------
(***************************************************************************)
(* One episode, from the start of run_research2_episode.py to the verdict  *)
(* of its artifact validator: the runner brings the stack up, opens the    *)
(* recording window, dispatches the goal, ends the mission, tears the      *)
(* stack down and publishes the summary and the event sidecar, while the   *)
(* fault nodes (FaultInjection), the recorder and the topic-health node    *)
(* follow the events.  The mission itself is RecoveryMission's.            *)
(*                                                                         *)
(* Events travel per writer, in order.  How far the recorder and the       *)
(* topic-health node got is decided when the stack goes down: the end of   *)
(* what a writer published may be lost to either.  (The validator looks    *)
(* for no event of the runner in the recording but the first.)             *)
(***************************************************************************)
EXTENDS FaultInjection

CONSTANT MaxLost    \* bound: events of one writer that a reader may miss at the end

ASSUME LostOK == MaxLost \in Nat

VARIABLES
    pc,         \* where the runner is
    stackUp,    \* launched processes are running
    marks,      \* events of the runner: [type, time]
    goalSeen,   \* the proxy received the goal marker
    terminal,   \* terminal state: "success", "invalid", or "failed" for every other
    raised,     \* an exception other than EpisodeInvalid is on its way out
    bag,        \* the recording: how many events of the fault node it holds, or NoBag
    health,     \* the topic-health files: [partial, final]
    summary, events,   \* the published files: the terminal state, the events
    verdict     \* what the campaign runner records: "none", "accepted", "rejected"

runnerVars == <<pc, stackUp, marks, goalSeen, terminal, raised, bag, health,
                summary, events, verdict>>
vars == <<faultVars, runnerVars>>

NoBag == -1
NoSummary == "none"
NoHealth == [exists |-> FALSE, started |-> FALSE, ended |-> FALSE]
NoEvents == -1

Preparation == <<"preflight", "nav2", "amcl", "perception", "fresh_tf", "record">>
Killable == {"start", "recheck", "dispatch", "mission", "verdict", "terminal",
             "teardown", "promote", "summary", "events"}
             \cup {Preparation[i] : i \in DOMAIN Preparation}

Init ==
    /\ FaultInit
    /\ pc = "start" /\ stackUp = FALSE
    /\ marks = <<>> /\ goalSeen = FALSE /\ terminal = "invalid" /\ raised = FALSE
    /\ bag = NoBag /\ health = [partial |-> NoHealth, final |-> NoHealth]
    /\ summary = NoSummary /\ events = NoEvents /\ verdict = "none"

Mark(types) == marks' = marks \o [i \in DOMAIN types |-> [type |-> types[i], time |-> now]]
Marked(type) == {i \in DOMAIN marks : marks[i].type = type}

-----------------------------------------------------------------------------
(* The runner.                                                             *)

\* Arguments, boundary, worker slot and fault parameters are refused before
\* anything is launched; otherwise the simulation starts.
Start ==
    /\ pc = "start"
    /\ \/ pc' = "exited" /\ verdict' = "rejected" /\ UNCHANGED stackUp
       \/ pc' = Preparation[1] /\ stackUp' = TRUE /\ UNCHANGED verdict
    /\ UNCHANGED <<marks, goalSeen, terminal, raised, bag, health, summary, events>>

\* EpisodeInvalid, or any other exception: both go through the teardown.
Fail ==
    /\ pc' = "teardown"
    /\ raised' \in BOOLEAN
    /\ terminal' = "invalid"

\* Sensors ready, Nav2 up, localisation converged, perception ready, a fresh
\* transform: the next step, or an invalid episode.
Prepare ==
    \E i \in 1..(Len(Preparation) - 1) :
        /\ pc = Preparation[i]
        /\ \/ pc' = Preparation[i + 1] /\ UNCHANGED <<terminal, raised>>
           \/ Fail
        /\ UNCHANGED <<stackUp, marks, goalSeen, bag, health, summary, events,
                       verdict>>

\* The recorder is launched and the window opened.
Record ==
    /\ pc = "record"
    /\ bag' = 0
    /\ Mark(<<"recording_window_started">>)
    /\ pc' = "recheck"
    /\ UNCHANGED <<stackUp, goalSeen, terminal, raised, health, summary, events,
                   verdict>>

\* The transform once more, at the boundary of the dispatch.
Recheck ==
    /\ pc = "recheck"
    /\ \/ pc' = "dispatch" /\ UNCHANGED <<terminal, raised, marks>>
       \/ Fail /\ Mark(<<"recording_window_ended">>)
    /\ UNCHANGED <<stackUp, goalSeen, bag, health, summary, events, verdict>>

\* The goal's marker, then the goal; it may not be accepted.
Dispatch ==
    /\ pc = "dispatch"
    /\ Mark((IF family = "none" THEN <<"episode_started", "no_injection_control">>
             ELSE <<"episode_started">>) \o <<"goal_dispatched">>)
    /\ \/ pc' = "mission" /\ UNCHANGED terminal
       \/ pc' = "verdict" /\ terminal' = "failed"
    /\ UNCHANGED <<stackUp, goalSeen, raised, bag, health, summary, events, verdict>>

\* The mission ends.  An abort inside the clean prefix of a faulted episode
\* makes it invalid; the runner measures that prefix on the wall clock, which
\* the simulation clock says nothing about.
Mission ==
    /\ pc = "mission"
    /\ \/ /\ terminal' \in {"success", "failed"}
                           \cup (IF family # "none" THEN {"invalid"} ELSE {})
          /\ pc' = "verdict" /\ UNCHANGED raised
       \/ Fail
    /\ UNCHANGED <<stackUp, marks, goalSeen, bag, health, summary, events, verdict>>

\* A claimed success is measured against the ground truth.
Verdict ==
    /\ pc = "verdict"
    /\ terminal' \in IF terminal = "success" THEN {"success", "failed"} ELSE {terminal}
    /\ Mark(<<"terminal_event">>)
    /\ pc' = "terminal"
    /\ UNCHANGED <<stackUp, goalSeen, raised, bag, health, summary, events, verdict>>

EndWindow ==
    /\ pc = "terminal"
    /\ Mark(<<"recording_window_ended">>)
    /\ pc' = "teardown"
    /\ UNCHANGED <<stackUp, goalSeen, terminal, raised, bag, health, summary,
                   events, verdict>>

\* How many of the events a reader received.
Heard(sent) == {n \in 0..Len(sent) : n >= Len(sent) - MaxLost}

\* What the topic-health node knows after the first n marks.
HealthAfter(n) ==
    [exists  |-> TRUE,
     started |-> \E i \in Marked("recording_window_started") : i <= n,
     ended   |-> \E i \in Marked("recording_window_ended") : i <= n]

\* stack.shutdown: recorder and topic-health stop wherever they got to.  The
\* health node leaves its final file, or only a snapshot (the node is killed),
\* or nothing (it never came up).
Teardown ==
    /\ pc = "teardown"
    /\ stackUp' = FALSE
    /\ bag' \in IF bag = NoBag THEN {NoBag} ELSE Heard(wire)
    /\ \E n \in Heard(marks), left \in {"final", "partial", "nothing"} :
         health' = CASE left = "final"   -> [partial |-> NoHealth, final |-> HealthAfter(n)]
                     [] left = "partial" -> [partial |-> HealthAfter(n), final |-> NoHealth]
                     [] left = "nothing" -> health
    /\ pc' = "promote"
    /\ UNCHANGED <<marks, goalSeen, terminal, raised, summary, events, verdict>>

\* A snapshot stands in for a missing final file.  A raised exception leaves
\* the program here, without a summary.
Promote ==
    /\ pc = "promote"
    /\ health' = IF health.partial.exists /\ ~health.final.exists
                 THEN [partial |-> NoHealth, final |-> health.partial] ELSE health
    /\ IF raised THEN pc' = "exited" /\ verdict' = "rejected"
       ELSE pc' = "summary" /\ UNCHANGED verdict
    /\ UNCHANGED <<stackUp, marks, goalSeen, terminal, raised, bag, summary, events>>

\* An online policy without both sidecars makes the episode invalid; then the
\* summary appears whole (durable_atomic_write).
PublishSummary ==
    /\ pc = "summary"
    /\ terminal' \in {terminal, "invalid"}
    /\ summary' = terminal'
    /\ pc' = "events"
    /\ UNCHANGED <<stackUp, marks, goalSeen, raised, bag, health, events, verdict>>

\* Defect: the exit code does not look at the terminal state.
PublishEventsAlwaysZero ==
    /\ pc = "events"
    /\ events' = Len(marks)
    /\ pc' = "validate"
    /\ UNCHANGED <<stackUp, marks, goalSeen, terminal, raised, bag, health, summary,
                   verdict>>

\* The event sidecar, and the exit code: only a zero is validated.
PublishEvents ==
    /\ pc = "events"
    /\ events' = Len(marks)
    /\ IF terminal = "invalid" THEN pc' = "exited" /\ verdict' = "rejected"
       ELSE pc' = "validate" /\ UNCHANGED verdict
    /\ UNCHANGED <<stackUp, marks, goalSeen, terminal, raised, bag, health, summary>>

\* SIGKILL: nothing else is written, and the stack stays.
Kill ==
    /\ pc \in Killable
    /\ pc' = "killed" /\ verdict' = "rejected"
    /\ UNCHANGED <<stackUp, marks, goalSeen, terminal, raised, bag, health, summary,
                   events>>

-----------------------------------------------------------------------------
(* The validator.                                                          *)

Recorded(type) == \E i \in Published(type) : i <= bag

\* Defect: a fault that was only planned is enough.
ValidPlanned ==
    /\ health.final.exists /\ health.final.started /\ health.final.ended
    /\ bag # NoBag /\ Marked("recording_window_started") # {}
    /\ family # "none" => Recorded("injection_planned")

\* Health file and window markers, and for a faulted episode the planned and
\* the started injection with the clean prefix between them.  (Metadata, topic
\* counts and the reconciliation of the counts are the choice of Validate.)
Valid ==
    /\ health.final.exists /\ health.final.started /\ health.final.ended
    /\ bag # NoBag /\ Marked("recording_window_started") # {}
    /\ family # "none" =>
         /\ Recorded("injection_planned") /\ Recorded("injection_started")
         /\ LET time(type) == wire[CHOOSE i \in Published(type) :
                                     \A j \in Published(type) : i <= j].time
            IN time("injection_started") - time("injection_planned") >= CleanPrefix

\* validate_completed_artifact, after an exit with zero.
Validate ==
    /\ pc = "validate"
    /\ verdict' \in IF Valid THEN {"accepted", "rejected"} ELSE {"rejected"}
    /\ pc' = "exited"
    /\ UNCHANGED <<stackUp, marks, goalSeen, terminal, raised, bag, health, summary,
                   events>>

\* audit_episode, causal part: planned, started before the terminal event, and
\* no error of the injection.
CausalSchedulePassed ==
    /\ Recorded("injection_planned") /\ Recorded("injection_started")
    /\ \A i \in Published("injection_started"), j \in Marked("terminal_event") :
         wire[i].time < marks[j].time
    /\ ~Recorded("injection_error") /\ ~Recorded("injection_ineligible")

-----------------------------------------------------------------------------
(* The nodes, while the stack is up and the goal was dispatched.           *)

Live == stackUp /\ pc \in {"mission", "verdict", "terminal", "teardown"}
          /\ Marked("goal_dispatched") # {}

DeliverGoal ==
    /\ Live /\ ~goalSeen
    /\ goalSeen' = TRUE
    /\ \E i \in Marked("goal_dispatched") : GoalMarker(marks[i].time)
    /\ UNCHANGED <<now, family, eligible, readable, proxyVars, worldVars>>
    /\ UNCHANGED <<pc, stackUp, marks, terminal, raised, bag, health, summary,
                   events, verdict>>

Nodes ==
    /\ Live
    /\ BehaviorTreeLog \/ Eligibility \/ Sensor \/ EnvironmentTick \/ FaultClock
    /\ UNCHANGED runnerVars

Runner ==
    /\ \/ Start \/ Prepare \/ Record \/ Recheck \/ Dispatch \/ Mission \/ Verdict
       \/ EndWindow \/ Teardown \/ Promote \/ PublishSummary \/ PublishEvents
       \/ Validate
    /\ UNCHANGED faultVars

Crash == Kill /\ UNCHANGED faultVars

Next == Runner \/ Crash \/ DeliverGoal \/ Nodes

Spec == Init /\ [][Next]_vars

-----------------------------------------------------------------------------
(* Properties.                                                             *)

\* An episode that the campaign counts has everything the study reads: both
\* files, a terminal state that is not invalid and the one that was announced
\* in the recording window, and a health file that saw the whole window.
AcceptedComplete ==
    verdict = "accepted" =>
        /\ summary = terminal /\ summary # "invalid" /\ events = Len(marks)
        /\ health.final.started /\ health.final.ended
        /\ \E i \in Marked("recording_window_started"), j \in Marked("goal_dispatched"),
              k \in Marked("terminal_event"), n \in Marked("recording_window_ended") :
              i < j /\ j < k /\ k < n

\* A faulted episode that the campaign counts was really treated: a message
\* was corrupted or every obstacle of the fault was in the world.
AcceptedTreated ==
    verdict = "accepted" /\ family # "none" /\ readable =>
        IF family \in Environment THEN entities = Wanted ELSE corrupted # {}

\* ... and before the mission was over.
AcceptedInTime == verdict = "accepted" /\ family # "none" => CausalSchedulePassed

=============================================================================

-------------------------- MODULE RecoveryDecision --------------------------
(***************************************************************************)
(* The independent guard and the recovery policies (recovery/guards.py,    *)
(* selector.py, manager.py), as operators on one request.  A clearance is  *)
(* abstracted to whether it was measured and is at least its minimum.      *)
(***************************************************************************)
EXTENDS Naturals

CONSTANT MaxRecoveries   \* maximum_repeated_recoveries

ASSUME MaxRecoveriesOK == MaxRecoveries \in Nat

Actions == {"controlled_stop", "relocalise", "replan_clear_costmaps", "backup",
            "spin_active_rescan", "wait", "request_assistance"}
Forceable == Actions \ {"request_assistance"}

\* R1, R2, R3 and the pilot's RP_<action>, which stands for itself.
Policies == {"R1", "R2", "R3"} \cup Forceable
SignalGroups == {"localisation", "planning", "frontal_blockage", "perception",
                 "transient_obstruction", "unknown"}

Surroundings == [stopAllowed : BOOLEAN, localisationPoor : BOOLEAN,
                 planningBlocked : BOOLEAN, rearClear : BOOLEAN,
                 rotationClear : BOOLEAN, collisionRisk : BOOLEAN,
                 transient : BOOLEAN, relocalisable : BOOLEAN]

\* What the guard looks at: the surroundings, whether the robot is stopped, and how
\* many recoveries there have been.
RobotStates == [near : Surroundings, stopped : BOOLEAN, count : Nat]

\* Defect: off by one.
ExhaustedLate(s) == s.count > MaxRecoveries
Exhausted(s) == s.count >= MaxRecoveries

Admits(a, s) ==
    CASE a = "controlled_stop"       -> s.near.stopAllowed
      [] a = "relocalise"            -> s.stopped /\ s.near.localisationPoor
                                            /\ s.near.relocalisable
      [] a = "replan_clear_costmaps" -> ~s.near.collisionRisk /\ s.near.planningBlocked
      [] a = "backup"                -> s.stopped /\ s.near.rearClear
      [] a = "spin_active_rescan"    -> s.stopped /\ s.near.rotationClear
      [] a = "wait"                  -> ~s.near.collisionRisk /\ s.near.transient
      [] OTHER                       -> TRUE

\* eligible_actions
Eligible(s) == IF Exhausted(s) THEN {"request_assistance"}
               ELSE {a \in Actions : Admits(a, s)}

SignalAction(group) ==
    CASE group = "localisation"          -> "relocalise"
      [] group = "planning"              -> "replan_clear_costmaps"
      [] group = "frontal_blockage"      -> "backup"
      [] group = "perception"            -> "spin_active_rescan"
      [] group = "transient_obstruction" -> "wait"
      [] OTHER                           -> "controlled_stop"

\* The order of the action names, which breaks ties between costs.
NameRank == [backup |-> 1, controlled_stop |-> 2, relocalise |-> 3,
             replan_clear_costmaps |-> 4, request_assistance |-> 5,
             spin_active_rescan |-> 6, wait |-> 7]

\* A rejected preference degrades to a controlled stop, then to assistance.
OrElse(preferred, s) ==
    IF preferred \in Eligible(s) THEN preferred
    ELSE IF "controlled_stop" \in Eligible(s) THEN "controlled_stop"
    ELSE "request_assistance"

\* select_lowest_cost: cost may leave out actions.
Cheapest(cost, s) ==
    LET offered == Eligible(s) \cap DOMAIN cost
        better(a, b) == \/ cost[a] < cost[b]
                        \/ cost[a] = cost[b] /\ NameRank[a] <= NameRank[b]
    IN  IF offered = {} THEN "request_assistance"
        ELSE CHOOSE a \in offered : \A b \in offered : better(a, b)

\* decide_recovery
Decide(policy, group, cost, s) ==
    CASE policy = "R1" -> OrElse("controlled_stop", s)
      [] policy = "R2" -> OrElse(SignalAction(group), s)
      [] policy = "R3" -> Cheapest(cost, s)
      [] OTHER         -> OrElse(policy, s)
=============================================================================

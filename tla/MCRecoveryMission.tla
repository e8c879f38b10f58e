------------------------- MODULE MCRecoveryMission -------------------------
(* Values for the constants of RecoveryMission.                              *)
EXTENDS RecoveryMission

\* stop_allowed is always reported true by the monitor; the clearances are open.
Open == {[stopAllowed |-> TRUE, localisationPoor |-> FALSE, planningBlocked |-> FALSE,
          rearClear |-> TRUE, rotationClear |-> TRUE, collisionRisk |-> FALSE,
          transient |-> FALSE, relocalisable |-> FALSE]}

\* Only R2 looks at the group.
AnyGroup == {"unknown"}

\* The selector prefers assistance, or has a tie of two actions.
SomeCosts == {[request_assistance |-> 0, controlled_stop |-> 1],
              [backup |-> 1, controlled_stop |-> 1]}

Live == {TRUE}
LiveOrLocked == {TRUE, FALSE}
ForcedBackup == {"backup"}
Learned == {"R3"}
=============================================================================

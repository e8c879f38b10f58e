--------------------------- MODULE ExactOnceQueue ---------------------------
(***************************************************************************)
(* What ParallelDispatcher promises in its class comment: an exact-once    *)
(* work queue.  An episode is pending, then attempted, then recorded, and  *)
(* never goes back; the earliest pending episode whose system has room is  *)
(* the one that starts.  There are no threads, locks, counters, files or   *)
(* stop reasons here.                                                      *)
(***************************************************************************)
EXTENDS Naturals, FiniteSets

CONSTANTS Keys,     \* episodes, numbered in execution order
          System,   \* System[k]: the system of episode k
          Cap,      \* Cap[y]: bound on the attempts of y in progress
          Admitted  \* the systems whose episodes may start

VARIABLE status     \* status[k]: "pending", "attempting" or "recorded"

InProgress(y) == {k \in Keys : status[k] = "attempting" /\ System[k] = y}

MayStart(k) == /\ status[k] = "pending"
               /\ System[k] \in Admitted
               /\ Cardinality(InProgress(System[k])) < Cap[System[k]]

Init == status \in [Keys -> {"pending", "recorded"}]

Start(k) ==
    /\ MayStart(k)
    /\ \A j \in Keys : MayStart(j) => k <= j
    /\ status' = [status EXCEPT ![k] = "attempting"]

Record(k) ==
    /\ status[k] = "attempting"
    /\ status' = [status EXCEPT ![k] = "recorded"]

Next == \E k \in Keys : Start(k) \/ Record(k)

Spec == Init /\ [][Next]_status
=============================================================================

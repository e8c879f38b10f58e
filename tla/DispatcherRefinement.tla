------------------------ MODULE DispatcherRefinement ------------------------
(* The dispatcher implements the exact-once queue: the status of an episode  *)
(* is read off the in-flight set and the ledger.                             *)
EXTENDS Dispatcher

StatusOf == [k \in Keys |-> IF k \in inFlight THEN "attempting"
                            ELSE IF k \in Attempted THEN "recorded"
                            ELSE "pending"]

Queue == INSTANCE ExactOnceQueue WITH Admitted <- Phase, status <- StatusOf

\* Every step of the threads is a step of the queue or leaves it alone, append
\* failures and a crash of the main thread included.
ImplementsQueue == Queue!Spec
=============================================================================

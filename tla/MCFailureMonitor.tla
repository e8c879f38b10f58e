--------------------------- MODULE MCFailureMonitor ---------------------------
(* Values for the constants of FailureMonitor.                               *)
EXTENDS FailureMonitor

Frozen == [frozen |-> TRUE, smoke |-> FALSE, files |-> TRUE, hashes |-> TRUE,
           overrides |-> "none", threshold |-> TRUE]
Tampered == [Frozen EXCEPT !.hashes = FALSE]
FrozenOrTampered == {Frozen, Tampered}
=============================================================================

---------------------------- MODULE MCDispatcher ----------------------------
(* Values for the constants of Dispatcher: two systems, the perception-heavy *)
(* s3 capped at one episode at a time, and the ledgers a run may resume.     *)
EXTENDS DispatcherRefinement

MCSystems == {"s0", "s3"}

\* Episodes in execution order: s3, s0, s3, s0, ...
MCSystem == [k \in Keys |-> IF k % 2 = 1 THEN "s3" ELSE "s0"]

\* The phase is left with the last episode, of the other system, pending.
LastOfS3 == [k \in Keys |-> IF k = NumEpisodes THEN "s3" ELSE "s0"]

MCCap == [s0 |-> 2, s3 |-> 1]

OnlyS0 == {"s0"}

Rows(keys, oks) == [i \in DOMAIN keys |-> [key |-> keys[i], ok |-> oks[i]]]

Fresh == {<<>>}

\* Campaigns to resume: after one episode, and with the retained invalid row of an
\* earlier invocation in the first wave.
SomePrior == {Rows(<<1>>, <<TRUE>>), Rows(<<2, 1>>, <<FALSE, TRUE>>)}

\* An earlier invocation was killed while episode 1 ran next to episode 2.
KilledPrior == {Rows(<<2>>, <<FALSE>>)}

NoInterrupts == {}
NoFaults == {}
Drain == {"drain_requested"}
NoSpace == {"free_space_reserve"}
AllFaults == {"nothing", "torn", "whole"}
=============================================================================

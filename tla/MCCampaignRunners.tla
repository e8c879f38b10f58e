-------------------------- MODULE MCCampaignRunners --------------------------
(* Values for the constants of CampaignRunners: who runs which campaign.     *)
EXTENDS CampaignRunners, TLC

CONSTANTS d1, d2, d3, s1, s2

TwoDispatchers == {d1, d2}
ThreeDispatchers == {d1, d2, d3}
OneDispatcherOnly == {d1}
OneOfEach == {d1, s2}
Mixed == {d1, d2, s1}
TwoSequential == {s1, s2}
NoRunners == {}

SameCampaign == [r \in Runners |-> 1]
\* d2 and s2 work on the second campaign.
Crossed == [r \in Runners |-> IF r \in {d2, s2} THEN 2 ELSE 1]
=============================================================================

--------------------------- MODULE MCProvisioning ---------------------------
(* Two grants of one and two uses, three calls that race for them.             *)
EXTENDS Provisioning, TLC

CONSTANTS grant1, grant2, agent1, agent2, agent3

MCGrants == {grant1, grant2}
MCAgents == {agent1, agent2, agent3}
MCQuotas == {1, 2}
MCSymmetry == Permutations(MCAgents) \cup Permutations(MCGrants)
=============================================================================

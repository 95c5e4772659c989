--------------------------- MODULE MCAgentChannel ---------------------------
EXTENDS AgentChannel, TLC
Symmetry == Permutations(Polls)
=============================================================================

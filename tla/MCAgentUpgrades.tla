--------------------------- MODULE MCAgentUpgrades --------------------------
EXTENDS AgentUpgrades, TLC

\* Rows and evaluations are compared with nothing but themselves.
Symmetry == Permutations(Rows) \cup Permutations(Evals)
=============================================================================

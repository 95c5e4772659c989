------------------------------ MODULE MCAlerts ------------------------------
EXTENDS Alerts, TLC

Symmetry == Permutations(Runs)
=============================================================================

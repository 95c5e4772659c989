----------------------------- MODULE MCSshPool -----------------------------
EXTENDS SshPool, TLC

Symmetry == Permutations(Ids) \cup Permutations(Callers) \cup Permutations(Clients)
=============================================================================

------------------------------ MODULE MCBilling ------------------------------
EXTENDS Billing, TLC

\* A plan with one check, one without limit, and what is free.
MCRank == [free |-> -1, starter |-> -1, team |-> 1]
MCChecks == [starter |-> 1, team |-> Unlimited]
MCCap == [free |-> 1, starter |-> 1, team |-> 2]

Symmetry == Permutations(Requests)
=============================================================================

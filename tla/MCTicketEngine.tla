--------------------------- MODULE MCTicketEngine ---------------------------
EXTENDS TicketEngine, TLC

\* Runs differ in their names only.
EngineSymmetry == Permutations(Engines)
=============================================================================

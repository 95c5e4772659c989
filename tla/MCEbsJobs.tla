------------------------------ MODULE MCEbsJobs ------------------------------
EXTENDS EbsJobs, TLC
=============================================================================

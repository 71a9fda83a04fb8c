------------------------------ MODULE MCMining ------------------------------
EXTENDS Mining
=============================================================================

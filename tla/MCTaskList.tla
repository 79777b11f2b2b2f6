----------------------------- MODULE MCTaskList -----------------------------
EXTENDS RoundRobin
=============================================================================

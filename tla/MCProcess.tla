------------------------------ MODULE MCProcess ------------------------------
EXTENDS Process, TLC

Symmetric == Permutations(Procs) \cup Permutations(Addrs)
=============================================================================

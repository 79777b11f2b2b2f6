----------------------------- MODULE MCHeapLoops -----------------------------
EXTENDS HeapLoops
=============================================================================

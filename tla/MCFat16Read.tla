----------------------------- MODULE MCFat16Read -----------------------------
EXTENDS Fat16Read

\* A file of three clusters, the last two not in the order of the disk.
MCChain == <<3, 6, 5>>

\* A cluster, an end of chain and a word that is a negative int.
MCWords == {5, 4088, -3}
=============================================================================

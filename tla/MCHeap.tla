------------------------------- MODULE MCHeap -------------------------------
(***************************************************************************)
(* Small instances of the kernel heap for TLC: blocks of 4 bytes in a      *)
(* 6-bit address space, a pool that starts three blocks above address 0.   *)
(***************************************************************************)
EXTENDS Heap, TLC

Symmetric == Permutations(Owners)
=============================================================================

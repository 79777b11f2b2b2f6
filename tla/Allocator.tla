------------------------------ MODULE Allocator ------------------------------
(***************************************************************************)
(* What the callers of kmalloc, kzalloc and kfree rely on: a request for n *)
(* blocks is answered with n consecutive blocks that nobody else holds,    *)
(* and is refused only if the pool has no n consecutive free blocks; what  *)
(* is released is exactly what was granted.                                *)
(*                                                                         *)
(* A grant starts inside the pool.  That it also ends inside the pool is   *)
(* not promised here, because the code does not keep that promise (see     *)
(* GrantInPool in module Heap).                                            *)
(***************************************************************************)
EXTENDS Integers

CONSTANTS
    Owners,     \* the callers, each with at most one grant outstanding
    Pool,       \* number of blocks in the pool
    Requests    \* the numbers of blocks a request may ask for

VARIABLES
    granted,    \* granted[o]: the set of blocks that o holds
    answer      \* the last answer: what was asked, and whether it was granted

vars == <<granted, answer>>

Held == UNION {granted[o] : o \in Owners}

Run(s, n) == s..(s + n - 1)

Init ==
    /\ granted = [o \in Owners |-> {}]
    /\ answer = [blocks |-> 0, ok |-> FALSE]

Grant(o, n) ==
    /\ granted[o] = {}
    /\ \E s \in 0..(Pool - 1) :
          /\ \A p \in Owners : Run(s, n) \cap granted[p] = {}
          /\ granted' = [granted EXCEPT ![o] = Run(s, n)]
    /\ answer' = [blocks |-> n, ok |-> TRUE]

Refuse(n) ==
    /\ \A s \in 0..(Pool - n) : \E p \in Owners : Run(s, n) \cap granted[p] # {}
    /\ answer' = [blocks |-> n, ok |-> FALSE]
    /\ UNCHANGED granted

Release(o) ==
    /\ granted[o] # {}
    /\ granted' = [granted EXCEPT ![o] = {}]
    /\ UNCHANGED answer

Next ==
    \/ \E o \in Owners, n \in Requests : Grant(o, n)
    \/ \E n \in Requests : Refuse(n)
    \/ \E o \in Owners : Release(o)

Spec == Init /\ [][Next]_vars
=============================================================================

----------------------------- MODULE RoundRobin -----------------------------
(***************************************************************************)
(* The turns that task_next (task/task.c) hands out, recorded by a history *)
(* variable on top of module TaskList.                                     *)
(***************************************************************************)
EXTENDS TaskList

VARIABLE
    served          \* served[t]: the tasks that task_next has given the
                    \* processor since t last had its turn or was created
roundVars == <<vars, served>>

RoundInit == Init /\ served = [t \in Tasks |-> {}]

\* n has its turn, which counts for every task that is waiting.
Turn(n) == served' = [t \in Tasks |-> IF t = n THEN {} ELSE served[t] \cup {n}]

(***************************************************************************)
(* task_free of the current task makes the next one current without        *)
(* running it, and the task_next that follows passes it over: it has lost  *)
(* this turn.  The freed struct is nobody's turn any more.                 *)
(***************************************************************************)
Forget(t) ==
    served' = [u \in Tasks |->
                  IF t = current_task /\ u \in {t, current_task'}
                  THEN {} ELSE served[u] \ {t}]

RoundNext ==
    \/ \E t \in Tasks : Create(t) /\ served' = [served EXCEPT ![t] = {}]
    \/ \E t \in Tasks : Remove(t) /\ Forget(t)
    \/ RunFirst /\ served' = [t \in Tasks |-> {}]
    \/ Reschedule /\ Turn(current_task')
    \/ (Trap \/ Resume \/ UserStep) /\ UNCHANGED served

RoundSpec == RoundInit /\ [][RoundNext]_roundVars

(***************************************************************************)
(* Round robin, whichever tasks are created and freed meanwhile: task_next *)
(* never gives a task the processor twice while another one, which was     *)
(* there at the first time, waits for its own turn.                        *)
(***************************************************************************)
NobodyIsOvertakenTwice ==
    [][Reschedule => \A t \in alive \ {current_task'} :
                        current_task' \notin served[t]]_roundVars
=============================================================================

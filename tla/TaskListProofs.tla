--------------------------- MODULE TaskListProofs ---------------------------
(***************************************************************************)
(* Theorems about the task list for any number of tasks and creations.     *)
(***************************************************************************)
EXTENDS RoundRobin, TLAPS

\* Creation stamps tell live tasks apart.
Stamps ==
    /\ \A t \in alive : born[t] < created
    /\ \A t, u \in alive : born[t] = born[u] => t = u

(***************************************************************************)
(* The inductive invariant.  The list alone is not enough: that freeing a  *)
(* task never frees the loaded directory rests on the kernel's directory   *)
(* being loaded whenever the kernel runs.                                  *)
(***************************************************************************)
IInv ==
    /\ TypeOK
    /\ Stamps
    /\ ListMirrorsCreation
    /\ CurrentIsLive
    /\ RunsInOwnSpace
    /\ ContextIsOwn
    /\ mode # "user" => current_directory = Kernel

-----------------------------------------------------------------------------
\* Nothing exists at first.
LEMMA InitIInv == Init => IInv
<1>. SUFFICES ASSUME Init PROVE IInv
    OBVIOUS
<1>. USE TaskAssumption DEF Init
<1>1. TypeOK
    BY DEF TypeOK, Context
<1>. QED BY <1>1 DEF IInv, Stamps, ListMirrorsCreation, CurrentIsLive,
                     RunsInOwnSpace, ContextIsOwn

\* The task that task_next switches to is alive.
LEMMA NextIsLive ==
    ASSUME IInv, current_task # NULL
    PROVE  /\ current_task \in alive /\ task_head \in alive
           /\ GetNext(current_task, next, task_head) \in alive
<1>1. current_task \in alive /\ task_head \in alive
    BY DEF IInv, CurrentIsLive, ListMirrorsCreation
<1>2. next[current_task] # NULL => next[current_task] \in alive
    BY <1>1 DEF IInv, ListMirrorsCreation, Follows
<1>. QED BY <1>1, <1>2 DEF GetNext

\* Types are preserved by every function of task.c.
LEMMA TypeCorrectStep ==
    ASSUME IInv, [Next]_vars
    PROVE  TypeOK'
<1>. USE TaskAssumption DEF IInv, TypeOK, Context
<1>1. ASSUME NEW t \in Tasks, Create(t) PROVE TypeOK'
    BY <1>1 DEF Create, task_new
<1>2. ASSUME NEW t \in Tasks, task_free(t) PROVE TypeOK'
    <2>1. /\ next' \in [Tasks -> Tasks \cup {NULL}]
          /\ prev' \in [Tasks -> Tasks \cup {NULL}]
        BY <1>2 DEF task_free, task_list_remove
    <2>2. {task_head', task_tail'} \subseteq Tasks \cup {NULL}
        BY <1>2 DEF task_free, task_list_remove
    <2>3. current_task' \in Tasks \cup {NULL}
        BY <1>2, <2>1, <2>2 DEF task_free, task_list_remove, GetNext
    <2>4. cpu' \in Context(Tasks \cup {NULL})
        BY <1>2 DEF task_free
    <2>. QED BY <1>2, <2>1, <2>2, <2>3, <2>4 DEF task_free
<1>3. ASSUME NEW t \in alive, task_switch(t), task_return(t), UNCHANGED <<links, registers>>,
             started' \in BOOLEAN
      PROVE  TypeOK'
    BY <1>3 DEF task_switch, task_return, links
<1>4. CASE Panic
    BY <1>4 DEF Panic, links
<1>5. CASE Reschedule
    <2>1. GetNext(current_task, next, task_head) \in alive
        BY <1>5, NextIsLive DEF Reschedule
    <2>. QED BY <1>3, <1>4, <1>5, <2>1 DEF Reschedule, task_next
<1>6. CASE RunFirst
    BY <1>3, <1>4, <1>6, NextIsLive DEF RunFirst, task_run_first_ever_task
<1>7. CASE Trap
    <2>1. cpu \in Context(Tasks \cup {NULL}) /\ cpu.task = current_task
        BY <1>7 DEF Trap, RunsInOwnSpace
    <2>. QED BY <1>7, <2>1 DEF Trap, task_current_save_stat, links
<1>8. CASE Resume
    BY <1>8 DEF Resume, task_page, task_switch, links
<1>9. CASE UserStep
    BY <1>9 DEF UserStep, links
<1>10. CASE UNCHANGED vars
    BY <1>10 DEF vars, links
<1>. QED BY <1>1, <1>2, <1>5, <1>6, <1>7, <1>8, <1>9, <1>10 DEF Next, Remove

-----------------------------------------------------------------------------
\* Appending a task keeps the list in the order of creation.
LEMMA NewKeepsList ==
    ASSUME IInv, NEW t \in Tasks, Create(t)
    PROVE  ListMirrorsCreation'
<1>1. /\ t \notin alive /\ alive' = alive \cup {t} /\ task_tail' = t
      /\ born' = [born EXCEPT ![t] = created]
      /\ \A u \in alive : born'[u] = born[u] /\ born[u] < born'[t]
      /\ \A u \in alive : born[u] \in Nat /\ u \in Tasks
      /\ born'[t] = created /\ created \in Nat
    BY DEF IInv, TypeOK, Stamps, Create, task_new
<1>2. CASE task_head = NULL
    <2>1. alive = {} /\ task_head' = t /\ next'[t] = NULL /\ prev'[t] = NULL
        BY <1>2, TaskAssumption DEF IInv, TypeOK, ListMirrorsCreation, Create, task_new
    <2>. QED BY <1>1, <2>1 DEF ListMirrorsCreation, Before, Follows
<1>3. CASE task_head # NULL
    <2>1. /\ alive # {} /\ task_head' = task_head /\ task_tail \in alive
          /\ next'[t] = NULL /\ next'[task_tail] = t /\ prev'[t] = task_tail
          /\ \A u \in alive \ {task_tail} : next'[u] = next[u]
          /\ \A u \in alive : prev'[u] = prev[u]
        BY <1>1, <1>3 DEF IInv, TypeOK, ListMirrorsCreation, Create, task_new
    <2>2. /\ task_head \in alive /\ \A u \in alive : ~(born[u] < born[task_head])
          /\ \A u \in alive : ~(born[task_tail] < born[u])
        BY <2>1 DEF IInv, ListMirrorsCreation, Before
    <2>3. /\ \A u \in alive' : ~Before(u, task_head)'
          /\ \A u \in alive' : ~Before(t, u)'
        BY <1>1, <2>1, <2>2 DEF Before
    <2>4. ASSUME NEW u \in alive \ {task_tail}
          PROVE  next[u] # NULL /\ Follows(u, next[u])
        <3>1. born[u] < born[task_tail]
            BY <1>1, <2>1, <2>2, <2>4 DEF IInv, Stamps
        <3>. QED BY <2>1, <3>1 DEF IInv, ListMirrorsCreation, Before
    <2>5. \A u, v \in alive : Follows(u, v) => Follows(u, v)'
        BY <1>1 DEF Follows, Before
    <2>6. \A u \in alive : u = task_tail => Follows(u, t)'
        BY <1>1, <2>1, <2>2 DEF Follows, Before
    <2>7. ASSUME NEW u \in alive'
          PROVE  IF next'[u] = NULL THEN \A v \in alive' : ~Before(u, v)'
                                    ELSE Follows(u, next[u])'
        <3>1. CASE u = t
            BY <1>1, <2>1, <2>3, <3>1
        <3>2. CASE u = task_tail
            BY <1>1, <2>1, <2>6, <3>2, TaskAssumption
        <3>3. CASE u \in alive \ {task_tail}
            <4>1. next'[u] = next[u] /\ Follows(u, next[u])'
                BY <2>1, <2>4, <2>5, <3>3 DEF Follows
            <4>. QED BY <2>4, <3>3, <4>1
        <3>. QED BY <1>1, <2>7, <3>1, <3>2, <3>3
    <2>8. ASSUME NEW u \in alive'
          PROVE  IF prev'[u] = NULL THEN \A v \in alive' : ~Before(v, u)'
                                    ELSE prev'[u] \in alive' /\ Follows(prev[u], u)'
        <3>1. CASE u = t
            <4>1. prev'[u] \in alive /\ prev'[u] # NULL /\ prev'[u] = task_tail
                BY <1>1, <2>1, <3>1, TaskAssumption
            <4>. QED BY <1>1, <2>6, <3>1, <4>1
        <3>2. CASE u \in alive
            <4>1. IF prev[u] = NULL THEN \A v \in alive : ~Before(v, u)
                                    ELSE prev[u] \in alive /\ Follows(prev[u], u)
                BY <3>2 DEF IInv, ListMirrorsCreation
            <4>2. ~Before(t, u)'
                BY <1>1, <3>2 DEF Before
            <4>3. \A v \in alive : Before(v, u)' <=> Before(v, u)
                BY <1>1, <3>2 DEF Before
            <4>. QED BY <1>1, <2>1, <2>5, <3>2, <4>1, <4>2, <4>3
        <3>. QED BY <1>1, <2>8, <3>1, <3>2
    <2>. QED BY <1>1, <2>1, <2>2, <2>3, <2>7, <2>8 DEF ListMirrorsCreation
<1>. QED BY <1>2, <1>3

\* In the list, next and prev are inverse to each other.
LEMMA LinksAreInverse ==
    ASSUME IInv, NEW t \in alive, NEW u \in alive
    PROVE  /\ next[u] = t <=> prev[t] = u
           /\ next[t] # NULL => next[t] \in alive /\ next[t] # t
           /\ prev[t] # NULL => prev[t] \in alive /\ prev[t] # t
<1>0. NULL \notin alive /\ \A v \in alive : born[v] \in Nat
    BY TaskAssumption DEF IInv, TypeOK
<1>1. \A v \in alive : /\ IF next[v] = NULL THEN \A w \in alive : ~Before(v, w)
                                            ELSE Follows(v, next[v])
                       /\ IF prev[v] = NULL THEN \A w \in alive : ~Before(w, v)
                                            ELSE prev[v] \in alive /\ Follows(prev[v], v)
    BY DEF IInv, ListMirrorsCreation
<1>2. \A v, w \in alive : ~Before(v, w) /\ ~Before(w, v) => v = w
    BY <1>0 DEF IInv, Stamps, Before
<1>3. ASSUME next[u] = t PROVE prev[t] = u
    <2>1. Follows(u, t) /\ Before(u, t)
        BY <1>0, <1>1, <1>3 DEF Follows
    <2>2. prev[t] \in alive /\ Follows(prev[t], t)
        BY <1>1, <2>1
    <2>3. ~Before(u, prev[t]) /\ ~Before(prev[t], u)
        BY <2>1, <2>2 DEF Follows
    <2>. QED BY <1>2, <2>2, <2>3
<1>4. ASSUME prev[t] = u PROVE next[u] = t
    <2>1. Follows(u, t) /\ Before(u, t)
        BY <1>0, <1>1, <1>4 DEF Follows
    <2>2. next[u] \in alive /\ Follows(u, next[u])
        BY <1>1, <2>1 DEF Follows
    <2>3. ~Before(t, next[u]) /\ ~Before(next[u], t)
        BY <2>1, <2>2 DEF Follows
    <2>. QED BY <1>2, <2>2, <2>3
<1>5. \A v \in alive : ~Follows(v, v)
    BY <1>0 DEF Follows, Before
<1>. QED BY <1>1, <1>3, <1>4, <1>5 DEF Follows

\* Removing a task keeps the list in the order of creation.
LEMMA RemoveKeepsList ==
    ASSUME IInv, NEW t \in Tasks, Remove(t)
    PROVE  ListMirrorsCreation'
<1>1. /\ t \in alive /\ alive' = alive \ {t} /\ born' = born
      /\ \A u \in alive : u \in Tasks /\ born[u] \in Nat
      /\ NULL \notin alive
    BY TaskAssumption DEF IInv, TypeOK, Remove, task_free
<1>2. /\ next[t] # NULL => next[t] \in alive /\ Follows(t, next[t])
      /\ next[t] = NULL => \A u \in alive : ~Before(t, u)
      /\ prev[t] # NULL => prev[t] \in alive /\ Follows(prev[t], t)
      /\ prev[t] = NULL => \A u \in alive : ~Before(u, t)
    BY <1>1 DEF IInv, ListMirrorsCreation, Follows
<1>3. ASSUME NEW u \in alive'
      PROVE  /\ next'[u] = IF u = prev[t] THEN next[t] ELSE next[u]
             /\ prev'[u] = IF u = next[t] THEN prev[t] ELSE prev[u]
    BY <1>1, <1>3 DEF IInv, TypeOK, Remove, task_free, task_list_remove
<1>4. \A u, v \in Tasks : Before(u, v)' <=> Before(u, v)
    BY <1>1 DEF Before
<1>5. ASSUME NEW u \in alive', NEW v \in alive'
      PROVE  Follows(u, v) => Follows(u, v)'
    BY <1>1, <1>5 DEF Follows, Before
<1>6. ASSUME prev[t] # NULL, next[t] # NULL, NEW u, u = prev[t], NEW v, v = next[t]
      PROVE  Follows(u, v)' /\ u \in alive' /\ v \in alive'
    <2>1. u \in alive' /\ v \in alive' /\ Follows(u, t) /\ Follows(t, v)
        BY <1>1, <1>2, <1>6, LinksAreInverse
    <2>2. ASSUME NEW w \in alive', Before(u, w), Before(w, v)
          PROVE  FALSE
        <3>1. ~Before(w, t) /\ ~Before(t, w)
            BY <1>1, <2>1, <2>2 DEF Follows
        <3>. QED BY <1>1, <2>2, <3>1 DEF IInv, Stamps, Before
    <2>. QED BY <1>1, <2>1, <2>2 DEF Follows, Before
<1>7. ASSUME NEW u \in alive'
      PROVE  IF next'[u] = NULL THEN \A v \in alive' : ~Before(u, v)'
                                ELSE Follows(u, next[u])'
    <2>0. u \in alive /\ u # t
        BY <1>1, <1>7
    <2>1. CASE u = prev[t]
        <3>1. next'[u] = next[t] /\ prev[t] # NULL
            BY <1>1, <1>3, <2>0, <2>1
        <3>2. CASE next[t] = NULL
            <4>1. \A v \in alive' : ~Before(t, v) /\ Follows(u, t)
                BY <1>1, <1>2, <2>1, <3>1, <3>2
            <4>2. \A v \in alive' : ~Before(u, v)
                BY <1>1, <2>0, <4>1 DEF Follows, Before, IInv, Stamps
            <4>. QED BY <1>1, <1>4, <2>0, <3>1, <3>2, <4>2
        <3>3. CASE next[t] # NULL
            BY <1>6, <2>1, <3>1, <3>3
        <3>. QED BY <3>2, <3>3
    <2>2. CASE u # prev[t]
        <3>1. next'[u] = next[u] /\ next[u] # t
            BY <1>1, <1>3, <2>0, <2>2, LinksAreInverse
        <3>2. IF next[u] = NULL THEN \A v \in alive : ~Before(u, v)
                                ELSE Follows(u, next[u]) /\ next[u] \in alive'
            BY <1>1, <2>0, <3>1 DEF IInv, ListMirrorsCreation, Follows
        <3>. QED BY <1>1, <1>4, <1>5, <2>0, <3>1, <3>2
    <2>. QED BY <2>1, <2>2
<1>8. ASSUME NEW u \in alive'
      PROVE  IF prev'[u] = NULL THEN \A v \in alive' : ~Before(v, u)'
                                ELSE prev'[u] \in alive' /\ Follows(prev[u], u)'
    <2>0. u \in alive /\ u # t
        BY <1>1, <1>8
    <2>1. CASE u = next[t]
        <3>1. prev'[u] = prev[t] /\ next[t] # NULL
            BY <1>1, <1>3, <2>0, <2>1
        <3>2. CASE prev[t] = NULL
            <4>1. \A v \in alive' : ~Before(v, t) /\ Follows(t, u)
                BY <1>1, <1>2, <2>1, <3>1, <3>2
            <4>2. \A v \in alive' : ~Before(v, u)
                BY <1>1, <2>0, <4>1 DEF Follows, Before, IInv, Stamps
            <4>. QED BY <1>1, <1>4, <2>0, <3>1, <3>2, <4>2
        <3>3. CASE prev[t] # NULL
            BY <1>6, <2>1, <3>1, <3>3
        <3>. QED BY <3>2, <3>3
    <2>2. CASE u # next[t]
        <3>1. prev'[u] = prev[u] /\ prev[u] # t
            BY <1>1, <1>3, <2>0, <2>2, LinksAreInverse
        <3>2. IF prev[u] = NULL THEN \A v \in alive : ~Before(v, u)
                                ELSE prev[u] \in alive' /\ Follows(prev[u], u)
            BY <1>1, <2>0, <3>1 DEF IInv, ListMirrorsCreation
        <3>. QED BY <1>1, <1>4, <1>5, <1>8, <2>0, <3>1, <3>2
    <2>. QED BY <2>1, <2>2
<1>9. IF alive' = {}
      THEN task_head' = NULL /\ task_tail' = NULL
      ELSE /\ task_head' \in alive' /\ \A u \in alive' : ~Before(u, task_head)'
           /\ task_tail' \in alive' /\ \A u \in alive' : ~Before(task_tail, u)'
    <2>1. /\ task_head' = IF t = task_head THEN next[t] ELSE task_head
          /\ task_tail' = IF t = task_tail THEN prev[t] ELSE task_tail
        BY DEF Remove, task_free, task_list_remove
    <2>2. /\ task_head \in alive /\ \A u \in alive : ~Before(u, task_head)
          /\ task_tail \in alive /\ \A u \in alive : ~Before(task_tail, u)
        BY <1>1 DEF IInv, ListMirrorsCreation
    <2>3. CASE alive' = {}
        <3>1. alive = {t} /\ t = task_head /\ t = task_tail
            BY <1>1, <2>2, <2>3
        <3>2. next[t] = NULL /\ prev[t] = NULL
            BY <1>1, <3>1, LinksAreInverse
        <3>. QED BY <2>1, <2>3, <3>1, <3>2
    <2>4. ASSUME NEW w \in alive'
          PROVE  task_head' \in alive' /\ \A u \in alive' : ~(born[u] < born[task_head'])
        <3>1. CASE t = task_head
            <4>1. born[t] < born[w]
                BY <1>1, <2>2, <2>4, <3>1 DEF IInv, Stamps, Before
            <4>2. next[t] # NULL /\ next[t] \in alive' /\ Follows(t, next[t])
                BY <1>1, <1>2, <2>4, <4>1, LinksAreInverse DEF Before
            <4>3. \A u \in alive' : born[t] < born[u]
                BY <1>1, <2>2, <3>1 DEF IInv, Stamps, Before
            <4>. QED BY <1>1, <2>1, <3>1, <4>2, <4>3 DEF Follows, Before
        <3>2. CASE t # task_head
            BY <1>1, <2>1, <2>2, <3>2 DEF Before
        <3>. QED BY <3>1, <3>2
    <2>5. ASSUME NEW w \in alive'
          PROVE  task_tail' \in alive' /\ \A u \in alive' : ~(born[task_tail'] < born[u])
        <3>1. CASE t = task_tail
            <4>1. born[w] < born[t]
                BY <1>1, <2>2, <2>5, <3>1 DEF IInv, Stamps, Before
            <4>2. prev[t] # NULL /\ prev[t] \in alive' /\ Follows(prev[t], t)
                BY <1>1, <1>2, <2>5, <4>1, LinksAreInverse DEF Before
            <4>3. \A u \in alive' : born[u] < born[t]
                BY <1>1, <2>2, <3>1 DEF IInv, Stamps, Before
            <4>. QED BY <1>1, <2>1, <3>1, <4>2, <4>3 DEF Follows, Before
        <3>2. CASE t # task_tail
            BY <1>1, <2>1, <2>2, <3>2 DEF Before
        <3>. QED BY <3>1, <3>2
    <2>. QED BY <1>1, <2>3, <2>4, <2>5 DEF Before
<1>. QED BY <1>7, <1>8, <1>9 DEF ListMirrorsCreation

-----------------------------------------------------------------------------
\* task_new preserves the invariant.
LEMMA NewIInv ==
    ASSUME IInv, TypeOK', NEW t \in Tasks, Create(t)
    PROVE  IInv'
<1>1. ListMirrorsCreation'
    BY NewKeepsList
<1>2. Stamps'
    BY DEF IInv, TypeOK, Stamps, Create, task_new
<1>3. CurrentIsLive'
    BY TaskAssumption DEF IInv, CurrentIsLive, ListMirrorsCreation, Create, task_new
<1>4. RunsInOwnSpace' /\ (mode # "user" => current_directory = Kernel)'
    BY DEF IInv, RunsInOwnSpace, Create, task_new
<1>5. ContextIsOwn'
    BY DEF IInv, TypeOK, ContextIsOwn, Create, task_new
<1>. QED BY <1>1, <1>2, <1>3, <1>4, <1>5 DEF IInv

\* task_free preserves the invariant.
LEMMA FreeIInv ==
    ASSUME IInv, TypeOK', NEW t \in Tasks, Remove(t)
    PROVE  IInv'
<1>1. ListMirrorsCreation'
    BY RemoveKeepsList
<1>2. Stamps'
    BY DEF IInv, Stamps, Remove, task_free
<1>3. CurrentIsLive'
    <2>1. t \in alive /\ alive' = alive \ {t} /\ current_task \in alive /\ NULL \notin alive
        BY TaskAssumption DEF IInv, TypeOK, CurrentIsLive, Remove, task_free
    <2>2. CASE t # current_task
        BY <2>1, <2>2 DEF CurrentIsLive, Remove, task_free, task_list_remove
    <2>3. CASE t = current_task
        <3>1. next'[t] = next[t]
            BY <2>1, LinksAreInverse DEF IInv, TypeOK, Remove, task_free, task_list_remove
        <3>2. current_task' = IF next[t] = NULL THEN task_head' ELSE next[t]
            BY <2>3, <3>1 DEF Remove, task_free, task_list_remove, GetNext
        <3>3. next[t] # NULL => next[t] \in alive'
            BY <2>1, LinksAreInverse
        <3>4. IF alive' = {} THEN task_head' = NULL ELSE task_head' \in alive'
            BY <1>1 DEF ListMirrorsCreation
        <3>. QED BY <3>2, <3>3, <3>4 DEF CurrentIsLive
    <2>. QED BY <2>2, <2>3
<1>4. RunsInOwnSpace' /\ (mode # "user" => current_directory = Kernel)'
    BY DEF IInv, RunsInOwnSpace, Remove, task_free
<1>5. ContextIsOwn'
    BY DEF IInv, ContextIsOwn, Remove, task_free
<1>. QED BY <1>1, <1>2, <1>3, <1>4, <1>5 DEF IInv

\* Switching to a live task and returning to user land preserves it.
LEMMA SwitchIInv ==
    ASSUME IInv, TypeOK', NEW t \in alive, task_switch(t), task_return(t), UNCHANGED <<links, registers>>
    PROVE  IInv'
<1>1. ListMirrorsCreation' /\ Stamps' /\ ContextIsOwn'
    BY DEF IInv, ListMirrorsCreation, Follows, Before, Stamps, ContextIsOwn, links
<1>2. CurrentIsLive'
    BY DEF CurrentIsLive, task_switch, links
<1>3. cpu'.task = t
    BY TaskAssumption DEF IInv, TypeOK, ContextIsOwn, task_return
<1>4. RunsInOwnSpace' /\ mode' = "user"
    BY <1>3 DEF RunsInOwnSpace, task_switch, task_return, links
<1>. QED BY <1>1, <1>2, <1>4 DEF IInv

\* Every function preserves the invariant.
LEMMA StepIInv == IInv /\ [Next]_vars => IInv'
<1>. SUFFICES ASSUME IInv, [Next]_vars PROVE IInv'
    OBVIOUS
<1>1. TypeOK'
    BY TypeCorrectStep
<1>2. ASSUME UNCHANGED <<links, current_task>>
      PROVE  ListMirrorsCreation' /\ Stamps' /\ CurrentIsLive'
    BY <1>2 DEF IInv, ListMirrorsCreation, Follows, Before, Stamps, CurrentIsLive, links
<1>3. ASSUME Panic, mode = "kernel" PROVE IInv'
    <2>1. ContextIsOwn' /\ RunsInOwnSpace'
        BY <1>3 DEF IInv, ContextIsOwn, RunsInOwnSpace, Panic, links
    <2>. QED BY <1>1, <1>2, <1>3, <2>1 DEF IInv, Panic
<1>4. CASE Reschedule
    <2>1. GetNext(current_task, next, task_head) \in alive
        BY <1>4, NextIsLive DEF Reschedule
    <2>. QED BY <1>1, <1>3, <1>4, <2>1, SwitchIInv DEF Reschedule, task_next
<1>5. CASE RunFirst
    BY <1>1, <1>3, <1>5, NextIsLive, SwitchIInv DEF RunFirst, task_run_first_ever_task
<1>6. CASE Trap
    <2>1. ContextIsOwn' /\ mode' # "user"
        BY <1>6 DEF IInv, TypeOK, ContextIsOwn, RunsInOwnSpace, Trap, task_current_save_stat, links
    <2>2. RunsInOwnSpace' /\ current_directory' = Kernel
        BY <1>6, <2>1 DEF RunsInOwnSpace, Trap
    <2>. QED BY <1>1, <1>2, <1>6, <2>1, <2>2 DEF IInv, Trap
<1>7. CASE Resume
    <2>0. current_task' = current_task
        BY <1>7 DEF Resume, task_page, task_switch
    <2>1. ContextIsOwn'
        BY <1>7 DEF IInv, ContextIsOwn, Resume, links
    <2>2. RunsInOwnSpace' /\ mode' = "user"
        BY <1>7, NextIsLive DEF RunsInOwnSpace, Resume, task_page, task_switch, links
    <2>. QED BY <1>1, <1>2, <1>7, <2>0, <2>1, <2>2 DEF IInv, Resume
<1>8. CASE UserStep
    <2>1. ContextIsOwn'
        BY <1>8 DEF IInv, ContextIsOwn, UserStep, links
    <2>2. cpu'.task = cpu.task
        BY <1>8 DEF IInv, TypeOK, Context, UserStep
    <2>3. RunsInOwnSpace' /\ mode' = "user"
        BY <1>8, <2>2 DEF IInv, RunsInOwnSpace, UserStep, links
    <2>. QED BY <1>1, <1>2, <1>8, <2>1, <2>3 DEF IInv, UserStep
<1>9. CASE UNCHANGED vars
    <2>1. ContextIsOwn' /\ RunsInOwnSpace'
        BY <1>9 DEF IInv, ContextIsOwn, RunsInOwnSpace, vars, links
    <2>. QED BY <1>1, <1>2, <1>9, <2>1 DEF IInv, vars
<1>. QED BY <1>1, <1>4, <1>5, <1>6, <1>7, <1>8, <1>9, NewIInv, FreeIInv DEF Next

\* The inductive invariant holds in every reachable state.
THEOREM InvariantHolds == Spec => []IInv
BY InitIInv, StepIInv, PTL DEF Spec

\* The types of task.c's state, for any number of tasks.
THEOREM TypeCorrect == Spec => []TypeOK
<1>1. IInv => TypeOK
    BY DEF IInv
<1>. QED BY <1>1, InvariantHolds, PTL

\* For any number of tasks and any order of task_new and task_free, the list
\* holds exactly the live tasks, doubly linked in the order of creation.
THEOREM ListAlwaysMirrorsCreation == Spec => []ListMirrorsCreation
<1>1. IInv => ListMirrorsCreation
    BY DEF IInv
<1>. QED BY <1>1, InvariantHolds, PTL

\* For any number of tasks, every switch is to a live task, in its own address
\* space and with its own registers; no freed page directory is ever loaded.
THEOREM SwitchAlwaysSafe == Spec => []SwitchSafe
<1>1. IInv => SwitchSafe
    BY DEF IInv, SwitchSafe
<1>. QED BY <1>1, InvariantHolds, PTL

-----------------------------------------------------------------------------
(***************************************************************************)
(* Round robin.  The tasks that had their turn while t waits lie between t *)
(* and the current task, going round the list in the order of creation.    *)
(***************************************************************************)
Between(t, u) ==
    IF born[t] < born[current_task]
    THEN born[t] < born[u] /\ born[u] <= born[current_task]
    ELSE born[t] # born[current_task] /\ (born[t] < born[u] \/ born[u] <= born[current_task])

RoundInv ==
    /\ served \in [Tasks -> SUBSET Tasks]
    /\ \A t \in alive : \A u \in served[t] : u \in alive /\ u # t /\ Between(t, u)

\* What task_get_next finds after c among the tasks S: the next one created,
\* or the first one if c is the last.
After(c, n, S) ==
    \/ /\ born[c] < born[n]
       /\ \A v \in S : ~(born[c] < born[v] /\ born[v] < born[n])
    \/ \A v \in S : born[v] <= born[c] /\ born[n] <= born[v]

LEMMA NextIsAfter ==
    ASSUME IInv, current_task # NULL
    PROVE  After(current_task, GetNext(current_task, next, task_head), alive)
<1>1. current_task \in alive /\ \A v \in alive : born[v] \in Nat
    BY NextIsLive DEF IInv, TypeOK
<1>2. CASE next[current_task] = NULL
    <2>1. \A v \in alive : ~(born[current_task] < born[v]) /\ ~(born[v] < born[task_head])
        BY <1>1, <1>2 DEF IInv, ListMirrorsCreation, Before
    <2>2. task_head \in alive
        BY NextIsLive
    <2>. QED BY <1>1, <1>2, <2>1, <2>2 DEF GetNext, After
<1>3. CASE next[current_task] # NULL
    BY <1>1, <1>3 DEF IInv, ListMirrorsCreation, Follows, Before, GetNext, After
<1>. QED BY <1>2, <1>3

\* Going on to the next task: nobody who had a turn while t waits is it, and
\* all of them lie between t and it.
LEMMA NextWasNotServed ==
    ASSUME IInv, RoundInv, current_task \in alive, NEW n \in alive,
           After(current_task, n, alive),
           NEW t \in alive \ {n}
    PROVE  /\ n \notin served[t]
           /\ born[t] # born[n]
           /\ \A u \in served[t] \cup {n} :
                 IF born[t] < born[n] THEN born[t] < born[u] /\ born[u] <= born[n]
                                      ELSE born[t] < born[u] \/ born[u] <= born[n]
<1>1. /\ \A v \in alive : born[v] \in Nat
      /\ \A v, w \in alive : born[v] = born[w] => v = w
    BY DEF IInv, TypeOK, Stamps
<1>2. \A u \in served[t] : u \in alive /\ u # t /\ Between(t, u)
    BY DEF RoundInv
<1>. QED BY <1>1, <1>2 DEF Between, After

\* A new task comes last and waits from now on.
LEMMA CreateRound ==
    ASSUME IInv, RoundInv, NEW t \in Tasks, Create(t), served' = [served EXCEPT ![t] = {}]
    PROVE  RoundInv'
<1>1. /\ t \notin alive /\ alive' = alive \cup {t} /\ alive \subseteq Tasks
      /\ born' = [born EXCEPT ![t] = created] /\ born \in [Tasks -> Nat]
      /\ served'[t] = {} /\ \A u \in alive : served'[u] = served[u]
    BY DEF IInv, TypeOK, RoundInv, Create, task_new
<1>2. ASSUME NEW u \in alive PROVE current_task' = current_task /\ current_task \in alive
    <2>1. task_head # NULL /\ current_task \in alive
        BY <1>1, TaskAssumption DEF IInv, CurrentIsLive, ListMirrorsCreation
    <2>. QED BY <2>1 DEF Create, task_new
<1>3. ASSUME NEW u \in alive, NEW v \in served[u]
      PROVE  v \in alive' /\ v # u /\ Between(u, v)'
    <2>1. v \in alive /\ v # u /\ Between(u, v)
        BY <1>3 DEF RoundInv
    <2>2. born'[u] = born[u] /\ born'[v] = born[v] /\ born'[current_task] = born[current_task]
        BY <1>1, <1>2, <2>1
    <2>. QED BY <1>1, <1>2, <2>1, <2>2 DEF Between
<1>4. served' \in [Tasks -> SUBSET Tasks]
    BY DEF RoundInv
<1>. QED BY <1>1, <1>3, <1>4 DEF RoundInv

\* A freed task is nobody's turn; if it was the current one, its successor has
\* had its turn.
LEMMA RemoveRound ==
    ASSUME IInv, RoundInv, NEW t \in Tasks, Remove(t), Forget(t)
    PROVE  RoundInv'
<1>1. /\ t \in alive /\ alive' = alive \ {t} /\ alive \subseteq Tasks /\ born' = born
      /\ current_task \in alive /\ NULL \notin alive
    BY TaskAssumption DEF IInv, TypeOK, CurrentIsLive, Remove, task_free
<1>2. served' \in [Tasks -> SUBSET Tasks]
    BY DEF RoundInv, Forget
<1>3. CASE t # current_task
    <2>1. current_task' = current_task /\ \A u \in alive' : served'[u] = served[u] \ {t}
        BY <1>1, <1>3 DEF Remove, task_free, task_list_remove, Forget
    <2>2. \A u \in alive' : \A v \in served'[u] : v \in alive' /\ v # u /\ Between(u, v)'
        BY <1>1, <2>1 DEF RoundInv, Between
    <2>. QED BY <1>2, <2>2 DEF RoundInv
<1>4. CASE t = current_task
    <2>1. ASSUME NEW u \in alive'
          PROVE  /\ current_task' = GetNext(t, next, task_head) /\ current_task' \in alive
                 /\ After(t, current_task', alive)
        <3>1. next'[t] = next[t]
            BY <1>1, LinksAreInverse DEF IInv, TypeOK, Remove, task_free, task_list_remove
        <3>2. current_task' = IF next[t] = NULL THEN task_head' ELSE next[t]
            BY <1>4, <3>1 DEF Remove, task_free, task_list_remove, GetNext
        <3>3. next[t] = NULL => t # task_head
            BY <1>1, <2>1 DEF IInv, TypeOK, Stamps, ListMirrorsCreation, Before
        <3>4. current_task' = GetNext(t, next, task_head)
            BY <3>2, <3>3 DEF Remove, task_free, task_list_remove, GetNext
        <3>. QED BY <1>1, <1>4, <3>4, NextIsAfter, NextIsLive
    <2>2. ASSUME NEW u \in alive', NEW v \in served'[u]
          PROVE  v \in alive' /\ v # u /\ Between(u, v)'
        <3>1. u # current_task' /\ served'[u] = served[u] \ {t} /\ u \in alive
            BY <1>1, <1>4, <2>2 DEF Forget
        <3>2. v \in served[u] /\ v # t /\ v \in alive /\ v # u
            BY <2>2, <3>1 DEF RoundInv
        <3>3. /\ born[u] # born[current_task']
              /\ IF born[u] < born[current_task']
                 THEN born[u] < born[v] /\ born[v] <= born[current_task']
                 ELSE born[u] < born[v] \/ born[v] <= born[current_task']
            BY <1>1, <1>4, <2>1, <3>1, <3>2, NextWasNotServed
        <3>. QED BY <1>1, <3>2, <3>3 DEF Between
    <2>. QED BY <1>2, <2>2 DEF RoundInv
<1>. QED BY <1>3, <1>4

\* A turn goes to a task that nobody has seen having one.
LEMMA TurnRound ==
    ASSUME IInv, RoundInv, Reschedule
    PROVE  /\ current_task' \in alive
           /\ \A t \in alive \ {current_task'} : current_task' \notin served[t]
           /\ Turn(current_task') => RoundInv'
<1>1. PICK n \in alive : n = GetNext(current_task, next, task_head)
    BY NextIsLive DEF Reschedule
<1>2. /\ current_task' = n /\ After(current_task, n, alive) /\ current_task \in alive
      /\ alive' = alive /\ born' = born /\ alive \subseteq Tasks
    BY <1>1, NextIsAfter, NextIsLive, TaskAssumption
    DEF IInv, TypeOK, Reschedule, task_next, task_switch, links
<1>3. \A t \in alive \ {n} :
         /\ n \notin served[t] /\ born[t] # born[n]
         /\ \A u \in served[t] \cup {n} :
               IF born[t] < born[n] THEN born[t] < born[u] /\ born[u] <= born[n]
                                    ELSE born[t] < born[u] \/ born[u] <= born[n]
    BY <1>2, NextWasNotServed
<1>4. ASSUME Turn(n) PROVE RoundInv'
    <2>1. served' \in [Tasks -> SUBSET Tasks]
        BY <1>2, <1>4 DEF RoundInv, Turn
    <2>2. ASSUME NEW t \in alive', NEW u \in served'[t]
          PROVE  u \in alive' /\ u # t /\ Between(t, u)'
        <3>1. t \in alive \ {n} /\ u \in served[t] \cup {n}
            BY <1>2, <1>4, <2>2 DEF Turn
        <3>2. u \in alive /\ u # t
            BY <3>1 DEF RoundInv
        <3>. QED BY <1>2, <1>3, <3>1, <3>2 DEF Between
    <2>. QED BY <2>1, <2>2 DEF RoundInv
<1>. QED BY <1>2, <1>3, <1>4

LEMMA StepRound == IInv /\ RoundInv /\ [RoundNext]_roundVars => RoundInv'
<1>. SUFFICES ASSUME IInv, RoundInv, [RoundNext]_roundVars PROVE RoundInv'
    OBVIOUS
<1>1. CASE UNCHANGED <<alive, born, current_task, served>>
    BY <1>1 DEF RoundInv, Between
<1>2. CASE RunFirst /\ served' = [t \in Tasks |-> {}]
    BY <1>2 DEF RunFirst, task_run_first_ever_task, Panic, RoundInv, links, IInv, TypeOK
<1>3. CASE (Trap \/ Resume \/ UserStep) /\ UNCHANGED served
    BY <1>1, <1>3 DEF Trap, Resume, UserStep, task_page, task_switch, links
<1>4. CASE UNCHANGED roundVars
    BY <1>1, <1>4 DEF roundVars, vars, links
<1>. QED BY <1>2, <1>3, <1>4, CreateRound, RemoveRound, TurnRound DEF RoundNext

\* The round-robin invariant holds in every reachable state.
LEMMA RoundHolds == RoundSpec => [](IInv /\ RoundInv)
<1>1. RoundInit => IInv /\ RoundInv
    BY InitIInv DEF RoundInit, RoundInv, Init
<1>2. [RoundNext]_roundVars => [Next]_vars
    BY DEF RoundNext, Next, roundVars
<1>. QED BY <1>1, <1>2, StepIInv, StepRound, PTL DEF RoundSpec

\* Round robin for any number of tasks, however many are created and freed
\* meanwhile: nobody gets the processor twice while another task waits.
THEOREM NobodyEverOvertakenTwice == RoundSpec => NobodyIsOvertakenTwice
<1>1. IInv /\ RoundInv /\ [RoundNext]_roundVars =>
        [Reschedule => \A t \in alive \ {current_task'} : current_task' \notin served[t]]_roundVars
    BY TurnRound
<1>. QED BY <1>1, RoundHolds, PTL DEF RoundSpec, NobodyIsOvertakenTwice
=============================================================================

------------------------------ MODULE TaskList ------------------------------
(***************************************************************************)
(* The task list and the round-robin switch (task/task.c, task/task.asm):  *)
(* task_new, task_free, task_next, task_run_first_ever_task, the saving of *)
(* a task's registers and the page directory that is loaded meanwhile.     *)
(*                                                                         *)
(* A task is named by its struct; a struct that was freed may be used      *)
(* again.  Its page directory is allocated and freed with it, so it goes   *)
(* by the task's name too.                                                 *)
(*                                                                         *)
(* The functions of task.c check little.  What they leave to their caller  *)
(* is written where they are called: Next gives task_new a struct that is  *)
(* free and task_free one that is not, and the trap handler (Trap,         *)
(* Reschedule, Resume), which task.h foresees and the repository does not  *)
(* have, calls them only while there is a current task.                    *)
(***************************************************************************)
EXTENDS Integers

CONSTANTS
    Tasks,          \* the task structs that kzalloc may return
    NULL,
    Kernel,         \* names the kernel's page directory (kernel_chunk)
    Flags,          \* the values of EFLAGS told apart
    MaxCreated      \* bound on the calls of task_new

ASSUME TaskAssumption ==
    /\ NULL \notin Tasks /\ Kernel \notin Tasks /\ Kernel # NULL
    /\ 0 \in Flags
    /\ MaxCreated \in Nat

VARIABLES
    alive,          \* task structs that are allocated
    next, prev,     \* the links; those of a freed struct keep their values
    task_head, task_tail, current_task,
    registers,      \* registers[t]: the context saved in the struct of t
    cpu,            \* the context that user land runs, or that a trap interrupted
    mode,           \* "kernel" or "user"; "panic" once the kernel has given up
    current_directory,  \* the page directory that is loaded
    started,        \* task_run_first_ever_task has been called
    born, created   \* when each task was created (only for the properties)

links == <<alive, next, prev, task_head, task_tail, born, created>>
vars == <<links, current_task, registers, cpu, mode, current_directory,
          started>>

\* A context is told apart by whose instruction stream it continues.
Context(S) == [task : S, flags : Flags]

-----------------------------------------------------------------------------
Init ==
    /\ alive = {} /\ born = [t \in Tasks |-> 0] /\ created = 0
    /\ next = [t \in Tasks |-> NULL]
    /\ prev = [t \in Tasks |-> NULL]
    /\ task_head = NULL /\ task_tail = NULL /\ current_task = NULL
    /\ registers = [t \in Tasks |-> [task |-> t, flags |-> 0]]
    /\ cpu = [task |-> NULL, flags |-> 0]
    /\ mode = "kernel"
    /\ current_directory = Kernel
    /\ started = FALSE

(***************************************************************************)
(* task_new: task_init clears the struct and sets the entry point, then    *)
(* the task is appended.  The first task also becomes the current one.     *)
(***************************************************************************)
task_new(t) ==
    /\ created < MaxCreated
    /\ alive' = alive \cup {t}
    /\ registers' = [registers EXCEPT ![t] = [task |-> t, flags |-> 0]]
    /\ task_tail' = t
    /\ born' = [born EXCEPT ![t] = created] /\ created' = created + 1
    /\ \/ /\ task_head = NULL
          /\ task_head' = t
          /\ current_task' = t
          /\ next' = [next EXCEPT ![t] = NULL]
          /\ prev' = [prev EXCEPT ![t] = NULL]
       \/ /\ task_head # NULL
          /\ next' = [next EXCEPT ![t] = NULL, ![task_tail] = t]
          /\ prev' = [prev EXCEPT ![t] = task_tail]
          /\ UNCHANGED <<task_head, current_task>>
    /\ UNCHANGED <<cpu, mode, current_directory, started>>

\* Mutant: always starts over from the head.
GetNextHead(cur, nxt, head) == head

\* task_get_next, on given values of the list's variables
GetNext(cur, nxt, head) == IF nxt[cur] = NULL THEN head ELSE nxt[cur]

\* Mutant: the successor keeps its link to the removed task.
RemoveKeepsBackLink(t) ==
    /\ next' = IF prev[t] # NULL THEN [next EXCEPT ![prev[t]] = next[t]] ELSE next
    /\ UNCHANGED prev
    /\ task_head' = IF t = task_head THEN next[t] ELSE task_head
    /\ task_tail' = IF t = task_tail THEN prev[t] ELSE task_tail
    /\ current_task' = IF t = current_task
                       THEN GetNext(t, next', task_head')
                       ELSE current_task

\* Mutant: current_task is advanced before task_head is.
RemoveAdvancesEarly(t) ==
    /\ next' = IF prev[t] # NULL THEN [next EXCEPT ![prev[t]] = next[t]] ELSE next
    /\ prev' = IF next[t] # NULL THEN [prev EXCEPT ![next[t]] = prev[t]] ELSE prev
    /\ task_head' = IF t = task_head THEN next[t] ELSE task_head
    /\ task_tail' = IF t = task_tail THEN prev[t] ELSE task_tail
    /\ current_task' = IF t = current_task
                       THEN GetNext(t, next, task_head)
                       ELSE current_task

\* task_list_remove; the removed task's own links are left as they are.
task_list_remove(t) ==
    /\ next' = IF prev[t] # NULL THEN [next EXCEPT ![prev[t]] = next[t]] ELSE next
    /\ prev' = IF next[t] # NULL THEN [prev EXCEPT ![next[t]] = prev[t]] ELSE prev
    /\ task_head' = IF t = task_head THEN next[t] ELSE task_head
    /\ task_tail' = IF t = task_tail THEN prev[t] ELSE task_tail
    /\ current_task' = IF t = current_task
                       THEN GetNext(t, next', task_head')
                       ELSE current_task

\* task_free: the page directory is freed first, whether loaded or not.  An
\* interrupted context of the task is nobody's from now on.
task_free(t) ==
    /\ alive' = alive \ {t}
    /\ task_list_remove(t)
    /\ cpu' = [cpu EXCEPT !.task = IF cpu.task = t THEN NULL ELSE @]
    /\ UNCHANGED <<registers, mode, current_directory, started, born, created>>

Panic ==
    /\ mode' = "panic"
    /\ UNCHANGED <<links, current_task, registers, cpu, current_directory, started>>

\* task_switch reads the directory out of the struct without a check: through
\* NULL it loads one that is no task's.
task_switch(t) ==
    /\ current_task' = t
    /\ current_directory' = t

\* task_return: the saved registers are restored, except for the flags, which
\* it takes from the kernel (pushf).
task_return(t) ==
    /\ \E flags \in Flags :
          cpu' = [task |-> IF t = NULL THEN NULL ELSE registers[t].task,
                  flags |-> flags]
    /\ mode' = "user"

\* Called with a current task, whose link it follows.
task_next ==
    LET next_task == GetNext(current_task, next, task_head)
    IN  IF next_task = NULL
        THEN Panic
        ELSE /\ task_switch(next_task) /\ task_return(next_task)
             /\ UNCHANGED <<links, registers, started>>

\* Mutant: the current task is not checked.
RunFirstUnchecked ==
    /\ ~started /\ started' = TRUE
    /\ task_switch(task_head) /\ task_return(task_head)
    /\ UNCHANGED <<links, registers>>

task_run_first_ever_task ==
    /\ ~started
    /\ IF current_task = NULL
       THEN Panic
       ELSE /\ started' = TRUE
            /\ task_switch(task_head) /\ task_return(task_head)
            /\ UNCHANGED <<links, registers>>

\* Mutant: the context is saved in the first task, not in the current one.
SaveInHead ==
    IF current_task = NULL
    THEN mode' = "panic" /\ UNCHANGED registers
    ELSE /\ registers' = [registers EXCEPT ![task_head] = cpu]
         /\ mode' = "kernel"

\* task_current_save_stat: the interrupted context goes to the current task.
task_current_save_stat ==
    IF current_task = NULL
    THEN mode' = "panic" /\ UNCHANGED registers
    ELSE /\ registers' = [registers EXCEPT ![current_task] = cpu]
         /\ mode' = "kernel"

\* task_page: the current task's pages, whatever the kernel has done.
task_page == task_switch(current_task)

-----------------------------------------------------------------------------
(***************************************************************************)
(* The trap handler (external).                                            *)
(***************************************************************************)

\* A trap from user land: kernel_page, then task_current_save_stat.
Trap ==
    /\ mode = "user"
    /\ current_directory' = Kernel
    /\ task_current_save_stat
    /\ UNCHANGED <<links, current_task, cpu, started>>

\* It gives the processor to the next task, if there is any task left.
Reschedule ==
    /\ mode = "kernel" /\ current_task # NULL
    /\ task_next

\* Or it goes back to the task that it interrupted, if that is still the
\* current one: task_page, then iret.
Resume ==
    /\ mode = "kernel" /\ current_task # NULL /\ cpu.task = current_task
    /\ task_page
    /\ mode' = "user"
    /\ UNCHANGED <<links, registers, cpu, started>>

\* The instructions of the running task change its flags (external).
UserStep ==
    /\ mode = "user"
    /\ \E flags \in Flags : cpu' = [cpu EXCEPT !.flags = flags]
    /\ UNCHANGED <<links, current_task, registers, mode, current_directory, started>>

\* What the kernel may call between two traps, and on which structs.
Create(t) == mode = "kernel" /\ t \notin alive /\ task_new(t)
Remove(t) == mode = "kernel" /\ t \in alive /\ task_free(t)
RunFirst == mode = "kernel" /\ task_run_first_ever_task

Next ==
    \/ \E t \in Tasks : Create(t) \/ Remove(t)
    \/ RunFirst \/ Reschedule \/ Trap \/ Resume \/ UserStep

Spec == Init /\ [][Next]_vars

-----------------------------------------------------------------------------
\* The type invariant: every link and every pointer is a task or NULL.
TypeOK ==
    /\ alive \in SUBSET Tasks
    /\ next \in [Tasks -> Tasks \cup {NULL}]
    /\ prev \in [Tasks -> Tasks \cup {NULL}]
    /\ {task_head, task_tail, current_task} \subseteq Tasks \cup {NULL}
    /\ registers \in [Tasks -> Context(Tasks)]
    /\ cpu \in Context(Tasks \cup {NULL})
    /\ mode \in {"kernel", "user", "panic"}
    /\ current_directory \in Tasks \cup {Kernel}
    /\ started \in BOOLEAN
    /\ born \in [Tasks -> Nat] /\ created \in Nat

Before(t, u) == born[t] < born[u]

\* u is the task created next after t, among those that are left.
Follows(t, u) ==
    /\ u \in alive /\ Before(t, u)
    /\ \A v \in alive : ~(Before(t, v) /\ Before(v, u))

(***************************************************************************)
(* The doubly linked list holds exactly the live tasks, in the order of    *)
(* their creation, whichever tasks were removed in between: no freed task  *)
(* is reachable from the head, the tail or a link of a live task.          *)
(***************************************************************************)
ListMirrorsCreation ==
    /\ \A t \in alive :
          /\ IF next[t] = NULL THEN \A u \in alive : ~Before(t, u)
                               ELSE Follows(t, next[t])
          /\ IF prev[t] = NULL THEN \A u \in alive : ~Before(u, t)
                               ELSE prev[t] \in alive /\ Follows(prev[t], t)
    /\ IF alive = {}
       THEN task_head = NULL /\ task_tail = NULL
       ELSE /\ task_head \in alive /\ \A u \in alive : ~Before(u, task_head)
            /\ task_tail \in alive /\ \A u \in alive : ~Before(task_tail, u)

\* There is a current task exactly as long as there is a task: task_next can
\* follow the pointer, and the first task created later becomes current.
CurrentIsLive ==
    IF alive = {} THEN current_task = NULL ELSE current_task \in alive

\* User land always runs the current task, in its own address space, and the
\* directory that is loaded is never one that was freed.
RunsInOwnSpace ==
    /\ current_directory \in alive \cup {Kernel}
    /\ mode = "user" => /\ cpu.task = current_task
                        /\ current_directory = current_task

\* A task's saved registers are never those of another task.
ContextIsOwn == \A t \in alive : registers[t].task = t

(***************************************************************************)
(* A switch is safe: the task that is switched to exists, it is the one    *)
(* that then runs, in its own address space, with its own registers.       *)
(***************************************************************************)
SwitchSafe == CurrentIsLive /\ RunsInOwnSpace /\ ContextIsOwn

\* README.md: the task continues "as if nothing happened" when its registers
\* are swapped back.  task_return does not restore the flags.
FlagsRestored ==
    [][mode = "kernel" /\ mode' = "user" => cpu' = registers[current_task']]_vars
=============================================================================

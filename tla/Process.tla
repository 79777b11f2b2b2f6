------------------------------ MODULE Process -------------------------------
(***************************************************************************)
(* Processes (task/process.c) over the task list (module TaskList), the    *)
(* heap and the processes' page directories: loading a program in its      *)
(* stages, each of which may fail, terminating it, and the memory a        *)
(* process gets with process_malloc and gives back with process_free.      *)
(*                                                                         *)
(* A process is named by its struct, which is never freed, so a name is    *)
(* used once.  Its task goes by the same name.  The heap is reduced to     *)
(* what this module needs of it: which kinds of objects were allocated for *)
(* a process (objs) and which of the addresses Addrs are taken.  kzalloc   *)
(* may fail at any call, except inside task_new, where the code does not   *)
(* survive it.                                                             *)
(***************************************************************************)
EXTENDS Integers, FiniteSets, Sequences, FiniteSetsExt

CONSTANTS
    Procs,          \* process structs
    NULL, Kernel,
    MaxProcesses,   \* RAOS_MAX_PROCESSES (12)
    MaxAllocations, \* RAOS_MAX_PROGRAM_ALLOCATIONS (1024)
    Addrs,          \* the heap addresses that process_malloc may get
    Pages,          \* the sizes of its requests, in pages
    MaxArgs         \* bound on the arguments of process_inject_arguments

\* The heap objects of a process.
Kinds == {"process", "elf", "program", "stack", "task"}

ASSUME ProcessAssumption ==
    /\ IsFiniteSet(Procs) /\ NULL \notin Procs \cup Addrs
    /\ Kernel \notin Procs /\ Kernel # NULL
    /\ Addrs \cap Kinds = {}
    /\ {MaxProcesses, MaxAllocations, MaxArgs} \subseteq Nat /\ Pages \subseteq Nat

VARIABLES
    processes,      \* the process table
    current_process,
    filetype,       \* filetype[p]: "elf" or "binary"
    objs,           \* objs[p]: the heap objects allocated for p, not freed
    allocations,    \* allocations[p][i]: address and size of slot i
    taken,          \* the addresses of Addrs that the heap has handed out
    writable,       \* writable[p]: what user land may write in p's pages,
                    \* addresses of Addrs and kinds of objects of p
    loading,        \* the call of process_load_for_slot in progress
    injecting,      \* the call of process_inject_arguments in progress
    panicked,
    ended,          \* the processes that process_terminate ended (a history)
    alive, next, prev, task_head, task_tail, current_task, registers, cpu,
    mode, current_directory, started, born, created

taskVars == <<alive, next, prev, task_head, task_tail, current_task, registers,
              cpu, mode, current_directory, started, born, created>>
tableVars == <<processes, current_process, panicked, ended>>
memVars == <<allocations, taken, writable, injecting>>
vars == <<taskVars, tableVars, memVars, filetype, objs, loading>>

T == INSTANCE TaskList
    WITH Tasks <- Procs, Flags <- {0}, MaxCreated <- Cardinality(Procs)

Slots == 0..(MaxProcesses - 1)
AllocationSlots == 1..MaxAllocations

Loaded == {processes[i] : i \in Slots} \ {NULL}

Idle == [stage |-> "idle"]
NoSlot == [ptr |-> NULL, pages |-> 0]

\* The kernel is between two calls of this module's functions.
Ready == mode = "kernel" /\ loading = Idle /\ injecting = Idle

-----------------------------------------------------------------------------
Init ==
    /\ T!Init
    /\ processes = [i \in Slots |-> NULL]
    /\ current_process = NULL
    /\ panicked = FALSE /\ ended = {}
    /\ filetype = [p \in Procs |-> "elf"]
    /\ objs = [p \in Procs |-> {}]
    /\ allocations = [p \in Procs |-> [i \in AllocationSlots |-> NoSlot]]
    /\ taken = {}
    /\ writable = [p \in Procs |-> {}]
    /\ loading = Idle /\ injecting = Idle

(***************************************************************************)
(* process_load and process_load_switch: process_get_free_slot, then       *)
(* process_load_for_slot allocates the struct.  Its check that the slot is *)
(* free cannot fail: process_load, its only caller, has just found it so.  *)
(***************************************************************************)
FreeSlots == {i \in Slots : processes[i] = NULL}

process_get_free_slot == Min(FreeSlots)

process_load(p, switch) ==
    /\ Ready /\ FreeSlots # {}
    /\ objs[p] = {}
    /\ objs' = [objs EXCEPT ![p] = {"process"}]
    /\ loading' = [stage |-> "elf", p |-> p, slot |-> process_get_free_slot,
                   switch |-> switch]
    /\ UNCHANGED <<taskVars, tableVars, memVars, filetype>>

At(stage) == loading.stage = stage
GoTo(stage) == loading' = [loading EXCEPT !.stage = stage]
Allocate(kind) == objs' = [objs EXCEPT ![loading.p] = @ \cup {kind}]

\* elf_load allocates the elf_file and gives nothing back when it fails.
elf_load ==
    /\ Allocate("elf")
    /\ GoTo("stack") \/ GoTo("binary") \/ GoTo("failed")

\* The format error (-EINFORMAT) leads to process_load_binary, any other ends
\* the call.
process_load_elf ==
    /\ At("elf")
    /\ elf_load
    /\ UNCHANGED <<taskVars, tableVars, memVars, filetype>>

\* process_load_binary frees what it allocated when it fails.
process_load_binary ==
    /\ At("binary")
    /\ \/ /\ Allocate("program")
          /\ filetype' = [filetype EXCEPT ![loading.p] = "binary"]
          /\ GoTo("stack")
       \/ GoTo("failed") /\ UNCHANGED <<objs, filetype>>
    /\ UNCHANGED <<taskVars, tableVars, memVars>>

LoadStack ==
    /\ At("stack")
    /\ \/ Allocate("stack") /\ GoTo("task")
       \/ GoTo("failed") /\ UNCHANGED objs
    /\ UNCHANGED <<taskVars, tableVars, memVars, filetype>>

LoadTask ==
    /\ At("task")
    /\ T!task_new(loading.p)
    /\ Allocate("task")
    /\ GoTo("map")
    /\ UNCHANGED <<tableVars, memVars, filetype>>

\* The parts of the program that process_map_elf or process_map_binary lets
\* user land write: a binary as a whole, of an ELF file those with PF_W.
ProgramPages(p) == IF filetype[p] = "elf" THEN {{}, {"elf"}} ELSE {{"program"}}

\* process_map_memory can fail for an ELF file only, with segments mapped by
\* then.  Afterwards the process enters the table, and process_load_switch
\* makes it current.
process_map_memory ==
    LET p == loading.p
    IN  /\ At("map")
        /\ \E program \in ProgramPages(p) :
              \/ /\ writable' = [writable EXCEPT ![p] = @ \cup program \cup {"stack"}]
                 /\ processes' = [processes EXCEPT ![loading.slot] = p]
                 /\ current_process' = IF loading.switch THEN p ELSE current_process
                 /\ loading' = Idle
              \/ /\ filetype[p] = "elf"
                 /\ writable' = [writable EXCEPT ![p] = @ \cup program]
                 /\ GoTo("failed")
                 /\ UNCHANGED <<processes, current_process>>
        /\ UNCHANGED <<taskVars, allocations, taken, injecting, filetype, objs, panicked, ended>>

\* Mutant: the task is not given back.
LoadFailedKeepsTask ==
    /\ At("failed")
    /\ loading' = Idle
    /\ UNCHANGED <<taskVars, tableVars, memVars, filetype, objs>>

\* Mutant: the task is freed without being taken out of the list.
LoadFailedKeepsLinks ==
    /\ At("failed")
    /\ loading' = Idle
    /\ alive' = alive \ {loading.p}
    /\ objs' = [objs EXCEPT ![loading.p] = @ \ {"task"}]
    /\ UNCHANGED <<next, prev, task_head, task_tail, current_task, registers, cpu,
                   mode, current_directory, started, born, created>>
    /\ UNCHANGED <<tableVars, memVars, filetype>>

\* The label "out": only the task is given back, and its pages with it.
LoadFailed ==
    /\ At("failed")
    /\ loading' = Idle
    /\ \/ /\ "task" \in objs[loading.p]
          /\ T!task_free(loading.p)
          /\ objs' = [objs EXCEPT ![loading.p] = @ \ {"task"}]
          /\ writable' = [writable EXCEPT ![loading.p] = {}]
       \/ "task" \notin objs[loading.p] /\ UNCHANGED <<taskVars, objs, writable>>
    /\ UNCHANGED <<tableVars, allocations, taken, injecting, filetype>>

-----------------------------------------------------------------------------
(***************************************************************************)
(* process_malloc: kzalloc, a free slot, and writable pages.  A request of *)
(* 0 bytes gets the address of a block that stays free (module Heap).      *)
(***************************************************************************)
EmptySlots(p) == {i \in AllocationSlots : allocations[p][i].ptr = NULL}

ProcessMalloc(p, a, pages) ==
    LET i == Min(EmptySlots(p))
    IN  /\ allocations' = [allocations EXCEPT ![p][i] = [ptr |-> a, pages |-> pages]]
        /\ taken' = IF pages > 0 THEN taken \cup {a} ELSE taken
        /\ writable' = [writable EXCEPT ![p] = IF pages > 0 THEN @ \cup {a} ELSE @]

\* Out of memory or out of slots, the call changes nothing.
process_malloc(p, a, pages) ==
    /\ Ready /\ p \in Loaded
    /\ a \notin taken /\ EmptySlots(p) # {}
    /\ ProcessMalloc(p, a, pages)
    /\ UNCHANGED <<taskVars, tableVars, injecting, filetype, objs, loading>>

\* The slots that hold a, and the first of them, whose size is used.
SlotsOf(p, a) == {i \in AllocationSlots : allocations[p][i].ptr = a}
FirstSize(p, a) == allocations[p][Min(SlotsOf(p, a))].pages

\* Mutant: the pages stay mapped.
process_free_mapped(p, a) ==
    /\ Ready /\ p \in Loaded
    /\ SlotsOf(p, a) # {}
    /\ allocations' = [allocations EXCEPT ![p] =
                          [i \in AllocationSlots |-> IF i \in SlotsOf(p, a) THEN NoSlot ELSE @[i]]]
    /\ taken' = taken \ {a}
    /\ UNCHANGED <<taskVars, tableVars, injecting, filetype, objs, loading, writable>>

\* process_free: unmaps as many pages as the first slot says, empties every
\* slot with the address, and frees the address.
process_free(p, a) ==
    /\ Ready /\ p \in Loaded
    /\ SlotsOf(p, a) # {}
    /\ writable' = [writable EXCEPT ![p] = IF FirstSize(p, a) > 0 THEN @ \ {a} ELSE @]
    /\ allocations' = [allocations EXCEPT ![p] =
                          [i \in AllocationSlots |-> IF i \in SlotsOf(p, a) THEN NoSlot ELSE @[i]]]
    /\ taken' = taken \ {a}
    /\ UNCHANGED <<taskVars, tableVars, injecting, filetype, objs, loading>>

(***************************************************************************)
(* process_inject_arguments: one process_malloc for argv and one for every *)
(* argument; a failure leaves the earlier ones allocated.                  *)
(***************************************************************************)
process_inject_arguments(p, argc) ==
    /\ Ready /\ p \in Loaded
    /\ injecting' = [stage |-> "malloc", p |-> p, left |-> argc + 1]
    /\ UNCHANGED <<taskVars, tableVars, allocations, taken, writable, filetype,
                   objs, loading>>

\* Mutant: the loop runs once too often.
InjectOneMore ==
    /\ injecting # Idle
    /\ \/ /\ EmptySlots(injecting.p) # {}
          /\ \E a \in Addrs \ taken : ProcessMalloc(injecting.p, a, 1)
          /\ injecting' = IF injecting.left = 0 THEN Idle
                          ELSE [injecting EXCEPT !.left = @ - 1]
       \/ injecting' = Idle /\ UNCHANGED <<allocations, taken, writable>>
    /\ UNCHANGED <<taskVars, tableVars, filetype, objs, loading>>

InjectOne ==
    /\ injecting # Idle
    /\ \/ /\ EmptySlots(injecting.p) # {}
          /\ \E a \in Addrs \ taken : ProcessMalloc(injecting.p, a, 1)
          /\ injecting' = IF injecting.left = 1 THEN Idle
                          ELSE [injecting EXCEPT !.left = @ - 1]
       \/ injecting' = Idle /\ UNCHANGED <<allocations, taken, writable>>
    /\ UNCHANGED <<taskVars, tableVars, filetype, objs, loading>>

-----------------------------------------------------------------------------
(***************************************************************************)
(* process_terminate: every allocation, the program, the stack and the     *)
(* task are freed and the slot is emptied.  If the process was the current *)
(* one, the first process left takes its place; without one, the kernel    *)
(* panics.                                                                 *)
(***************************************************************************)
process_free_program_data(p) == IF filetype[p] = "elf" THEN "elf" ELSE "program"

process_unlink(i) ==
    /\ processes' = [processes EXCEPT ![i] = NULL]
    /\ LET left == {j \in Slots : processes'[j] # NULL}
       IN  IF current_process # processes[i]
           THEN UNCHANGED <<current_process, panicked>>
           ELSE IF left # {}
                THEN current_process' = processes[Min(left)] /\ UNCHANGED panicked
                ELSE panicked' = TRUE /\ UNCHANGED current_process

Pointers(p) == {allocations[p][i].ptr : i \in AllocationSlots} \ {NULL}

\* Mutant: the stack is not freed.
TerminateKeepsStack(i) ==
    LET p == processes[i]
    IN  /\ Ready /\ p # NULL
        /\ taken' = taken \ Pointers(p)
        /\ allocations' = [allocations EXCEPT ![p] = [k \in AllocationSlots |-> NoSlot]]
        /\ writable' = [writable EXCEPT ![p] = {}]
        /\ objs' = [objs EXCEPT ![p] = @ \ {process_free_program_data(p), "task"}]
        /\ T!task_free(p)
        /\ process_unlink(i) /\ ended' = ended \cup {p}
        /\ UNCHANGED <<injecting, filetype, loading>>

process_terminate(i) ==
    LET p == processes[i]
    IN  /\ Ready /\ p # NULL
        /\ taken' = taken \ Pointers(p)
        /\ allocations' = [allocations EXCEPT ![p] = [k \in AllocationSlots |-> NoSlot]]
        /\ writable' = [writable EXCEPT ![p] = {}]
        /\ objs' = [objs EXCEPT ![p] = @ \ {process_free_program_data(p), "stack", "task"}]
        /\ T!task_free(p)
        /\ process_unlink(i) /\ ended' = ended \cup {p}
        /\ UNCHANGED <<injecting, filetype, loading>>

\* User land and the switch between tasks, as in module TaskList.
Schedule ==
    /\ loading = Idle /\ injecting = Idle
    /\ T!Reschedule \/ T!RunFirst \/ T!Trap \/ T!Resume
    /\ UNCHANGED <<tableVars, memVars, filetype, objs, loading>>

Next ==
    /\ ~panicked
    /\ \/ \E p \in Procs, switch \in BOOLEAN : process_load(p, switch)
       \/ process_load_elf \/ process_load_binary \/ LoadStack \/ LoadTask
       \/ process_map_memory \/ LoadFailed
       \/ \E p \in Procs, a \in Addrs :
             process_free(p, a) \/ \E pages \in Pages : process_malloc(p, a, pages)
       \/ \E p \in Procs, argc \in 1..MaxArgs : process_inject_arguments(p, argc)
       \/ InjectOne
       \/ \E i \in Slots : process_terminate(i)
       \/ Schedule

Spec == Init /\ [][Next]_vars

-----------------------------------------------------------------------------
Stages == {"elf", "binary", "stack", "task", "map", "failed"}

\* The type invariant of the process table, the loads in progress and the
\* allocation slots.
TypeOK ==
    /\ processes \in [Slots -> Procs \cup {NULL}]
    /\ current_process \in Procs \cup {NULL}
    /\ filetype \in [Procs -> {"elf", "binary"}]
    /\ objs \in [Procs -> SUBSET Kinds]
    /\ \A p \in Procs : allocations[p] \in
          [AllocationSlots -> [ptr : Addrs \cup {NULL}, pages : Pages \cup {0, 1}]]
    /\ taken \subseteq Addrs
    /\ writable \in [Procs -> SUBSET (Addrs \cup Kinds)]
    /\ loading # Idle => loading \in
          [stage : Stages, p : Procs, slot : Slots, switch : BOOLEAN]
    /\ injecting # Idle => injecting \in
          [stage : {"malloc"}, p : Procs, left : 1..(MaxArgs + 1)]
    /\ panicked \in BOOLEAN /\ ended \subseteq Procs

(***************************************************************************)
(* The process table and the task list agree, whichever loads failed and   *)
(* whichever processes were terminated: the live tasks are those of the    *)
(* processes in the table and of the one being loaded, no process is in    *)
(* two slots, and the current process is one of the table.                 *)
(***************************************************************************)
TablesAgree ==
    /\ alive = Loaded \cup {p \in Procs : /\ loading # Idle /\ loading.p = p
                                          /\ "task" \in objs[p]}
    /\ \A i, j \in Slots : processes[i] = processes[j] /\ processes[i] # NULL => i = j
    /\ ~panicked => current_process \in Loaded \cup {NULL}

(***************************************************************************)
(* What a process in the table points to is allocated (its program, stack  *)
(* and task); between two loads no other process has a task; and a process *)
(* that was terminated has given its program, stack and task back.  Left   *)
(* are its struct and, of a binary, what the attempt to read it as an ELF  *)
(* file allocated: no function frees those.                                *)
(***************************************************************************)
ObjectsMatchTable ==
    /\ \A p \in Loaded :
          {"process", process_free_program_data(p), "stack", "task"} \subseteq objs[p]
    /\ \A p \in Procs \ Loaded : loading = Idle => "task" \notin objs[p]
    /\ \A p \in ended :
          objs[p] \subseteq {"process"} \cup IF filetype[p] = "binary" THEN {"elf"} ELSE {}

(***************************************************************************)
(* The memory of user programs: the heap holds exactly what the slots of   *)
(* processes in the table point to, no two processes hold the same         *)
(* address, and of these addresses a process can write what it holds and   *)
(* nothing else.  Of the other objects it can write its own program and    *)
(* stack only, as long as they are allocated.  So freed memory is never    *)
(* left writable, nor written by two processes.                            *)
(***************************************************************************)
UserMemoryExact ==
    /\ taken = UNION {Pointers(p) : p \in Loaded}
    /\ \A p, q \in Procs : p # q => Pointers(p) \cap Pointers(q) = {}
    /\ \A p \in Procs :
          /\ writable[p] \cap Addrs = Pointers(p)
          /\ writable[p] \ Addrs \subseteq objs[p] \cap {"elf", "program", "stack"}
    /\ \A p \in Loaded : "stack" \in writable[p]

(***************************************************************************)
(* Whatever loads fail and whichever processes are terminated, the task    *)
(* list of the processes is in order and every switch is safe: no task is  *)
(* freed twice or while it is linked.                                      *)
(***************************************************************************)
TasksSwitchSafely == T!ListMirrorsCreation /\ T!SwitchSafe

(***************************************************************************)
(* What comments and documentation say and the code does not do.           *)
(***************************************************************************)

\* process.c: "Free the process data" at the end of a failed load.
FailedLoadFreesData ==
    loading = Idle => \A p \in Procs \ Loaded : objs[p] = {}

\* process.c and task.c: "The current process that is running" and "The
\* current task that is running" belong together.
CurrentAgree ==
    Ready /\ current_process # NULL /\ ~panicked => current_task = current_process

\* README.md: "all processes cannot access each others memory".
WritesOwnOnly ==
    \A p, q \in Loaded : p # q => writable[p] \cap writable[q] \cap Addrs = {}
=============================================================================

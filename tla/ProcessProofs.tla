---------------------------- MODULE ProcessProofs ----------------------------
(***************************************************************************)
(* Theorems about processes, for any number of them, any sizes of the      *)
(* tables and any sequence of loads, failures, terminations and            *)
(* allocations.                                                            *)
(***************************************************************************)
EXTENDS Process, NatLemmas, FiniteSetTheorems

-----------------------------------------------------------------------------
(***************************************************************************)
(* The inductive invariant.                                                *)
(***************************************************************************)
Slot == [ptr : Addrs \cup {NULL}, pages : Pages \cup {0, 1}]
LoadCall == [stage : Stages, p : Procs, slot : Slots, switch : BOOLEAN]
InjectCall == [stage : {"malloc"}, p : Procs, left : 1..(MaxArgs + 1)]

Types ==
    /\ TypeOK
    /\ allocations \in [Procs -> [AllocationSlots -> Slot]]

\* A struct that was never used has nothing, and its filetype is the default.
Unused == \A p \in Procs : "process" \notin objs[p] => objs[p] = {} /\ filetype[p] = "elf"

\* A task belongs to a process of the table or to the one being loaded.
TasksOwned ==
    /\ alive = {p \in Procs : "task" \in objs[p]}
    /\ \A p \in Procs : "task" \in objs[p] => p \in Loaded \/ (loading # Idle /\ loading.p = p)

\* What the stages of a load have allocated so far.
StageObjects(stage, p) ==
    /\ stage \in {"elf", "binary"} => filetype[p] = "elf"
    /\ stage \in {"elf", "binary", "stack", "task"} => "task" \notin objs[p]
    /\ stage \in {"stack", "task", "map"} => process_free_program_data(p) \in objs[p]
    /\ stage \in {"task", "map"} => "stack" \in objs[p]
    /\ stage = "map" => "task" \in objs[p]

LoadInProgress ==
    loading # Idle =>
        /\ injecting = Idle
        /\ processes[loading.slot] = NULL /\ loading.p \notin Loaded
        /\ "process" \in objs[loading.p]
        /\ StageObjects(loading.stage, loading.p)

OneSlotEach == \A i, j \in Slots : processes[i] = processes[j] /\ processes[i] # NULL => i = j

LoadedHave ==
    \A p \in Loaded : {"process", process_free_program_data(p), "stack", "task"} \subseteq objs[p]

CurrentInTable == ~panicked => current_process \in Loaded \cup {NULL}

TableInv ==
    /\ Unused /\ TasksOwned /\ LoadInProgress
    /\ OneSlotEach /\ LoadedHave /\ CurrentInTable

\* The slots, the heap and the pages of user programs.
MemoryInv ==
    /\ injecting # Idle => injecting.p \in Loaded
    /\ \A p \in Procs : Pointers(p) # {} => p \in Loaded
    /\ taken = UNION {Pointers(p) : p \in Procs}
    /\ \A p, q \in Procs : p # q => Pointers(p) \cap Pointers(q) = {}
    /\ \A p \in Procs : writable[p] \cap Addrs = Pointers(p)
    /\ \A p \in Procs : \A i \in AllocationSlots :
          allocations[p][i].ptr # NULL => allocations[p][i].pages > 0

IInv == Types /\ TableInv

-----------------------------------------------------------------------------
(***************************************************************************)
(* Facts about the tables.                                                 *)
(***************************************************************************)
LEMMA LoadedAreProcs ==
    ASSUME Types
    PROVE  /\ Loaded \subseteq Procs /\ NULL \notin Loaded
           /\ \A p \in Procs : p \in Loaded <=> \E i \in Slots : processes[i] = p
BY ProcessAssumption DEF Types, TypeOK, Loaded

\* The first free slot of the process table.
LEMMA FreeSlotFound ==
    ASSUME FreeSlots # {}
    PROVE  process_get_free_slot \in Slots /\ processes[process_get_free_slot] = NULL
<1>1. FreeSlots \in SUBSET Nat
  BY ProcessAssumption DEF FreeSlots, Slots
<1>2. Min(FreeSlots) \in FreeSlots
  BY <1>1, MinOf
<1>3. QED
  BY <1>2 DEF process_get_free_slot, FreeSlots

\* The first empty allocation slot of a process.
LEMMA EmptySlotFound ==
    ASSUME NEW p \in Procs, EmptySlots(p) # {}
    PROVE  Min(EmptySlots(p)) \in AllocationSlots /\ allocations[p][Min(EmptySlots(p))].ptr = NULL
<1>1. EmptySlots(p) \in SUBSET Nat
  BY ProcessAssumption DEF EmptySlots, AllocationSlots
<1>2. Min(EmptySlots(p)) \in EmptySlots(p)
  BY <1>1, MinOf
<1>3. QED
  BY <1>2 DEF EmptySlots

\* A call that is under way is one with its arguments.
LEMMA CallTyped ==
    ASSUME Types
    PROVE  /\ loading # Idle => loading \in LoadCall
           /\ injecting # Idle => injecting \in InjectCall
           /\ \A s \in Stages : loading.stage = s => loading # Idle
BY DEF Types, TypeOK, LoadCall, InjectCall, Idle, Stages

-----------------------------------------------------------------------------
(***************************************************************************)
(* Types.                                                                  *)
(***************************************************************************)
LEMMA TypesInit == Init => Types
<1> SUFFICES ASSUME Init PROVE Types
  OBVIOUS
<1>1. NoSlot \in Slot
  BY DEF NoSlot, Slot
<1>2. allocations \in [Procs -> [AllocationSlots -> Slot]]
  BY <1>1 DEF Init
<1>3. QED
  BY <1>2 DEF Init, Types, TypeOK, Slot, Kinds

\* A load keeps its arguments from stage to stage.
LEMMA StageTyped ==
    ASSUME Types, loading # Idle, NEW s \in Stages, GoTo(s)
    PROVE  /\ loading' \in LoadCall /\ loading' # Idle
           /\ loading'.stage = s /\ loading'.p = loading.p
           /\ loading'.slot = loading.slot /\ loading'.switch = loading.switch
<1>1. loading \in LoadCall
  BY CallTyped
<1>2. loading' = [loading EXCEPT !.stage = s]
  BY DEF GoTo
<1>3. QED
  BY <1>1, <1>2 DEF LoadCall, Idle, Stages

LEMMA AllocateTyped ==
    ASSUME Types, loading # Idle, NEW k \in Kinds, Allocate(k)
    PROVE  /\ objs' \in [Procs -> SUBSET Kinds] /\ loading.p \in Procs
           /\ objs'[loading.p] = objs[loading.p] \cup {k}
           /\ \A q \in Procs \ {loading.p} : objs'[q] = objs[q]
<1>1. loading.p \in Procs /\ objs \in [Procs -> SUBSET Kinds]
  BY CallTyped DEF LoadCall, Types, TypeOK
<1>2. QED
  BY <1>1 DEF Allocate

LEMMA MallocTyped ==
    ASSUME Types, NEW p \in Procs, NEW a \in Addrs, NEW n \in Pages \cup {0, 1},
           EmptySlots(p) # {}, ProcessMalloc(p, a, n)
    PROVE  /\ allocations' \in [Procs -> [AllocationSlots -> Slot]]
           /\ taken' \subseteq Addrs /\ writable' \in [Procs -> SUBSET (Addrs \cup Kinds)]
<1>1. Min(EmptySlots(p)) \in AllocationSlots
  BY EmptySlotFound
<1>2. [ptr |-> a, pages |-> n] \in Slot
  BY DEF Slot
<1>3. allocations' = [allocations EXCEPT ![p] = [allocations[p] EXCEPT ![Min(EmptySlots(p))] =
                                                    [ptr |-> a, pages |-> n]]]
  BY DEF ProcessMalloc
<1>4. QED
  BY <1>1, <1>2, <1>3 DEF ProcessMalloc, Types, TypeOK

\* Types again, with the allocations as a function.
LEMMA TypesParts ==
    Types <=>
    /\ processes \in [Slots -> Procs \cup {NULL}] /\ current_process \in Procs \cup {NULL}
    /\ filetype \in [Procs -> {"elf", "binary"}] /\ objs \in [Procs -> SUBSET Kinds]
    /\ allocations \in [Procs -> [AllocationSlots -> Slot]]
    /\ taken \subseteq Addrs /\ writable \in [Procs -> SUBSET (Addrs \cup Kinds)]
    /\ loading # Idle => loading \in LoadCall
    /\ injecting # Idle => injecting \in InjectCall
    /\ panicked \in BOOLEAN /\ ended \subseteq Procs
BY DEF Types, TypeOK, Slot, LoadCall, InjectCall

\* The same for the next state.
LEMMA TypesPartsNext ==
    ASSUME processes' \in [Slots -> Procs \cup {NULL}], current_process' \in Procs \cup {NULL},
           filetype' \in [Procs -> {"elf", "binary"}], objs' \in [Procs -> SUBSET Kinds],
           allocations' \in [Procs -> [AllocationSlots -> Slot]],
           taken' \subseteq Addrs, writable' \in [Procs -> SUBSET (Addrs \cup Kinds)],
           loading' # Idle => loading' \in LoadCall,
           injecting' # Idle => injecting' \in InjectCall,
           panicked' \in BOOLEAN, ended' \subseteq Procs
    PROVE  Types'
BY DEF Types, TypeOK, Slot, LoadCall, InjectCall

LEMMA LoadTypes ==
    ASSUME Types,
           \/ \E p \in Procs, switch \in BOOLEAN : process_load(p, switch)
           \/ process_load_elf \/ process_load_binary \/ LoadStack \/ LoadTask
           \/ process_map_memory \/ LoadFailed
    PROVE  Types'
<1> USE TypesParts
<1>1. ASSUME NEW p \in Procs, NEW switch \in BOOLEAN, process_load(p, switch) PROVE Types'
  <2>1. loading' \in LoadCall
    BY <1>1, FreeSlotFound DEF process_load, LoadCall, Stages
  <2>2. objs' \in [Procs -> SUBSET Kinds]
    BY <1>1 DEF process_load, Kinds
  <2>3. QED
    BY <1>1, <2>1, <2>2, TypesPartsNext DEF process_load, tableVars, memVars
<1>2. CASE process_load_elf
  <2>1. loading # Idle
    BY <1>2, CallTyped DEF process_load_elf, At, Stages
  <2>2. objs' \in [Procs -> SUBSET Kinds]
    BY <1>2, <2>1, AllocateTyped DEF process_load_elf, elf_load, Kinds
  <2>3. loading' \in LoadCall
    BY <1>2, <2>1, StageTyped DEF process_load_elf, elf_load, Stages
  <2>4. QED
    BY <1>2, <2>2, <2>3, TypesPartsNext DEF process_load_elf, tableVars, memVars
<1>3. CASE process_load_binary
  <2>1. loading # Idle
    BY <1>3, CallTyped DEF process_load_binary, At, Stages
  <2>2. loading' \in LoadCall
    BY <1>3, <2>1, StageTyped DEF process_load_binary, Stages
  <2>3. objs' \in [Procs -> SUBSET Kinds] /\ filetype' \in [Procs -> {"elf", "binary"}]
    BY <1>3, <2>1, AllocateTyped DEF process_load_binary, Kinds
  <2>4. QED
    BY <1>3, <2>2, <2>3, TypesPartsNext DEF process_load_binary, tableVars, memVars
<1>4. CASE LoadStack
  <2>1. loading # Idle
    BY <1>4, CallTyped DEF LoadStack, At, Stages
  <2>2. loading' \in LoadCall
    BY <1>4, <2>1, StageTyped DEF LoadStack, Stages
  <2>3. objs' \in [Procs -> SUBSET Kinds]
    BY <1>4, <2>1, AllocateTyped DEF LoadStack, Kinds
  <2>4. QED
    BY <1>4, <2>2, <2>3, TypesPartsNext DEF LoadStack, tableVars, memVars
<1>5. CASE LoadTask
  <2>1. loading # Idle
    BY <1>5, CallTyped DEF LoadTask, At, Stages
  <2>2. loading' \in LoadCall
    BY <1>5, <2>1, StageTyped DEF LoadTask, Stages
  <2>3. objs' \in [Procs -> SUBSET Kinds]
    BY <1>5, <2>1, AllocateTyped DEF LoadTask, Kinds
  <2>4. QED
    BY <1>5, <2>2, <2>3, TypesPartsNext DEF LoadTask, tableVars, memVars
<1>6. CASE process_map_memory
  <2>1. loading # Idle /\ loading.p \in Procs
    BY <1>6, CallTyped DEF process_map_memory, At, Stages, LoadCall
  <2>2. loading' # Idle => loading' \in LoadCall
    BY <1>6, <2>1, StageTyped DEF process_map_memory, Stages
  <2>3. processes' \in [Slots -> Procs \cup {NULL}] /\ current_process' \in Procs \cup {NULL}
    BY <1>6, <2>1 DEF process_map_memory
  <2>4. writable' \in [Procs -> SUBSET (Addrs \cup Kinds)]
    BY <1>6, <2>1 DEF process_map_memory, ProgramPages, Kinds
  <2>5. QED
    BY <1>6, <2>2, <2>3, <2>4, TypesPartsNext DEF process_map_memory
<1>7. CASE LoadFailed
  <2>1. loading # Idle /\ loading.p \in Procs
    BY <1>7, CallTyped DEF LoadFailed, At, Stages, LoadCall
  <2>2. objs' \in [Procs -> SUBSET Kinds] /\ writable' \in [Procs -> SUBSET (Addrs \cup Kinds)]
    BY <1>7, <2>1 DEF LoadFailed
  <2>3. QED
    BY <1>7, <2>2, TypesPartsNext DEF LoadFailed, tableVars
<1>8. QED
  BY <1>1, <1>2, <1>3, <1>4, <1>5, <1>6, <1>7

LEMMA MemoryTypes ==
    ASSUME Types,
           \/ \E p \in Procs, a \in Addrs :
                 process_free(p, a) \/ \E pages \in Pages : process_malloc(p, a, pages)
           \/ \E p \in Procs, argc \in 1..MaxArgs : process_inject_arguments(p, argc)
           \/ InjectOne
    PROVE  Types'
<1> USE TypesParts
<1>1. ASSUME NEW p \in Procs, NEW a \in Addrs, process_free(p, a) PROVE Types'
  <2>1. NoSlot \in Slot
    BY DEF NoSlot, Slot
  <2>2. /\ allocations' \in [Procs -> [AllocationSlots -> Slot]]
        /\ taken' \subseteq Addrs /\ writable' \in [Procs -> SUBSET (Addrs \cup Kinds)]
    BY <1>1, <2>1 DEF process_free
  <2>3. QED
    BY <1>1, <2>2, TypesPartsNext DEF process_free, tableVars
<1>2. ASSUME NEW p \in Procs, NEW a \in Addrs, NEW n \in Pages, process_malloc(p, a, n) PROVE Types'
  <2>1. /\ allocations' \in [Procs -> [AllocationSlots -> Slot]]
        /\ taken' \subseteq Addrs /\ writable' \in [Procs -> SUBSET (Addrs \cup Kinds)]
    BY <1>2, MallocTyped DEF process_malloc
  <2>2. QED
    BY <1>2, <2>1, TypesPartsNext DEF process_malloc, tableVars
<1>3. ASSUME NEW p \in Procs, NEW argc \in 1..MaxArgs, process_inject_arguments(p, argc) PROVE Types'
  <2>1. argc + 1 \in 1..(MaxArgs + 1)
    BY ProcessAssumption
  <2>2. injecting' \in InjectCall
    BY <1>3, <2>1 DEF process_inject_arguments, InjectCall
  <2>3. QED
    BY <1>3, <2>2, TypesPartsNext DEF process_inject_arguments, tableVars
<1>4. CASE InjectOne
  <2>1. injecting \in InjectCall
    BY <1>4 DEF InjectOne
  <2>2. injecting' # Idle => injecting' \in InjectCall
    <3>1. CASE injecting' = [injecting EXCEPT !.left = @ - 1] /\ injecting.left # 1
      <4>1. injecting.left - 1 \in 1..(MaxArgs + 1)
        BY <2>1, <3>1, ProcessAssumption DEF InjectCall
      <4>2. QED
        BY <2>1, <3>1, <4>1 DEF InjectCall
    <3>2. QED
      BY <1>4, <3>1 DEF InjectOne
  <2>3. /\ allocations' \in [Procs -> [AllocationSlots -> Slot]]
        /\ taken' \subseteq Addrs /\ writable' \in [Procs -> SUBSET (Addrs \cup Kinds)]
    <3>1. injecting.p \in Procs /\ 1 \in Pages \cup {0, 1}
      BY <2>1 DEF InjectCall
    <3>2. QED
      BY <1>4, <3>1, MallocTyped DEF InjectOne
  <2>4. QED
    BY <1>4, <2>2, <2>3, TypesPartsNext DEF InjectOne, tableVars
<1>5. QED
  BY <1>1, <1>2, <1>3, <1>4

LEMMA TerminateTypes ==
    ASSUME Types, NEW i \in Slots, process_terminate(i)
    PROVE  Types'
<1> USE TypesParts
<1>1. processes[i] \in Procs
  BY DEF process_terminate
<1>2. NoSlot \in Slot
  BY DEF NoSlot, Slot
<1>3. /\ allocations' \in [Procs -> [AllocationSlots -> Slot]]
      /\ taken' \subseteq Addrs /\ writable' \in [Procs -> SUBSET (Addrs \cup Kinds)]
      /\ objs' \in [Procs -> SUBSET Kinds]
  BY <1>1, <1>2 DEF process_terminate
<1>4. processes' \in [Slots -> Procs \cup {NULL}]
  BY DEF process_terminate, process_unlink
<1>5. current_process' \in Procs \cup {NULL} /\ panicked' \in BOOLEAN
  <2> DEFINE left == {j \in Slots : processes'[j] # NULL}
  <2>1. left # {} => Min(left) \in Slots
    <3>1. left \in SUBSET Nat
      BY ProcessAssumption DEF Slots
    <3>2. QED
      BY <3>1, MinOf
  <2>2. QED
    BY <2>1 DEF process_terminate, process_unlink
<1>6. ended' \subseteq Procs
  BY <1>1 DEF process_terminate
<1>7. QED
  BY <1>3, <1>4, <1>5, <1>6, TypesPartsNext DEF process_terminate

LEMMA TypesStep == Types /\ [Next]_vars => Types'
<1> SUFFICES ASSUME Types, [Next]_vars PROVE Types'
  OBVIOUS
<1>1. CASE Schedule
  BY <1>1, TypesParts, TypesPartsNext DEF Schedule, tableVars, memVars
<1>2. CASE UNCHANGED vars
  BY <1>2, TypesParts, TypesPartsNext DEF vars, tableVars, memVars
<1>3. QED
  BY <1>1, <1>2, LoadTypes, MemoryTypes, TerminateTypes DEF Next

-----------------------------------------------------------------------------
(***************************************************************************)
(* The process table, the task list and the objects.                       *)
(***************************************************************************)
LEMMA TableInit == Init => TableInv
<1> SUFFICES ASSUME Init PROVE TableInv
  OBVIOUS
<1>1. Loaded = {} /\ alive = {}
  BY DEF Init, Loaded, T!Init
<1>2. QED
  BY <1>1 DEF Init, TableInv, Unused, TasksOwned, LoadInProgress, OneSlotEach, LoadedHave, CurrentInTable

\* A stage of a load touches the process that is loaded and no other.
LEMMA StageKeepsTable ==
    ASSUME Types, TableInv, loading # Idle, NEW p \in Procs, p = loading.p,
           NEW s \in Stages, GoTo(s), UNCHANGED <<tableVars, injecting>>,
           \A q \in Procs \ {p} : objs'[q] = objs[q] /\ filetype'[q] = filetype[q],
           "process" \in objs'[p], alive' = {q \in Procs : "task" \in objs'[q]},
           StageObjects(s, p)'
    PROVE  TableInv'
<1>1. /\ loading' \in LoadCall /\ loading' # Idle /\ loading'.stage = s
      /\ loading'.p = p /\ loading'.slot = loading.slot
  BY StageTyped
<1>2. Loaded' = Loaded /\ Loaded \subseteq Procs /\ p \notin Loaded
  BY LoadedAreProcs DEF Loaded, tableVars, TableInv, LoadInProgress
<1>3. Unused' /\ TasksOwned'
  BY <1>1, <1>2 DEF TableInv, Unused, TasksOwned
<1>4. LoadInProgress'
  BY <1>1, <1>2 DEF TableInv, LoadInProgress, tableVars
<1>5. OneSlotEach' /\ CurrentInTable'
  BY <1>2 DEF TableInv, OneSlotEach, CurrentInTable, tableVars
<1>6. LoadedHave'
  BY <1>2 DEF TableInv, LoadedHave, process_free_program_data
<1>7. QED
  BY <1>3, <1>4, <1>5, <1>6 DEF TableInv

LEMMA LoadTable ==
    ASSUME Types, TableInv,
           process_load_elf \/ process_load_binary \/ LoadStack \/ LoadTask
    PROVE  TableInv'
<1>1. loading # Idle /\ loading \in LoadCall
  BY CallTyped DEF process_load_elf, process_load_binary, LoadStack, LoadTask, At, Stages
<1>2. PICK p \in Procs : p = loading.p
  BY <1>1 DEF LoadCall
<1>3. /\ injecting = Idle /\ "process" \in objs[p] /\ StageObjects(loading.stage, p)
      /\ alive = {q \in Procs : "task" \in objs[q]}
      /\ objs \in [Procs -> SUBSET Kinds] /\ filetype \in [Procs -> {"elf", "binary"}]
  BY <1>1, <1>2, TypesParts DEF TableInv, LoadInProgress, TasksOwned
<1> DEFINE Same == \A q \in Procs \ {p} : objs'[q] = objs[q] /\ filetype'[q] = filetype[q]
           Tasks == alive' = {q \in Procs : "task" \in objs'[q]}
<1>4. CASE process_load_elf
  <2>1. Same /\ objs'[p] = objs[p] \cup {"elf"} /\ filetype' = filetype /\ alive' = alive
    BY <1>1, <1>2, <1>4, AllocateTyped DEF process_load_elf, elf_load, Kinds, taskVars
  <2>2. Tasks
    BY <1>3, <2>1
  <2>3. ASSUME NEW s \in {"stack", "binary", "failed"} PROVE StageObjects(s, p)'
    BY <1>3, <1>4, <2>1 DEF process_load_elf, At, StageObjects, process_free_program_data
  <2>4. UNCHANGED <<tableVars, injecting>> /\ "process" \in objs'[p]
    BY <1>3, <1>4, <2>1 DEF process_load_elf, memVars
  <2>5. QED
    BY <1>1, <1>2, <1>4, <2>1, <2>2, <2>3, <2>4, StageKeepsTable DEF process_load_elf, elf_load, Stages
<1>5. CASE process_load_binary
  <2>1. alive' = alive /\ UNCHANGED <<tableVars, injecting>>
    BY <1>5 DEF process_load_binary, memVars, taskVars
  <2>2. CASE Allocate("program") /\ filetype' = [filetype EXCEPT ![loading.p] = "binary"] /\ GoTo("stack")
    <3>1. Same /\ objs'[p] = objs[p] \cup {"program"} /\ filetype'[p] = "binary"
      BY <1>1, <1>2, <1>3, <2>2, AllocateTyped DEF Kinds
    <3>2. Tasks
      BY <1>3, <2>1, <3>1
    <3>3. StageObjects("stack", p)' /\ "process" \in objs'[p]
      BY <1>3, <1>5, <3>1 DEF process_load_binary, At, StageObjects, process_free_program_data
    <3>4. QED
      BY <1>1, <1>2, <2>1, <2>2, <3>1, <3>2, <3>3, StageKeepsTable DEF Stages
  <2>3. CASE GoTo("failed") /\ UNCHANGED <<objs, filetype>>
    <3>1. StageObjects("failed", p)' /\ Tasks /\ Same
      BY <1>3, <2>1, <2>3 DEF StageObjects
    <3>2. QED
      BY <1>1, <1>2, <1>3, <2>1, <2>3, <3>1, StageKeepsTable DEF Stages
  <2>4. QED
    BY <1>5, <2>2, <2>3 DEF process_load_binary
<1>6. CASE LoadStack
  <2>1. alive' = alive /\ UNCHANGED <<tableVars, injecting>> /\ filetype' = filetype
    BY <1>6 DEF LoadStack, memVars, taskVars
  <2>2. CASE Allocate("stack") /\ GoTo("task")
    <3>1. Same /\ objs'[p] = objs[p] \cup {"stack"}
      BY <1>1, <1>2, <2>1, <2>2, AllocateTyped DEF Kinds
    <3>2. Tasks
      BY <1>3, <2>1, <3>1
    <3>3. StageObjects("task", p)' /\ "process" \in objs'[p]
      BY <1>3, <1>6, <2>1, <3>1 DEF LoadStack, At, StageObjects, process_free_program_data
    <3>4. QED
      BY <1>1, <1>2, <2>1, <2>2, <3>1, <3>2, <3>3, StageKeepsTable DEF Stages
  <2>3. CASE GoTo("failed") /\ UNCHANGED objs
    <3>1. StageObjects("failed", p)' /\ Tasks /\ Same
      BY <1>3, <2>1, <2>3 DEF StageObjects
    <3>2. QED
      BY <1>1, <1>2, <1>3, <2>1, <2>3, <3>1, StageKeepsTable DEF Stages
  <2>4. QED
    BY <1>6, <2>2, <2>3 DEF LoadStack
<1>7. CASE LoadTask
  <2>1. alive' = alive \cup {p} /\ UNCHANGED <<tableVars, injecting>> /\ filetype' = filetype
    BY <1>2, <1>7 DEF LoadTask, T!task_new, memVars
  <2>2. Same /\ objs'[p] = objs[p] \cup {"task"}
    BY <1>1, <1>2, <1>7, <2>1, AllocateTyped DEF LoadTask, Kinds
  <2>3. Tasks
    BY <1>3, <2>1, <2>2
  <2>4. StageObjects("map", p)' /\ "process" \in objs'[p]
    BY <1>3, <1>7, <2>1, <2>2 DEF LoadTask, At, StageObjects, process_free_program_data
  <2>5. QED
    BY <1>1, <1>2, <1>7, <2>1, <2>2, <2>3, <2>4, StageKeepsTable DEF LoadTask, Stages
<1>8. QED
  BY <1>4, <1>5, <1>6, <1>7

\* A load begins with a struct that was never used and a slot that is free.
LEMMA BeginTable ==
    ASSUME Types, TableInv, NEW p \in Procs, NEW switch \in BOOLEAN, process_load(p, switch)
    PROVE  TableInv'
<1>1. /\ loading = Idle /\ injecting = Idle /\ injecting' = Idle /\ objs[p] = {}
      /\ objs \in [Procs -> SUBSET Kinds]
      /\ alive' = alive /\ UNCHANGED tableVars /\ filetype' = filetype
  BY TypesParts DEF process_load, Ready, memVars, taskVars
<1>2. objs'[p] = {"process"} /\ \A q \in Procs \ {p} : objs'[q] = objs[q]
  BY <1>1 DEF process_load
<1>3. /\ loading'.p = p /\ loading'.stage = "elf" /\ loading' # Idle
      /\ processes[loading'.slot] = NULL
  BY FreeSlotFound DEF process_load, Idle
<1>4. Loaded' = Loaded /\ Loaded \subseteq Procs /\ p \notin Loaded
  BY <1>1, LoadedAreProcs DEF Loaded, tableVars, TableInv, LoadedHave
<1>5. Unused'
  BY <1>1, <1>2 DEF TableInv, Unused
<1>6. TasksOwned'
  BY <1>1, <1>2, <1>3, <1>4 DEF TableInv, TasksOwned
<1>7. LoadInProgress'
  BY <1>1, <1>2, <1>3, <1>4 DEF TableInv, Unused, LoadInProgress, StageObjects, tableVars
<1>8. OneSlotEach' /\ CurrentInTable'
  BY <1>1, <1>4 DEF TableInv, OneSlotEach, CurrentInTable, tableVars
<1>9. LoadedHave'
  BY <1>1, <1>2, <1>4 DEF TableInv, LoadedHave, process_free_program_data
<1>10. QED
  BY <1>5, <1>6, <1>7, <1>8, <1>9 DEF TableInv

\* A load ends in the table, or at the label "out" that gives the task back.
LEMMA EndTable ==
    ASSUME Types, TableInv, process_map_memory \/ LoadFailed
    PROVE  TableInv'
<1>1. loading # Idle /\ loading \in LoadCall
  BY CallTyped DEF process_map_memory, LoadFailed, At, Stages
<1>2. PICK p \in Procs : p = loading.p
  BY <1>1 DEF LoadCall
<1>3. PICK n \in Slots : n = loading.slot
  BY <1>1 DEF LoadCall
<1>4. /\ injecting = Idle /\ "process" \in objs[p] /\ StageObjects(loading.stage, p)
      /\ processes[n] = NULL /\ p \notin Loaded
      /\ alive = {q \in Procs : "task" \in objs[q]}
      /\ objs \in [Procs -> SUBSET Kinds] /\ filetype \in [Procs -> {"elf", "binary"}]
      /\ processes \in [Slots -> Procs \cup {NULL}]
  BY <1>1, <1>2, <1>3, TypesParts DEF TableInv, LoadInProgress, TasksOwned
<1>5. CASE process_map_memory /\ loading' = Idle
  <2>1. /\ alive' = alive /\ filetype' = filetype /\ objs' = objs /\ panicked' = panicked
        /\ loading.stage = "map"
    BY <1>5 DEF process_map_memory, At, taskVars
  <2>2. processes' = [processes EXCEPT ![n] = p] /\ current_process' \in {p, current_process}
    BY <1>1, <1>2, <1>3, <1>5, StageTyped DEF process_map_memory, Stages
  <2>3. Loaded' = Loaded \cup {p}
    BY <1>4, <2>2, ProcessAssumption DEF Loaded
  <2>4. Unused' /\ TasksOwned'
    BY <1>2, <1>4, <1>5, <2>1, <2>3 DEF TableInv, Unused, TasksOwned
  <2>5. OneSlotEach'
    <3>1. \A i \in Slots \ {n} : processes'[i] = processes[i] /\ processes[i] # p
      BY <1>4, <2>2, ProcessAssumption DEF Loaded
    <3>2. processes'[n] = p
      BY <1>4, <2>2
    <3>3. QED
      BY <1>4, <3>1, <3>2 DEF TableInv, OneSlotEach
  <2>6. LoadedHave'
    BY <1>4, <2>1, <2>3 DEF TableInv, LoadedHave, StageObjects, process_free_program_data
  <2>7. CurrentInTable' /\ LoadInProgress'
    BY <1>5, <2>1, <2>2, <2>3 DEF TableInv, CurrentInTable, LoadInProgress
  <2>8. QED
    BY <2>4, <2>5, <2>6, <2>7 DEF TableInv
<1>6. CASE process_map_memory /\ loading' # Idle
  <2>1. GoTo("failed") /\ UNCHANGED <<processes, current_process, panicked, ended, injecting, objs, filetype, alive>>
    BY <1>6 DEF process_map_memory, taskVars
  <2>2. StageObjects("failed", p)'
    BY DEF StageObjects
  <2>3. QED
    BY <1>1, <1>2, <1>4, <2>1, <2>2, StageKeepsTable DEF Stages, tableVars
<1>7. CASE LoadFailed
  <2>1. loading' = Idle /\ UNCHANGED tableVars /\ filetype' = filetype
    BY <1>7 DEF LoadFailed
  <2>2. /\ objs'[p] = objs[p] \ {"task"} /\ \A q \in Procs \ {p} : objs'[q] = objs[q]
        /\ alive' = alive \ {p}
    <3>1. CASE "task" \in objs[p]
      BY <1>2, <1>4, <1>7, <3>1 DEF LoadFailed, T!task_free
    <3>2. CASE "task" \notin objs[p]
      BY <1>2, <1>4, <1>7, <3>2 DEF LoadFailed, taskVars
    <3>3. QED
      BY <3>1, <3>2
  <2>3. Loaded' = Loaded /\ Loaded \subseteq Procs
    BY <2>1, LoadedAreProcs DEF Loaded, tableVars
  <2>4. Unused'
    BY <1>4, <2>1, <2>2 DEF TableInv, Unused
  <2>5. TasksOwned'
    BY <1>2, <1>4, <2>1, <2>2, <2>3 DEF TableInv, TasksOwned
  <2>6. OneSlotEach' /\ CurrentInTable' /\ LoadInProgress'
    BY <2>1, <2>3 DEF TableInv, OneSlotEach, CurrentInTable, LoadInProgress, tableVars
  <2>7. LoadedHave'
    BY <1>4, <2>1, <2>2, <2>3 DEF TableInv, LoadedHave, process_free_program_data
  <2>8. QED
    BY <2>4, <2>5, <2>6, <2>7 DEF TableInv
<1>8. QED
  BY <1>5, <1>6, <1>7

\* What allocates no object and runs no load leaves the tables alone.
LEMMA QuietTable ==
    ASSUME TableInv, UNCHANGED <<alive, objs, filetype, loading, tableVars>>,
           loading = Idle \/ UNCHANGED injecting
    PROVE  TableInv'
<1>1. Loaded' = Loaded
  BY DEF Loaded, tableVars
<1>2. Unused' /\ TasksOwned' /\ OneSlotEach' /\ LoadedHave' /\ CurrentInTable'
  BY <1>1 DEF TableInv, Unused, TasksOwned, OneSlotEach, LoadedHave, CurrentInTable,
              process_free_program_data, tableVars
<1>3. LoadInProgress'
  BY <1>1 DEF TableInv, LoadInProgress, StageObjects, process_free_program_data, tableVars
<1>4. QED
  BY <1>2, <1>3 DEF TableInv

LEMMA TerminateTable ==
    ASSUME Types, TableInv, NEW i \in Slots, process_terminate(i)
    PROVE  TableInv'
<1>1. PICK p \in Procs : p = processes[i]
  BY TypesParts DEF process_terminate
<1>2. /\ objs \in [Procs -> SUBSET Kinds] /\ filetype' = filetype
      /\ processes \in [Slots -> Procs \cup {NULL}]
      /\ loading = Idle /\ loading' = Idle
      /\ alive = {q \in Procs : "task" \in objs[q]} /\ alive' = alive \ {p}
  BY <1>1, TypesParts DEF process_terminate, T!task_free, Ready, TableInv, TasksOwned
<1>3. /\ objs'[p] = objs[p] \ {process_free_program_data(p), "stack", "task"}
      /\ \A q \in Procs \ {p} : objs'[q] = objs[q]
  BY <1>1, <1>2 DEF process_terminate
<1>4. processes'[i] = NULL /\ \A j \in Slots \ {i} : processes'[j] = processes[j] /\ processes[j] # p
  BY <1>1, <1>2, ProcessAssumption DEF process_terminate, process_unlink, TableInv, OneSlotEach
<1>5. Loaded' = Loaded \ {p} /\ Loaded \subseteq Procs /\ p \in Loaded
  <2>1. \A q \in Loaded : \E j \in Slots : processes[j] = q
    BY DEF Loaded
  <2>2. QED
    BY <1>1, <1>4, <2>1, LoadedAreProcs DEF Loaded
<1>6. "process" \in objs'[p]
  BY <1>3, <1>5 DEF TableInv, LoadedHave, process_free_program_data
<1>7. Unused'
  BY <1>2, <1>3, <1>6 DEF TableInv, Unused
<1>8. TasksOwned'
  BY <1>2, <1>3, <1>5 DEF TableInv, TasksOwned
<1>9. OneSlotEach' /\ LoadInProgress'
  BY <1>2, <1>4 DEF TableInv, OneSlotEach, LoadInProgress
<1>10. LoadedHave'
  BY <1>2, <1>3, <1>5 DEF TableInv, LoadedHave, process_free_program_data
<1>11. CurrentInTable'
  <2> DEFINE left == {j \in Slots : processes'[j] # NULL}
  <2>1. CASE current_process # p
    BY <1>1, <1>5, <2>1 DEF process_terminate, process_unlink, TableInv, CurrentInTable
  <2>2. CASE current_process = p /\ left # {}
    <3>1. left \in SUBSET Nat
      BY ProcessAssumption DEF Slots
    <3>2. Min(left) \in left
      BY <2>2, <3>1, MinOf
    <3>3. current_process' = processes[Min(left)]
      BY <1>1, <2>2 DEF process_terminate, process_unlink
    <3>4. current_process' = processes'[Min(left)] /\ processes'[Min(left)] # NULL
      BY <1>4, <3>2, <3>3
    <3> HIDE DEF left
    <3>5. current_process' \in Loaded'
      BY <3>2, <3>4 DEF Loaded, left
    <3>6. QED
      BY <3>5 DEF CurrentInTable
  <2>3. CASE current_process = p /\ left = {}
    BY <1>1, <2>3 DEF process_terminate, process_unlink, CurrentInTable
  <2>4. QED
    BY <2>1, <2>2, <2>3
<1>12. QED
  BY <1>7, <1>8, <1>9, <1>10, <1>11 DEF TableInv

LEMMA TableStep == Types /\ TableInv /\ [Next]_vars => TableInv'
<1> SUFFICES ASSUME Types, TableInv, [Next]_vars PROVE TableInv'
  OBVIOUS
<1>1. ASSUME NEW p \in Procs, NEW a \in Addrs, process_free(p, a) PROVE TableInv'
  BY <1>1, QuietTable DEF process_free, Ready, taskVars
<1>2. ASSUME NEW p \in Procs, NEW a \in Addrs, NEW n \in Pages, process_malloc(p, a, n) PROVE TableInv'
  BY <1>2, QuietTable DEF process_malloc, Ready, taskVars
<1>3. ASSUME NEW p \in Procs, NEW argc \in 1..MaxArgs, process_inject_arguments(p, argc) PROVE TableInv'
  BY <1>3, QuietTable DEF process_inject_arguments, Ready, taskVars
<1>4. CASE InjectOne
  <2>1. loading = Idle
    BY <1>4 DEF InjectOne, TableInv, LoadInProgress
  <2>2. QED
    BY <1>4, <2>1, QuietTable DEF InjectOne, taskVars
<1>5. CASE Schedule
  <2>1. alive' = alive
    BY <1>5 DEF Schedule, T!Reschedule, T!RunFirst, T!Trap, T!Resume, T!task_next,
                T!task_run_first_ever_task, T!Panic, T!links
  <2>2. QED
    BY <1>5, <2>1, QuietTable DEF Schedule, memVars
<1>6. CASE UNCHANGED vars
  BY <1>6, QuietTable DEF vars, taskVars, memVars
<1>7. QED
  BY <1>1, <1>2, <1>3, <1>4, <1>5, <1>6, BeginTable, LoadTable, EndTable, TerminateTable DEF Next

-----------------------------------------------------------------------------
(***************************************************************************)
(* The memory of user programs, as long as no program asks for 0 bytes.    *)
(***************************************************************************)
LEMMA MemoryInit == Init => MemoryInv
<1> SUFFICES ASSUME Init PROVE MemoryInv
  OBVIOUS
<1>1. \A p \in Procs : Pointers(p) = {}
  BY DEF Init, Pointers, NoSlot
<1>2. QED
  BY <1>1 DEF Init, MemoryInv, NoSlot

\* process_malloc of one page at least adds its address, and nothing else.
LEMMA MallocMemory ==
    ASSUME Types, MemoryInv, NEW p \in Loaded, NEW a \in Addrs \ taken, NEW n \in Nat \ {0},
           EmptySlots(p) # {}, ProcessMalloc(p, a, n), UNCHANGED processes,
           injecting' # Idle => injecting'.p \in Loaded
    PROVE  MemoryInv'
<1>0. p \in Procs /\ Loaded' = Loaded /\ Loaded \subseteq Procs /\ a # NULL
  BY LoadedAreProcs, ProcessAssumption DEF Loaded
<1>1. PICK k \in AllocationSlots : k = Min(EmptySlots(p)) /\ allocations[p][k].ptr = NULL
  BY <1>0, EmptySlotFound
<1>2. /\ allocations' = [allocations EXCEPT ![p][k] = [ptr |-> a, pages |-> n]]
      /\ taken' = taken \cup {a} /\ writable' = [writable EXCEPT ![p] = @ \cup {a}]
  <2>1. n > 0
    OBVIOUS
  <2>2. QED
    BY <1>1, <2>1, Zenon DEF ProcessMalloc
<1>3. /\ allocations \in [Procs -> [AllocationSlots -> Slot]]
      /\ writable \in [Procs -> SUBSET (Addrs \cup Kinds)]
  BY TypesParts
<1>4. /\ allocations'[p][k] = [ptr |-> a, pages |-> n]
      /\ \A i \in AllocationSlots \ {k} : allocations'[p][i] = allocations[p][i]
      /\ \A q \in Procs \ {p} : allocations'[q] = allocations[q]
  BY <1>0, <1>1, <1>2, <1>3
<1>5. Pointers(p)' = Pointers(p) \cup {a}
  BY <1>0, <1>1, <1>4 DEF Pointers
<1>6. \A q \in Procs \ {p} : Pointers(q)' = Pointers(q)
  BY <1>4 DEF Pointers
<1>7. \A q \in Procs : a \notin Pointers(q)
  BY DEF MemoryInv
<1>8. taken' = UNION {Pointers(q)' : q \in Procs}
  BY <1>0, <1>2, <1>5, <1>6 DEF MemoryInv
<1>9. \A q \in Procs : writable'[q] \cap Addrs = Pointers(q)'
  BY <1>0, <1>2, <1>3, <1>5, <1>6 DEF MemoryInv
<1>10. \A q \in Procs : Pointers(q)' # {} => q \in Loaded'
  BY <1>0, <1>6 DEF MemoryInv
<1>11. \A q, r \in Procs : q # r => Pointers(q)' \cap Pointers(r)' = {}
  BY <1>0, <1>5, <1>6, <1>7 DEF MemoryInv
<1>12. \A q \in Procs : \A i \in AllocationSlots :
          allocations'[q][i].ptr # NULL => allocations'[q][i].pages > 0
  BY <1>0, <1>1, <1>4 DEF MemoryInv
<1>13. QED
  BY <1>0, <1>8, <1>9, <1>10, <1>11, <1>12 DEF MemoryInv

\* process_free takes the address, in whichever slots, from all three.
LEMMA FreeMemory ==
    ASSUME Types, MemoryInv, NEW p \in Procs, NEW a \in Addrs, process_free(p, a)
    PROVE  MemoryInv'
<1>0. /\ Loaded' = Loaded /\ Loaded \subseteq Procs /\ a # NULL /\ p \in Loaded
      /\ UNCHANGED injecting
  BY LoadedAreProcs, ProcessAssumption DEF process_free, Loaded, tableVars
<1>1. /\ allocations \in [Procs -> [AllocationSlots -> Slot]]
      /\ writable \in [Procs -> SUBSET (Addrs \cup Kinds)]
  BY TypesParts
<1>2. FirstSize(p, a) > 0
  <2>1. SlotsOf(p, a) \in SUBSET Nat /\ SlotsOf(p, a) # {}
    BY ProcessAssumption DEF SlotsOf, AllocationSlots, process_free
  <2>2. Min(SlotsOf(p, a)) \in SlotsOf(p, a)
    BY <2>1, MinOf
  <2>3. QED
    BY <1>0, <2>2 DEF FirstSize, SlotsOf, MemoryInv
<1>3. writable' = [writable EXCEPT ![p] = @ \ {a}] /\ taken' = taken \ {a}
  BY <1>2 DEF process_free
<1>4. /\ \A i \in AllocationSlots :
             allocations'[p][i] = IF allocations[p][i].ptr = a THEN NoSlot ELSE allocations[p][i]
      /\ \A q \in Procs \ {p} : allocations'[q] = allocations[q]
  BY <1>1 DEF process_free, SlotsOf
<1>5. Pointers(p)' = Pointers(p) \ {a}
  BY <1>4 DEF Pointers, NoSlot
<1>6. \A q \in Procs \ {p} : Pointers(q)' = Pointers(q)
  BY <1>4 DEF Pointers
<1>7. \A q \in Procs \ {p} : a \notin Pointers(q)
  <2>1. a \in Pointers(p)
    BY <1>0 DEF process_free, SlotsOf, Pointers
  <2>2. QED
    BY <2>1 DEF MemoryInv
<1>8. taken' = UNION {Pointers(q)' : q \in Procs}
  BY <1>3, <1>5, <1>6, <1>7 DEF MemoryInv
<1>9. \A q \in Procs : writable'[q] \cap Addrs = Pointers(q)'
  BY <1>1, <1>3, <1>5, <1>6 DEF MemoryInv
<1>10. \A q \in Procs : Pointers(q)' # {} => q \in Loaded'
  BY <1>0, <1>6 DEF MemoryInv
<1>11. \A q, r \in Procs : q # r => Pointers(q)' \cap Pointers(r)' = {}
  BY <1>5, <1>6 DEF MemoryInv
<1>12. \A q \in Procs : \A i \in AllocationSlots :
          allocations'[q][i].ptr # NULL => allocations'[q][i].pages > 0
  BY <1>4 DEF MemoryInv, NoSlot
<1>13. QED
  BY <1>0, <1>8, <1>9, <1>10, <1>11, <1>12 DEF MemoryInv

\* process_terminate takes everything that the process holds.
LEMMA TerminateMemory ==
    ASSUME Types, TableInv, MemoryInv, NEW i \in Slots, process_terminate(i)
    PROVE  MemoryInv'
<1>0. PICK p \in Procs : p = processes[i]
  BY TypesParts DEF process_terminate
<1>1. /\ allocations \in [Procs -> [AllocationSlots -> Slot]]
      /\ writable \in [Procs -> SUBSET (Addrs \cup Kinds)]
      /\ processes \in [Slots -> Procs \cup {NULL}]
  BY TypesParts
<1>2. \A q \in Loaded \ {p} : q \in Loaded'
  <2>1. \A j \in Slots \ {i} : processes'[j] = processes[j]
    BY <1>1 DEF process_terminate, process_unlink
  <2>2. QED
    BY <1>0, <2>1 DEF Loaded
<1>3. /\ taken' = taken \ Pointers(p) /\ writable' = [writable EXCEPT ![p] = {}]
      /\ injecting' = injecting /\ injecting = Idle
      /\ \A k \in AllocationSlots : allocations'[p][k] = NoSlot
      /\ \A q \in Procs \ {p} : allocations'[q] = allocations[q]
  BY <1>0, <1>1 DEF process_terminate, Ready
<1>4. Pointers(p)' = {}
  BY <1>3 DEF Pointers, NoSlot
<1>5. \A q \in Procs \ {p} : Pointers(q)' = Pointers(q)
  BY <1>3 DEF Pointers
<1>6. \A q \in Procs \ {p} : Pointers(q) \cap Pointers(p) = {}
  BY DEF MemoryInv
<1>7. taken' = UNION {Pointers(q)' : q \in Procs}
  BY <1>3, <1>4, <1>5, <1>6 DEF MemoryInv
<1>8. \A q \in Procs : writable'[q] \cap Addrs = Pointers(q)'
  BY <1>1, <1>3, <1>4, <1>5 DEF MemoryInv
<1>9. \A q \in Procs : Pointers(q)' # {} => q \in Loaded'
  BY <1>2, <1>4, <1>5 DEF MemoryInv
<1>10. \A q, r \in Procs : q # r => Pointers(q)' \cap Pointers(r)' = {}
  BY <1>4, <1>5 DEF MemoryInv
<1>11. \A q \in Procs : \A k \in AllocationSlots :
          allocations'[q][k].ptr # NULL => allocations'[q][k].pages > 0
  BY <1>3 DEF MemoryInv, NoSlot
<1>12. QED
  BY <1>3, <1>7, <1>8, <1>9, <1>10, <1>11 DEF MemoryInv

\* A step that leaves the slots alone and takes no process from the table.
LEMMA QuietMemory ==
    ASSUME MemoryInv, UNCHANGED <<allocations, taken>>, Loaded \subseteq Loaded',
           \A p \in Procs : writable'[p] \cap Addrs = writable[p] \cap Addrs,
           injecting' # Idle => injecting'.p \in Loaded
    PROVE  MemoryInv'
<1>1. \A p : Pointers(p)' = Pointers(p)
  BY DEF Pointers
<1>2. /\ injecting' # Idle => injecting'.p \in Loaded'
      /\ \A p \in Procs : Pointers(p)' # {} => p \in Loaded'
  BY <1>1 DEF MemoryInv
<1>3. taken' = UNION {Pointers(p)' : p \in Procs}
  BY <1>1, Zenon DEF MemoryInv
<1>4. QED
  BY <1>1, <1>2, <1>3 DEF MemoryInv

LEMMA MemoryStep ==
    ASSUME 0 \notin Pages, Types, TableInv, MemoryInv, [Next]_vars
    PROVE  MemoryInv'
<1>0. injecting # Idle => injecting.p \in Loaded /\ injecting \in InjectCall
  BY TypesParts DEF MemoryInv
<1>1. ASSUME UNCHANGED memVars, Loaded \subseteq Loaded' PROVE MemoryInv'
  BY <1>0, <1>1, QuietMemory DEF memVars
<1>2. ASSUME UNCHANGED processes PROVE Loaded' = Loaded
  BY <1>2 DEF Loaded
<1>3. ASSUME NEW p \in Procs, NEW switch \in BOOLEAN, process_load(p, switch) PROVE MemoryInv'
  BY <1>1, <1>2, <1>3 DEF process_load, tableVars
<1>4. CASE process_load_elf \/ process_load_binary \/ LoadStack \/ LoadTask
  BY <1>1, <1>2, <1>4 DEF process_load_elf, process_load_binary, LoadStack, LoadTask, tableVars
<1>5. CASE process_map_memory
  <2>1. loading \in LoadCall /\ loading # Idle
    BY <1>5, CallTyped DEF process_map_memory, At, Stages
  <2>2. loading.slot \in Slots /\ processes[loading.slot] = NULL
    BY <2>1 DEF LoadCall, TableInv, LoadInProgress
  <2>3. Loaded \subseteq Loaded'
    BY <1>5, <2>2, TypesParts DEF process_map_memory, Loaded
  <2>4. /\ UNCHANGED <<allocations, taken, injecting>>
        /\ \A q \in Procs : writable'[q] \cap Addrs = writable[q] \cap Addrs
    BY <1>5, TypesParts, ProcessAssumption DEF process_map_memory, ProgramPages, Kinds
  <2>5. QED
    BY <1>0, <2>3, <2>4, QuietMemory
<1>6. ASSUME NEW p \in Procs, NEW a \in Addrs, NEW n \in Pages, process_malloc(p, a, n) PROVE MemoryInv'
  <2>1. n \in Nat \ {0} /\ injecting' = injecting /\ injecting = Idle /\ UNCHANGED processes
    BY <1>6, ProcessAssumption DEF process_malloc, Ready, tableVars
  <2>2. QED
    BY <1>6, <2>1, MallocMemory DEF process_malloc
<1>7. ASSUME NEW p \in Procs, NEW argc \in 1..MaxArgs, process_inject_arguments(p, argc) PROVE MemoryInv'
  BY <1>2, <1>7, QuietMemory DEF process_inject_arguments, tableVars
<1>8. CASE InjectOne
  <2>1. /\ injecting.p \in Loaded /\ UNCHANGED processes
        /\ injecting' # Idle => injecting'.p \in Loaded
    BY <1>0, <1>8 DEF InjectOne, InjectCall, tableVars
  <2>2. CASE UNCHANGED <<allocations, taken, writable>>
    BY <1>2, <2>1, <2>2, QuietMemory
  <2>3. QED
    BY <1>8, <2>1, <2>2, MallocMemory DEF InjectOne
<1>9. CASE Schedule
  BY <1>1, <1>2, <1>9 DEF Schedule, tableVars
<1>10. CASE UNCHANGED vars
  BY <1>1, <1>2, <1>10 DEF vars, tableVars
<1>11. CASE LoadFailed
  <2>1. /\ loading \in LoadCall /\ loading # Idle /\ Loaded' = Loaded
        /\ UNCHANGED <<allocations, taken, injecting>>
    BY <1>2, <1>11, CallTyped DEF LoadFailed, At, Stages, tableVars
  <2>2. loading.p \in Procs /\ Pointers(loading.p) = {}
    BY <2>1 DEF LoadCall, TableInv, LoadInProgress, MemoryInv
  <2>3. writable[loading.p] \cap Addrs = {}
    BY <2>2 DEF MemoryInv
  <2>4. \A q \in Procs : writable'[q] \cap Addrs = writable[q] \cap Addrs
    BY <1>11, <2>2, <2>3, TypesParts DEF LoadFailed
  <2>5. QED
    BY <1>0, <2>1, <2>4, QuietMemory
<1>12. QED
  BY <1>3, <1>4, <1>5, <1>6, <1>7, <1>8, <1>9, <1>10, <1>11, FreeMemory, TerminateMemory DEF Next

-----------------------------------------------------------------------------
(***************************************************************************)
(* What a terminated process has left, and what the other objects of a     *)
(* process have to do with its pages.                                      *)
(***************************************************************************)
EndedInv ==
    /\ \A p \in Procs : filetype[p] = "elf" => "program" \notin objs[p]
    /\ \A p \in ended :
          /\ p \notin Loaded /\ (loading # Idle => loading.p # p)
          /\ "process" \in objs[p]
          /\ objs[p] \subseteq {"process"} \cup IF filetype[p] = "binary" THEN {"elf"} ELSE {}

PagesInv ==
    /\ \A p \in Procs : writable[p] \ Addrs \subseteq objs[p] \cap {"elf", "program", "stack"}
    /\ \A p \in Loaded : "stack" \in writable[p]

\* A load runs in the kernel from its beginning to its end.
LoadsInKernel == loading # Idle => mode = "kernel"

LEMMA OthersInit == Init => EndedInv /\ PagesInv /\ LoadsInKernel
<1> SUFFICES ASSUME Init PROVE EndedInv /\ PagesInv /\ LoadsInKernel
  OBVIOUS
<1>1. Loaded = {}
  BY DEF Init, Loaded
<1>2. QED
  BY <1>1 DEF Init, EndedInv, PagesInv, LoadsInKernel

LEMMA KernelStep == IInv /\ LoadsInKernel /\ [Next]_vars => LoadsInKernel'
<1> SUFFICES ASSUME IInv, LoadsInKernel, [Next]_vars PROVE LoadsInKernel'
  OBVIOUS
<1>1. CASE UNCHANGED mode /\ loading # Idle
  BY <1>1 DEF LoadsInKernel
<1>2. CASE loading' = Idle
  BY <1>2 DEF LoadsInKernel
<1>3. ASSUME NEW p \in Procs, NEW switch \in BOOLEAN, process_load(p, switch) PROVE LoadsInKernel'
  BY <1>3 DEF process_load, Ready, taskVars, LoadsInKernel
<1>4. CASE process_load_elf \/ process_load_binary \/ LoadStack \/ LoadTask \/ process_map_memory \/ LoadFailed
  <2>1. loading # Idle
    BY <1>4, CallTyped DEF IInv, process_load_elf, process_load_binary, LoadStack, LoadTask,
                           process_map_memory, LoadFailed, At, Stages
  <2>2. UNCHANGED mode
    BY <1>4 DEF process_load_elf, process_load_binary, LoadStack, LoadTask, process_map_memory,
                LoadFailed, taskVars, T!task_new, T!task_free
  <2>3. QED
    BY <1>1, <2>1, <2>2
<1>5. CASE InjectOne
  <2>1. loading = Idle
    BY <1>5 DEF InjectOne, IInv, TableInv, LoadInProgress
  <2>2. QED
    BY <1>2, <1>5, <2>1 DEF InjectOne
<1>6. QED
  BY <1>1, <1>2, <1>3, <1>4, <1>5 DEF Next, process_malloc, process_free, process_inject_arguments,
     process_terminate, Schedule, Ready, vars, taskVars

\* A step of the process in hand: the others keep what they have.
LEMMA OneProcess ==
    ASSUME Types, EndedInv, PagesInv, NEW p \in Procs, p \notin ended, ended' = ended,
           \A q \in Procs \ {p} : objs'[q] = objs[q],
           \A q \in Procs \ {p} : filetype'[q] = filetype[q],
           \A q \in Procs \ {p} : writable'[q] = writable[q],
           Loaded' = Loaded \/ (Loaded' = Loaded \cup {p} /\ "stack" \in writable'[p]),
           p \in Loaded => "stack" \in writable'[p],
           loading' # Idle => loading'.p = p,
           filetype'[p] = "elf" => "program" \notin objs'[p],
           writable'[p] \ Addrs \subseteq objs'[p] \cap {"elf", "program", "stack"}
    PROVE  EndedInv' /\ PagesInv'
<1>1. Loaded \subseteq Procs /\ ended \subseteq Procs
  BY LoadedAreProcs, TypesParts
<1>2. EndedInv'
  BY <1>1 DEF EndedInv
<1>3. PagesInv'
  BY <1>1 DEF PagesInv
<1>4. QED
  BY <1>2, <1>3

LEMMA OthersStep ==
    ASSUME IInv, EndedInv, PagesInv, [Next]_vars
    PROVE  EndedInv' /\ PagesInv'
<1>0. Types /\ TableInv /\ Loaded \subseteq Procs /\ ended \subseteq Procs
  BY LoadedAreProcs, TypesParts DEF IInv
<1>1. ASSUME UNCHANGED processes PROVE Loaded' = Loaded
  BY <1>1 DEF Loaded
<1>2. /\ objs \in [Procs -> SUBSET Kinds] /\ filetype \in [Procs -> {"elf", "binary"}]
      /\ writable \in [Procs -> SUBSET (Addrs \cup Kinds)]
  BY <1>0, TypesParts
<1>3. CASE UNCHANGED <<tableVars, filetype, objs>> /\ (loading' = Idle \/ loading' = loading)
           /\ \A q \in Procs : writable'[q] \ Addrs = writable[q] \ Addrs
  <2>1. \A q \in Loaded : "stack" \in writable'[q]
    BY <1>0, <1>3, ProcessAssumption DEF PagesInv, Kinds
  <2>2. QED
    BY <1>1, <1>3, <2>1 DEF EndedInv, PagesInv, tableVars
<1>4. ASSUME NEW p \in Procs, NEW switch \in BOOLEAN, process_load(p, switch)
      PROVE  EndedInv' /\ PagesInv'
  <2>1. /\ objs[p] = {} /\ objs'[p] = {"process"} /\ \A q \in Procs \ {p} : objs'[q] = objs[q]
        /\ UNCHANGED <<tableVars, filetype, writable>> /\ loading'.p = p
    BY <1>2, <1>4 DEF process_load, memVars
  <2>2. p \notin ended /\ writable[p] \ Addrs = {} /\ p \notin Loaded
    BY <2>1 DEF EndedInv, PagesInv, IInv, TableInv, LoadedHave
  <2>3. QED
    BY <1>0, <1>1, <2>1, <2>2, OneProcess DEF tableVars
<1>5. CASE process_load_elf \/ process_load_binary \/ LoadStack \/ LoadTask
  <2>1. loading # Idle /\ loading \in LoadCall
    BY <1>0, <1>5, CallTyped DEF process_load_elf, process_load_binary, LoadStack, LoadTask, At, Stages
  <2>2. PICK p \in Procs : p = loading.p
    BY <2>1 DEF LoadCall
  <2>3. /\ p \notin ended /\ p \notin Loaded /\ StageObjects(loading.stage, p)
    BY <2>1, <2>2 DEF EndedInv, IInv, TableInv, LoadInProgress
  <2>4. UNCHANGED <<tableVars, writable>> /\ Loaded' = Loaded
    BY <1>1, <1>5 DEF process_load_elf, process_load_binary, LoadStack, LoadTask, memVars, tableVars
  <2>5. loading'.p = p
    BY <1>0, <1>5, <2>1, <2>2, StageTyped
    DEF process_load_elf, elf_load, process_load_binary, LoadStack, LoadTask, Stages
  <2>6. /\ objs[p] \subseteq objs'[p] /\ \A q \in Procs \ {p} : objs'[q] = objs[q] /\ filetype'[q] = filetype[q]
        /\ filetype'[p] = "elf" => "program" \notin objs'[p]
    <3>1. CASE process_load_elf
      BY <1>0, <1>2, <2>1, <2>2, <3>1, AllocateTyped DEF process_load_elf, elf_load, Kinds, EndedInv
    <3>2. CASE process_load_binary
      BY <1>0, <1>2, <2>1, <2>2, <3>2, AllocateTyped DEF process_load_binary, Kinds, EndedInv
    <3>3. CASE LoadStack
      BY <1>0, <1>2, <2>1, <2>2, <3>3, AllocateTyped DEF LoadStack, Kinds, EndedInv
    <3>4. CASE LoadTask
      BY <1>0, <1>2, <2>1, <2>2, <3>4, AllocateTyped DEF LoadTask, Kinds, EndedInv
    <3>5. QED
      BY <1>5, <3>1, <3>2, <3>3, <3>4
  <2>7. writable'[p] \ Addrs \subseteq objs'[p] \cap {"elf", "program", "stack"}
    BY <2>4, <2>6 DEF PagesInv
  <2>8. QED
    BY <1>0, <2>3, <2>4, <2>5, <2>6, <2>7, OneProcess DEF tableVars
<1>6. CASE process_map_memory
  <2>1. loading # Idle /\ loading \in LoadCall
    BY <1>0, <1>6, CallTyped DEF process_map_memory, At, Stages
  <2>2. PICK p \in Procs, n \in Slots : p = loading.p /\ n = loading.slot
    BY <2>1 DEF LoadCall
  <2>3. /\ p \notin ended /\ p \notin Loaded /\ StageObjects("map", p) /\ processes[n] = NULL
        /\ {process_free_program_data(p), "stack"} \subseteq objs[p]
    BY <1>6, <2>1, <2>2 DEF EndedInv, IInv, TableInv, LoadInProgress, process_map_memory, At, StageObjects
  <2>4. /\ UNCHANGED <<objs, filetype, ended>>
        /\ loading' # Idle => loading'.p = p
    BY <1>0, <1>6, <2>1, <2>2, StageTyped DEF process_map_memory, Stages
  <2>5. PICK program \in ProgramPages(p) :
           \/ /\ writable' = [writable EXCEPT ![p] = @ \cup program \cup {"stack"}]
              /\ processes' = [processes EXCEPT ![n] = p]
           \/ /\ writable' = [writable EXCEPT ![p] = @ \cup program]
              /\ processes' = processes
    BY <1>6, <2>2 DEF process_map_memory
  <2>6. \/ Loaded' = Loaded
        \/ Loaded' = Loaded \cup {p} /\ "stack" \in writable'[p]
    <3>1. CASE processes' = processes
      BY <1>1, <3>1
    <3>2. CASE processes' = [processes EXCEPT ![n] = p] /\ "stack" \in writable'[p]
      BY <1>0, <2>3, <3>2, TypesParts, ProcessAssumption DEF Loaded
    <3>3. QED
      BY <1>2, <2>5, <3>1, <3>2
  <2>7. /\ \A q \in Procs \ {p} : writable'[q] = writable[q]
        /\ writable'[p] \subseteq writable[p] \cup program \cup {"stack"}
    BY <1>2, <2>5
  <2>8. program \cup {"stack"} \subseteq objs[p] \cap {"elf", "program", "stack"}
    BY <1>2, <2>3 DEF ProgramPages, process_free_program_data
  <2>9. writable'[p] \ Addrs \subseteq objs'[p] \cap {"elf", "program", "stack"}
    BY <2>4, <2>7, <2>8 DEF PagesInv
  <2>10. QED
    BY <1>0, <2>3, <2>4, <2>6, <2>7, <2>9, OneProcess DEF EndedInv
<1>7. CASE LoadFailed
  <2>1. loading # Idle /\ loading \in LoadCall
    BY <1>0, <1>7, CallTyped DEF LoadFailed, At, Stages
  <2>2. PICK p \in Procs : p = loading.p
    BY <2>1 DEF LoadCall
  <2>3. p \notin ended /\ p \notin Loaded
    BY <2>1, <2>2 DEF EndedInv, IInv, TableInv, LoadInProgress
  <2>4. /\ UNCHANGED <<tableVars, filetype>> /\ Loaded' = Loaded /\ loading' = Idle
        /\ objs'[p] = objs[p] \ {"task"} /\ writable'[p] \subseteq writable[p]
        /\ \A q \in Procs \ {p} : objs'[q] = objs[q] /\ writable'[q] = writable[q]
    BY <1>1, <1>2, <1>7, <2>2 DEF LoadFailed, tableVars
  <2>5. writable'[p] \ Addrs \subseteq objs'[p] \cap {"elf", "program", "stack"}
    BY <2>4 DEF PagesInv
  <2>6. filetype'[p] = "elf" => "program" \notin objs'[p]
    BY <2>4 DEF EndedInv
  <2>7. QED
    BY <1>0, <2>3, <2>4, <2>5, <2>6, OneProcess DEF tableVars
<1>8. ASSUME NEW i \in Slots, process_terminate(i) PROVE EndedInv' /\ PagesInv'
  <2>1. PICK p \in Procs : p = processes[i]
    BY <1>0, <1>8, TypesParts DEF process_terminate
  <2>2. /\ objs'[p] = objs[p] \ {process_free_program_data(p), "stack", "task"}
        /\ writable'[p] = {} /\ ended' = ended \cup {p} /\ UNCHANGED filetype
        /\ loading' = Idle
        /\ \A q \in Procs \ {p} : objs'[q] = objs[q] /\ writable'[q] = writable[q]
    BY <1>2, <1>8, <2>1 DEF process_terminate, Ready
  <2>3. p \in Loaded /\ Loaded' \subseteq Loaded \ {p}
    <3>1. processes'[i] = NULL /\ \A j \in Slots \ {i} : processes'[j] = processes[j] /\ processes[j] # p
      BY <1>0, <1>8, <2>1, TypesParts, ProcessAssumption DEF process_terminate, process_unlink, TableInv, OneSlotEach
    <3>2. QED
      BY <2>1, <3>1, <1>8, ProcessAssumption DEF Loaded
  <2>4. "process" \in objs'[p]
    BY <1>0, <2>2, <2>3 DEF TableInv, LoadedHave, process_free_program_data
  <2>5. objs'[p] \subseteq {"process"} \cup IF filetype[p] = "binary" THEN {"elf"} ELSE {}
    BY <1>2, <2>2 DEF EndedInv, process_free_program_data, Kinds
  <2>6. EndedInv'
    BY <1>0, <2>2, <2>3, <2>4, <2>5 DEF EndedInv
  <2>7. PagesInv'
    BY <1>0, <2>2, <2>3 DEF PagesInv
  <2>8. QED
    BY <2>6, <2>7
<1>9. ASSUME NEW p \in Procs, NEW a \in Addrs, NEW n, EmptySlots(p) # {}, ProcessMalloc(p, a, n)
      PROVE  \A q \in Procs : writable'[q] \ Addrs = writable[q] \ Addrs
  BY <1>2, <1>9 DEF ProcessMalloc
<1>10. ASSUME NEW p \in Procs, NEW a \in Addrs, process_free(p, a) PROVE EndedInv' /\ PagesInv'
  BY <1>2, <1>3, <1>10 DEF process_free
<1>11. ASSUME NEW p \in Procs, NEW a \in Addrs, NEW n \in Pages, process_malloc(p, a, n)
       PROVE EndedInv' /\ PagesInv'
  BY <1>3, <1>9, <1>11 DEF process_malloc
<1>12. ASSUME NEW p \in Procs, NEW argc \in 1..MaxArgs, process_inject_arguments(p, argc)
       PROVE EndedInv' /\ PagesInv'
  BY <1>3, <1>12 DEF process_inject_arguments
<1>13. CASE InjectOne
  <2>1. injecting.p \in Procs
    BY <1>0, <1>13, CallTyped DEF InjectOne, InjectCall
  <2>2. QED
    BY <1>3, <1>9, <1>13, <2>1 DEF InjectOne
<1>14. CASE Schedule
  BY <1>3, <1>14 DEF Schedule, memVars
<1>15. CASE UNCHANGED vars
  BY <1>3, <1>15 DEF vars, memVars
<1>16. QED
  BY <1>4, <1>5, <1>6, <1>7, <1>8, <1>10, <1>11, <1>12, <1>13, <1>14, <1>15 DEF Next

-----------------------------------------------------------------------------
(***************************************************************************)
(* The theorems.                                                           *)
(***************************************************************************)
LEMMA InvariantHolds == Spec => []IInv
<1>1. Init => IInv
  BY TypesInit, TableInit DEF IInv
<1>2. IInv /\ [Next]_vars => IInv'
  BY TypesStep, TableStep DEF IInv
<1>3. QED
  BY <1>1, <1>2, PTL DEF Spec

LEMMA OthersHold == Spec => [](EndedInv /\ PagesInv /\ LoadsInKernel)
<1>1. IInv /\ EndedInv /\ PagesInv /\ LoadsInKernel /\ [Next]_vars =>
          (EndedInv /\ PagesInv /\ LoadsInKernel)'
  BY KernelStep, OthersStep
<1>2. QED
  BY <1>1, OthersInit, InvariantHolds, PTL DEF Spec

\* The types of process.c's state: what a load in progress refers to, and every
\* pointer in the table and in the allocation slots.
THEOREM TypeCorrect == Spec => []TypeOK
<1>1. IInv => TypeOK
  BY DEF IInv, Types
<1>2. QED
  BY <1>1, InvariantHolds, PTL

\* For any number of processes: whichever stages of a load fail and whichever
\* processes are terminated, the live tasks are those of the processes in the
\* table and of the one being loaded, and the current process is in the table.
THEOREM TablesAlwaysAgree == Spec => []TablesAgree
<1>1. IInv => TablesAgree
  <2> SUFFICES ASSUME IInv PROVE TablesAgree
    OBVIOUS
  <2>1. Loaded \subseteq Procs
    BY LoadedAreProcs DEF IInv
  <2>2. alive = Loaded \cup {p \in Procs : loading # Idle /\ loading.p = p /\ "task" \in objs[p]}
    BY <2>1 DEF IInv, TableInv, TasksOwned, LoadedHave
  <2>3. QED
    BY <2>2 DEF IInv, TableInv, OneSlotEach, CurrentInTable, TablesAgree
<1>2. QED
  BY <1>1, InvariantHolds, PTL

\* For any number of processes: what a process in the table points to is
\* allocated, between two loads no other process has a task, and a terminated
\* process has given back its program, its stack and its task.
THEOREM ObjectsAlwaysMatchTable == Spec => []ObjectsMatchTable
<1>1. IInv /\ EndedInv => ObjectsMatchTable
  BY DEF IInv, TableInv, TasksOwned, LoadedHave, EndedInv, ObjectsMatchTable
<1>2. QED
  BY <1>1, InvariantHolds, OthersHold, PTL

\* As long as no program asks for 0 bytes (the code does not refuse that): the
\* heap, the allocation slots and the writable pages agree for any number of
\* processes and slots, and no address belongs to two processes.
THEOREM UserMemoryAlwaysExact ==
    ASSUME 0 \notin Pages
    PROVE  Spec => []UserMemoryExact
<1>1. Init => MemoryInv
  BY MemoryInit
<1>2. IInv /\ MemoryInv /\ [Next]_vars => MemoryInv'
  BY MemoryStep DEF IInv
<1>3. IInv /\ MemoryInv /\ PagesInv => UserMemoryExact
  <2> SUFFICES ASSUME IInv, MemoryInv, PagesInv PROVE UserMemoryExact
    OBVIOUS
  <2>1. Loaded \subseteq Procs
    BY LoadedAreProcs DEF IInv
  <2>2. taken = UNION {Pointers(p) : p \in Loaded}
    BY <2>1 DEF MemoryInv
  <2>3. QED
    BY <2>2 DEF MemoryInv, PagesInv, UserMemoryExact
<1>4. QED
  BY <1>1, <1>2, <1>3, InvariantHolds, OthersHold, PTL DEF Spec

\* Every step of process.c is a step of the task list of task.c: a load creates
\* a task for a struct that has none, and what is freed is alive.
LEMMA ProcessesImplementTaskList == Spec => T!Spec
<1>1. Init => T!Init
  BY DEF Init
<1>2. IInv /\ LoadsInKernel /\ [Next]_vars => [T!Next]_(T!vars)
  <2> SUFFICES ASSUME IInv, LoadsInKernel, [Next]_vars PROVE [T!Next]_(T!vars)
    OBVIOUS
  <2>1. ASSUME UNCHANGED taskVars PROVE UNCHANGED T!vars
    BY <2>1 DEF taskVars, T!vars, T!links
  <2>2. loading # Idle => loading.p \in Procs
    BY CallTyped DEF IInv, LoadCall
  <2>3. CASE LoadTask
    <3>1. loading # Idle
      BY <2>3, CallTyped DEF LoadTask, At, Stages, IInv
    <3>2. loading.p \notin alive /\ mode = "kernel"
      BY <2>2, <2>3, <3>1 DEF LoadTask, At, IInv, TableInv, LoadInProgress, StageObjects, TasksOwned, LoadsInKernel
    <3>3. T!Create(loading.p)
      BY <2>3, <3>2 DEF LoadTask, T!Create
    <3>4. QED
      BY <2>2, <3>1, <3>3 DEF T!Next
  <2>4. CASE LoadFailed
    <3>1. loading # Idle
      BY <2>4, CallTyped DEF LoadFailed, At, Stages, IInv
    <3>2. "task" \in objs[loading.p] => loading.p \in alive /\ mode = "kernel"
      BY <2>2, <3>1 DEF IInv, TableInv, TasksOwned, LoadsInKernel
    <3>3. "task" \in objs[loading.p] => T!Remove(loading.p)
      BY <2>4, <3>2 DEF LoadFailed, T!Remove
    <3>4. QED
      BY <2>1, <2>2, <2>4, <3>1, <3>3 DEF LoadFailed, T!Next
  <2>5. ASSUME NEW i \in Slots, process_terminate(i) PROVE T!Next
    <3>1. processes[i] \in Procs
      BY <2>5, TypesParts DEF process_terminate, IInv
    <3>2. processes[i] \in alive /\ mode = "kernel"
      BY <2>5, <3>1 DEF process_terminate, Ready, IInv, TableInv, LoadedHave, TasksOwned, Loaded
    <3>3. T!Remove(processes[i])
      BY <2>5, <3>2 DEF process_terminate, T!Remove
    <3>4. QED
      BY <3>1, <3>3 DEF T!Next
  <2>6. CASE Schedule
    BY <2>6 DEF Schedule, T!Next
  <2>7. CASE UNCHANGED vars
    BY <2>1, <2>7 DEF vars
  <2>8. CASE process_load_elf \/ process_load_binary \/ LoadStack \/ process_map_memory \/ InjectOne
    BY <2>1, <2>8 DEF process_load_elf, process_load_binary, LoadStack, process_map_memory, InjectOne
  <2>9. ASSUME NEW p \in Procs,
               \/ \E switch \in BOOLEAN : process_load(p, switch)
               \/ \E a \in Addrs : process_free(p, a) \/ \E n \in Pages : process_malloc(p, a, n)
               \/ \E argc \in 1..MaxArgs : process_inject_arguments(p, argc)
        PROVE  UNCHANGED T!vars
    BY <2>1, <2>9 DEF process_load, process_free, process_malloc, process_inject_arguments
  <2>10. QED
    BY <2>3, <2>4, <2>5, <2>6, <2>7, <2>8, <2>9 DEF Next
<1>3. QED
  BY <1>1, <1>2, InvariantHolds, OthersHold, PTL DEF Spec, T!Spec

\* The theorems about the task list, for the tasks of processes.
TP == INSTANCE TaskListProofs
    WITH Tasks <- Procs, Flags <- {0}, MaxCreated <- Cardinality(Procs),
         served <- [p \in Procs |-> {}]

\* Loading and terminating processes keeps the task list in order, and every
\* switch is to a live task, in its own address space, with its own registers.
THEOREM ProcessesSwitchSafely == Spec => []TasksSwitchSafely
<1>a. Cardinality(Procs) \in Nat
  BY ProcessAssumption, FS_CardinalityType
<1>b. TP!TaskAssumption
  BY <1>a, ProcessAssumption DEF TP!TaskAssumption
<1>1. T!Init => TP!IInv
  <2>1. T!Init => TP!Init
    BY DEF T!Init, TP!Init
  <2>2. QED
    BY <1>b, <2>1, TP!InitIInv
<1>2. [T!Next]_(T!vars) => [TP!Next]_(TP!vars)
  <2>1. UNCHANGED T!vars => UNCHANGED TP!vars
    BY DEF T!vars, TP!vars, T!links, TP!links
  <2>2. T!Next => TP!Next
    BY DEF T!Next, TP!Next, T!Create, TP!Create, T!Remove, TP!Remove, T!task_new, TP!task_new,
           T!task_free, TP!task_free, T!task_list_remove, TP!task_list_remove, T!GetNext, TP!GetNext,
           T!Reschedule, TP!Reschedule, T!task_next, TP!task_next, T!RunFirst, TP!RunFirst,
           T!task_run_first_ever_task, TP!task_run_first_ever_task, T!Panic, TP!Panic,
           T!task_switch, TP!task_switch, T!task_return, TP!task_return, T!Trap, TP!Trap,
           T!task_current_save_stat, TP!task_current_save_stat, T!Resume, TP!Resume,
           T!task_page, TP!task_page, T!UserStep, TP!UserStep, T!links, TP!links
  <2>3. QED
    BY <2>1, <2>2
<1>3. TP!IInv /\ [T!Next]_(T!vars) => TP!IInv'
  BY <1>b, <1>2, TP!StepIInv
<1>4. TP!IInv => TasksSwitchSafely
  BY DEF TasksSwitchSafely, TP!IInv, TP!ListMirrorsCreation, T!ListMirrorsCreation, T!Follows, TP!Follows, T!Before, TP!Before,
         T!SwitchSafe, T!CurrentIsLive, TP!CurrentIsLive, T!RunsInOwnSpace, TP!RunsInOwnSpace,
         T!ContextIsOwn, TP!ContextIsOwn
<1>5. QED
  BY <1>1, <1>3, <1>4, ProcessesImplementTaskList, PTL DEF T!Spec
=============================================================================

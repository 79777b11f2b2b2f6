# A verification project for RaOS

RaOS is a small 32-bit x86 kernel in C: a block heap, two-level paging, a FAT16
file system behind a virtual file system, and processes that a round-robin task
switch runs in user land.  This directory holds TLA+ models of it, TLC
configurations that check them on small instances, and TLAPS proofs, for every
instance, about the heap and its loops, the task list, processes, paging, the ELF
loader, the path parser, the descriptor table, `fread`, interrupts and the descriptor
encodings.  Paths below are relative to the repository's `src/` directory unless they
name `README.md`, the repository's own.

## 1. The system

| Component | State | Operations | Interacts with |
|---|---|---|---|
| Kernel heap (`memory/heap`) | one byte per 4096-byte block; the pool | `kheap_init`, `kmalloc`, `kzalloc`, `kfree` | called by everything; the table lies right after the boot sector |
| Paging (`memory/paging`) | directories and tables, heap pages themselves; the directory loaded in cr3 | `paging_new_4gb`, `paging_free_4gb`, `paging_map*`, `paging_get`, `paging_set`, `paging_switch` | heap; tasks; processes |
| Tasks (`task/task.c`, `task.asm`) | doubly linked list, head, tail, `current_task`, saved registers | `task_new`, `task_free`, `task_next`, `task_run_first_ever_task`, `task_current_save_stat`, `task_page`, `copy_string_from_task` | paging; traps from user land |
| Processes (`task/process.c`) | process table, `current_process`, allocation slots, mapped user memory | `process_load*`, `process_terminate`, `process_malloc`, `process_free`, `process_inject_arguments`, `process_switch` | tasks, heap, paging, ELF loader, files |
| ELF loader (`loader`) | a struct with the file's image | `elf_load`, `elf_close` | files, processes |
| Virtual file system (`fs/file.c`) | descriptor table, file systems | `fopen`, `fread`, `fseek`, `fstat`, `fclose`, `fs_resolve` | FAT16 through function pointers |
| FAT16 (`fs/fat`) | `fs_private`, items and descriptors on the heap | resolve, open, read, seek, stat, close | disk streamer |
| Disk and streamer (`disk`) | one disk; a position per stream | `disk_search_and_init`, `diskstreamer_seek`, `diskstreamer_read` | ATA ports |
| Path parser (`fs/pparser.c`) | a list of parts on the heap | `path_parse`, `path_free` | heap; called by `fopen` |
| Terminal and start-up (`kernel.c`, `kernel.asm`) | cursor, screen | `kernel_main`, `print`, `terminal_writechar` | starts everything; the keyboard handler prints too |
| Interrupts (`idt`) | vector table; the processor's flag; the PIC | `idt_init`, `idt_set`, two handlers, `enable_interrupts` | interrupt `kernel_main` anywhere |
| GDT and TSS (`gdt`, `task/tss.h`) | descriptor table | `encode_gdt_entry`, `gdt_load`, `tss_load` | boot |
| Strings, memory, boot, ports | none | byte loops, single instructions | see section 8 | |

### What is hard to get right here

- *Bookkeeping over long call sequences.*  The heap has no allocation headers:
  an allocation ends where the `HAS_NEXT` bits end.  The task list, the process
  table, the descriptor table, the page tables and the heap each hold pointers
  into the others and must agree after any sequence of calls.
- *Partial failure.*  A load has six stages, a mount three, an `fopen` four; each
  may fail after the earlier ones allocated something.
- *Two notions of "current".*  `current_task`, `current_process` and the loaded
  page directory are set by different functions.
- *Edges.*  Requests of 0 bytes, 32-bit wrap-around, the last descriptor, a free
  tail that is too short, a read that crosses a sector or a cluster.
- *Undefined behaviour.*  Two local pointers of `fat16.c` are read unassigned.
- *Interruption.*  `int21h_handler` prints while `kernel_main` may be printing, and
  an interrupt before the table is loaded, or one the PIC is not told of, is the last.
- *Loops without a length.*  Copying a path part, copying an 8.3 name and counting
  the entries of a directory each end at a byte that must be there.

### What makes each component correct

- Heap: the table describes exactly what callers hold; grants are disjoint, of
  the size asked for and within the pool; refusal only without room.
- Paging: mapping changes the pages asked for and no others, in one address
  space; tables are neither leaked nor shared; a copy from a task leaves its
  address space as it was.
- Tasks: the list holds the live tasks; user land runs the current task in its
  own address space with its own registers; turns go round, and nobody gets two while
  another task waits.
- Processes: table and task list agree; what a process in the table points to is
  allocated; its memory is its own and is gone, mapping included, once freed.
- ELF loader: objects and descriptors balance whatever fails, but for the last
  descriptor of the table; a program that runs finds its segments where its headers say.
- Terminal and interrupts: handlers do not nest and all of the master's requests are
  served; the screen is the layout of what was printed.
- Path parser: it stays in its buffers and returns the names of the path.
- Files: a descriptor's objects are live and its own unless a stray pointer got to
  them; a path opens what it names and opens if it exists; a read copies the bytes of
  the file, and returns.

`PROJECT.json` lists the hazards behind these properties with the line where each bites.

## 2. Modules

| Module | Models | Kind |
|---|---|---|
| `HeapTable` | the entry table and the results of the three loops of `heap.c` | operators |
| `Heap` | `kmalloc`, `kfree`, `kfree(NULL)`, `kheap_init` | state machine |
| `HeapLoops` | the loops of `heap.c`, one iteration per step | state machine |
| `Allocator` | what the heap's callers rely on | abstract specification |
| `TaskList` | `task/task.c`, `task/task.asm` | state machine |
| `RoundRobin` | who has had a turn since when, on top of `TaskList` | history variable |
| `Process` | `task/process.c` over an instance of `TaskList` | composition |
| `Paging` | `memory/paging/paging.c`, and `copy_string_from_task` | state machine |
| `AddressSpace` | what paging's callers rely on | abstract specification |
| `Files` | `fs/file.c` and the control of `fs/fat/fat16.c`, mounting | state machine |
| `Status` | the error codes of `status.h` | operators |
| `Fat16Read` | one `fread`: `fat16_read`, the FAT walk, `diskstreamer_read` | state machine |
| `PathParser` | `fs/pparser.c`, one character per step | state machine |
| `Fat16Lookup` | directories on the disk, names and the lookup in `fs/fat/fat16.c`, one slot per step | state machine |
| `OpenPath` | `PathParser` and `Fat16Lookup` as `fopen` calls them | composition |
| `ElfLoader` | `loader/elfloader.c`, `process_load_data` and `process_map_memory` of `task/process.c` | state machine |
| `Terminal` | `kernel.c`, `idt/idt.c`, `idt/idt.asm`, with the PIC as environment | state machine |
| `Descriptors` | the bytes of `encode_gdt_entry` and `idt_set` | operators |
| `HeapProofs` | theorems about `Heap` and `HeapLoops` | proofs |
| `TaskListProofs` | theorems about `TaskList` and `RoundRobin` | proofs |
| `ProcessProofs`, `PagingProofs`, `ElfProofs` | theorems about the module of that name (`ElfLoader` for the last) | proofs |
| `FileSystemProofs` | theorems about `PathParser`, `OpenPath`, `Files` and `Fat16Read` | proofs |
| `TerminalProofs` | theorems about `Terminal` and `Descriptors` | proofs |
| `NatLemmas` | least elements, induction, recursive functions, ranks, quotients | lemmas |
| `MC*` | values of constants for TLC, symmetry sets | model checking |

The names of the source are kept for what they name.  An operator whose comment
begins with "Mutant" is a variant of the definition after it with a plausible
bug; it is used only to see that a property notices that bug.  `PROJECT.json`
maps every definition to the lines it models.

### Heap

`entries` is the table together with the cells below it, down to the one that
`kfree(NULL)` computes: nothing in `heap.c` checks an index.  `held` is the
callers' side, the pointer and number of blocks each owner got.  A call is a
step, because nothing that interrupts the kernel uses the heap.  `Heap` writes
each loop as what it computes; `HeapLoops` runs the loops themselves on every
table that calls can leave behind and shows that they compute that, the bytes
past the table's end included.  `kfree` is called with what `kmalloc` returned,
once, or with `NULL`.

`kfree(NULL)` is worth a remark: it is not a no-op.  `heap_address_to_block`
computes a cell thousands of bytes below the table, and entries are cleared
upwards from there as long as they look like `HAS_NEXT`.  That it does no harm
to the table rests on the boot sector, which ends where the table begins and
has 0x55 as its next to last byte (`NullFreeHarmless`).

### TaskList

A task stands for its struct, its page directory and its instruction stream,
which all live equally long; structs are reused.  A context is told apart by the task
it continues and its flags.

`task.c` checks little, and `task_page`, `task_next` and `task_current_save_stat` have
no caller in the repository at this commit.  The operators of those names do what the
functions do, panics included, and have no guard that the functions lack.  What
they leave to their caller is written where they are called: `Create`, `Remove` and
`RunFirst` say on which structs the kernel may call, and `Trap`, `Reschedule` and
`Resume` are the trap handler that `task.h` is made for (`kernel_page`, save, any calls,
then `task_next`, or `task_page` and `iret`).  These are external and are the
assumptions of everything said about the switch.

`RoundRobin` adds `served`: who was given the processor since a task last had it.
Freeing the current task makes the next one current without running it, and the
`task_next` after that passes it over: it loses that turn (`Forget`).

### Process

`loading` and `injecting` are calls in progress, so every stage of a load is a
step of its own that may fail; what the failure leaves allocated is `objs`, and what
the process can write is `writable`: the addresses it allocated, and its program and
stack once `process_map_memory` has mapped them.  The task list is the real one
(`T == INSTANCE TaskList`), and that `process.c` creates and frees tasks so that list
and switch stay right is the property `TasksSwitchSafely`.  The heap
is reduced to its interface, with one consequence of module `Heap` kept: a request of
0 bytes gets an address that stays free.  The check of `process_load_for_slot` that its
slot is free has no outcome of its own: its only caller, `process_load`, passes the slot
that `process_get_free_slot` has just found.

### Paging

Words, indices and addresses are numbers, so that the arithmetic of
`paging_get_index` and the wrap-around at the end of the address space are those
of the code, at a smaller width.  `Space` is the 2^32 of the machine.  Tables are
pages of the heap.  `copy_string_from_task` is in three steps, because it runs in the
task's own tables between two of its edits of them.

### Files and Fat16Read

`Files` keeps the objects that the two layers allocate for an open file, at addresses,
and who points to them; a call is one step.  `Refusals` lists what may fail in one
`fopen`: the allocation of the path, of the `fat_file_descriptor`, for one part of the
path that of the `fat_item`, of its clone or directory, or the load of the directory,
and that of `struct file_descriptor`.  The outcomes are those of the code: an item
with a `NULL` body that opens all the same, a directory that is freed and returned, an
entry that stays 0 although its index is returned.  The lookup follows the code: a
directory's total, the search of that many entries, the last match, the walk of a path.
A `uint32_t` position and offset keep their wrap-around (`UINT32`).

Two locals of `fat16.c` are read unassigned: `file_descriptor` in `fat16_open`, which a
mode other than "r" frees, and `current_item`, which is returned when the first part of a
path is missing.  The build is `-O0`, so each holds what an earlier call left in its
stack slot: `NULL`, the address of any object, or `Elsewhere`.  `stray` remembers every
address that such a pointer, or one to a directory freed by a failing load, has held.
The properties speak of the descriptors that are `Clear`: none of their addresses was ever
in a stray pointer, and no stray pointer was freed or searched `Elsewhere`.  About the
others nothing can be said, because the code frees or reads through whatever the stack
holds.  Four decisions limit what is followed from there:

- a call on a descriptor whose `fat_file_descriptor` or `fat_item` is gone has no step
  (it reads freed memory);
- a missing part in the middle makes the code read a type through `NULL`, the word at
  address 4, which is taken not to be `FAT_ITEM_TYPE_DIRECTORY`;
- `struct file_descriptor` has no address of its own, so a stray pointer to one counts
  as `Elsewhere`;
- the heap hands out the lowest free address, as first fit does, without counting the
  directories that a lookup allocates and frees on its way.

`Fat16Read` is one call of `fread` with the loop over members, the recursion
over clusters, the walk along the FAT and the sector loop as steps.  A byte is
named by its position on the disk, so "which byte was copied" is visible.  What the
walk reads in place of a FAT entry may be any `int`; a negative one ends the read.

### PathParser, Fat16Lookup and OpenPath

`Files` takes a path as a sequence of names and a directory as a sequence of
entries.  These modules are about how the code gets both from bytes.
`str_path` and `path_part` are the two pointers of `path_get_path_part`; any
`kzalloc` may be refused, and none is checked: the part is then written to
address 0, which is mapped, and parsing ends.  `strings` and `nodes` count the
heap objects.  `Fat16Lookup` has slots of 32 bytes with a name, the byte
after it and a first cluster, so that a name that runs into the next field does so in the
model.  Counting, loading and searching are loops of a step per slot; any `kzalloc` of
them may be refused (`Refused`, and `denied` remembers it).  An index behind what was
loaded, or a directory that is `NULL` or freed, ends in `look = "wild"`, where the heap
decides what happens; a first part that is not found ends in `look = "unset"`, the
unassigned `current_item`.  A disk is `Regular` when every
directory has a blank slot in its first cluster and its names are padded;
`LookupExact` is about those, and the others are in the run as well, for the
parser's properties.  What a path names is read off all slots of a directory, those
behind a deleted entry included: what the lookup finds is always an entry that the path
leads to, and without deleted entries and refusals it is the one that the path names.

### ElfLoader

`Process` has a load as six stages; this module opens two of them, with every
call that `elf_load`, `process_load_binary` and `process_map_memory` make as a
step that may fail, the two unchecked `kzalloc`s included: a refused struct or image
is at address 0.  `fopen` returns one of four kinds of descriptor: 0, one that works, the
last of the table, which `fstat` and `fclose` refuse, and one whose entry is 0.
A file is its size, the verdict of `elf_validate_loaded` and
its program headers; addresses are numbers below `Memory`, where arithmetic wraps around.

### Terminal

`kernel_main` prints with interrupts on, so `terminal_writechar` is cut at every
access to `terminal_row` and `terminal_col`; an increment is a load and a store
(the build is `-O0`), and the order in which the two arguments of `terminal_putchar` are
loaded is left open.  A handler runs with interrupts off (the gates are
interrupt gates) and writes a character in one step.  `torn` says that a handler
has printed inside a `terminal_writechar` of `kernel_main`; from then on the
screen depends on where exactly, and `ScreenIsLayout` claims nothing.  Nor does it
after 65536 rows, when `terminal_row`, which counts on behind the last row of the
screen, wraps around.  Requests
may come at any time, before interrupts are enabled too.  The statements of
`kernel_main` that neither print nor set anything up (`fread`, `fseek`, `fstat`,
`fclose`) are left out, and the second `fopen`, for writing, returns 0.

## 3. Runs that pass

| Run | Properties | What it shows |
|---|---|---|
| `MCHeap` | `TypeOK`, `TableExact`, `NullFreeHarmless`, `ImplementsAllocator` | the table is exact after any calls of three owners; the heap implements `Allocator` |
| `MCHeapLoops` | `LoopResults`, `Terminates` | the loops compute what `HeapTable` says, first fit included, and end |
| `MCTaskList` | `TypeOK`, `ListMirrorsCreation`, `SwitchSafe`, `NobodyIsOvertakenTwice` | the list and the switch are right whichever task is removed, and `task_next` is round robin while tasks come and go |
| `MCProcess` | `TypeOK`, `TablesAgree`, `ObjectsMatchTable`, `UserMemoryExact`, `TasksSwitchSafely` | tables, objects, user memory and the task list agree through failed loads, terminations and allocations |
| `MCPaging` | `TypeOK`, `TablesExact`, `CopySafe`, `ImplementsAddressSpace`, `EditsExact` | two-level tables are address spaces; the copy undoes its mapping |
| `MCFiles` | `TypeOK`, `OwnLiveObjects`, `OpenNamesItsPath`, `OneDescriptorPerCall`, `ExistingOpens`, `LeaksOnlyThere` | whatever fails and whatever the unassigned locals hold: descriptors that no stray pointer got to own live objects and are what their path names; what exists opens; without stray pointers, objects are lost in three cases only |
| `MCFat16Read` | `ReadTypeOK`, `SimpleReadExact`, `Returns` | reads that stay in the first cluster and start a sector, or stay in it, are exact; a negative FAT entry ends the read; every read returns |
| `MCOpenPath` | `InBounds`, `ParseExact`, `ListOwnsObjects`, `LookupExact` | from the characters given to `fopen` to the slot on the disk, with refused allocations |
| `MCElfLoader` | `LoadBooks`, `BoundsExact`, `ProgramMapped` | a load balances its books whatever fails, but for the last descriptor of the table, and a program that runs is mapped as its headers say |
| `MCTerminal` | `TypeOK`, `InterruptsSound`, `ScreenIsLayout`, `EveryRequestServed` | handlers do not nest or come early, nothing is misplaced by an interrupt between two characters, every request of the master is served |

`LoopResults`, `SwitchSafe`, `CopySafe` and `EditsExact` are conjunctions of parts
that the modules name and explain one by one.

### Bounds

- *Heap*: a pool of 5 blocks, three owners, requests of 1, 2, 3 and 6 blocks.
  A hole between two allocations, a tail that is too short, a full pool and a
  request that never fits all occur.  Blocks are 4 bytes so that sizes that are
  not multiples exist; `WordLimit` = 64 is the 2^32.  The proofs remove these bounds.
- *HeapLoops*: all well-formed tables of 5 blocks, requests of 0 to 6 blocks.
- *TaskList*: three structs, five creations, so structs are reused and head,
  middle and tail are removed.
- *Process*: three structs, a table of two slots (so it is full while a third
  loads), two allocation slots and two addresses (so both run out), one argument.
- *Paging*: 3 tables of 3 entries, two chunks, a heap of seven pages (two chunks
  and the page of a copy), two calls of `paging_map_to` (`MaxMaps`) with unaligned
  addresses and a range that wraps around.  Three, not two, so that an index
  computed with the wrong divisor differs.
- *Files*: two descriptors, of which one can be closed again and the other is the last
  one; three `fopen`s (`MaxOpens`), so that the table fills up and entries are reused;
  nine objects (`MaxObjects`), three for each open file, so that the heap never decides;
  `UINT32` = 4 is just above the largest file; a root directory with a file and a
  directory, which holds a file before a deleted entry; a path through a file and one with
  a missing first part.  One stray address (`MaxStray`) is enough to hit any
  object of any descriptor.  States after a wild free or search are generated and checked
  but not followed (`CONSTRAINT HeapSound`): no descriptor is `Clear` in them.  The
  proofs remove these bounds.
- *Fat16Read*: sectors of 3 bytes, clusters of 2 sectors, a file of three
  clusters out of order on the disk; every position, size up to 8 (more than a
  cluster) and up to three members; in place of a FAT entry a cluster, an end of chain or
  a negative number.
- *OpenPath*: all strings of up to three characters of `/`, `a`, `b`, `.` behind
  `0:/`, longer ones with one and two directories, up to exactly `RAOS_MAX_PATH` (8)
  characters, two that are longer than that, other drives and malformed strings; six disks with the same name twice, deleted entries, names of
  full length, a full root directory and a directory longer than its cluster; any
  allocation of the parser and of the lookup refused.
  Names have two bytes and one of extension.
- *ElfLoader*: pages of 4 bytes, files with none, one or two headers over three
  offsets, four addresses (0 and two that are not aligned included), with and without
  bss, in both orders; headers of other types; a segment that wraps around.
- *Terminal*: a screen of 2 by 3; texts that fill a row in the middle and at the
  end; two key presses and one request of the slave, at any time.

`SYMMETRY` is used only in runs without liveness properties, over
names that no definition distinguishes.

`CHECK_DEADLOCK FALSE` is set where the system does stop: `HeapLoops`,
`Fat16Read`, `OpenPath` and `ElfLoader` are one call, `Process` ends in `panic`,
`Terminal` in the idle loop of `kernel_main`, and `TaskList` may have
created all its tasks and freed them (`MaxCreated`).

### Fairness

- `Terminal`: `WF(Main)`, `WF(Handler)` and `WF(Interrupt)`: the processor goes on
  with whatever it is at, and takes an interrupt that is enabled and delivered.
  Nothing is assumed of the devices.
- `HeapLoops`, `Fat16Read`: `WF(Next)`; a kernel call runs to its end, nothing
  preempts it for good.

Nothing is assumed of the task switch: no handler in the repository calls `task_next`, the
timer's only acknowledges the interrupt.  That each task gets its turn is therefore
stated as the safety property `NobodyIsOvertakenTwice`.

## 4. Where the code departs from what is said of it

Each run below checks one statement of a comment or of `README.md` and TLC finds a
behaviour of the code against it.  `PROJECT.json` quotes the statements.

| Run | Property | What the code does |
|---|---|---|
| `MCHeapOverrun` | `GrantInPool` | grants a free tail that is shorter than the request |
| `MCFat16ReadCluster` | `ReadIsFile` | a read that begins inside the first cluster and ends behind it goes on with what lies behind that cluster on the disk (`fat16.c:530`) |

The models contain more such departures.  The statements below are in the
modules and hold no more than those above (name one as INVARIANT or PROPERTY in the
module's configuration to see it), but no run is kept for them:

- `Heap!AtLeastOneBlock` (with a size 0, or one that rounding wraps to 0): the
  two callers come to hold one address.
- `Process!FailedLoadFreesData`: a failed load gives back the task only, under the
  comment "Free the process data" (`task/process.c:525`).
- `Process!WritesOwnOnly`: after requests of 0 bytes two processes come to write one
  block, while `README.md:790` says processes cannot access each other's memory.
- `TaskList!FlagsRestored`: `task_return` takes the flags from the kernel.
- `Process!CurrentAgree`: `current_process` and `current_task` part ways.
- `Paging!ProcessMemoryPrivate`: every process has all physical memory mapped
  readable, while `README.md:790` says they cannot access each other's memory.
- `Terminal!WritesOnScreen`: there is no scrolling, the text goes on behind the last row.
- `Terminal!CursorNeverBack`: a handler that prints inside a `terminal_writechar`
  has its rows taken back, and `kernel_main` writes over them.
- `Terminal!SlaveServed`: only the master is told, so a second request of a line of the
  slave waits for ever; `README.md` says why that must not be left out.
- `ElfLoader!UserWritesOwnPages`: a writable segment that is larger in memory than
  in the file is mapped on into whatever the heap has behind the image.
- `Fat16Read!CopiesDiskBytes`: a read that starts inside a sector and ends in the next
  one copies past the sector buffer.
- `Fat16Read!EntryOfCluster`: the position of a FAT entry is a product, not a sum.

More are plain from the code and modelled as they are: `fat16_read_items_of_directory`
reads every cluster of a file as the first one (`fat16.c:527` uses `start_cluster`).  `fopen` for
writing frees an unassigned pointer, and for a path whose first part is missing it may
succeed with one (`Clear` keeps the properties of `Files` away from what these hit).
A refused `struct file_descriptor` is not noticed, and the index of an entry that is 0 is
returned.  `file_get_descriptor` refuses the last descriptor that `file_new_descriptor` hands
out, so it is never closed, by `elf_load` neither; `fread` returns
members where its comment says bytes; a deleted entry is not counted but is looked
at, so it hides the last entry of its directory (the condition `NoneDeleted` of
`ExistingOpens`).  A name of eight characters runs into its extension, and an
extension of three into the attribute, so a file whose attribute is not a space or zero
then has another name.  `0:/a//b` is parsed as `0:/a`.  A refused `kzalloc` cuts a path
short without an error.  A full root directory is counted on into what follows it.
`fat16_load_fat_directory` returns the directory it has just freed.  `elf_load` keeps
its struct and its image when it fails, takes a segment at address 0 for "none
yet", and never calls `elf_is_executable`.  `path_free` has no caller.

Not modelled, but seen: an entry `..` that refers to cluster 0 leads in front of the
root directory (`DiskAssumption` excludes it); `kernel.asm` announces four
initialisation words to the PIC and sends three, and leaves the slave's vectors among
the processor's exceptions; `int21h_handler` never reads the key from
port 0x60, without which the controller sends no second one.

The passing properties are stated so that they hold in spite of these: for
example `Allocator` promises that a grant starts in the pool, not that it ends
there, `SimpleReadExact` is about reads that the defects of the read path do not
touch, `LookupExact` about disks that are `Regular`, `LeaksOnlyThere` names
the three calls that lose the objects of a descriptor (and no `fopen` ever frees its path, which
`paths` counts), and `LoadBooks` names the descriptor that stays open.

## 5. What is proved

Every theorem below is about all values of the constants that satisfy the named
assumption; the runs of section 3 check the same definitions on one instance.  A proof
module extends all the modules it is about, so the specifications that share one have
names of their own (`LoopsSpec`, `OpenSpec`, `ReadSpec`, and `Spec` for the others).

### `HeapProofs`, about `Heap` and `HeapLoops`

Assumptions: `RequestAssumption` (a bound on the requests of `HeapLoops`), `HeapAssumption` (an aligned pool of at least one block that starts
at least two blocks above address 0 and ends below 2^32; `heap_create` checks the
alignment, `config.h` gives the rest), `CallersAssumption` (sizes are values of
`size_t`), and for everything about `Heap` except types, `NonEmptyRequests`: no request
rounds to 0 blocks.  The last is a hypothesis of the theorems, because the code does not
check it (`AtLeastOneBlock`, section 4).

`TableExact` is not inductive.  The invariant is

    IInv == TypeOK /\ GrantsInTable /\ TableExact /\ NoOverlap /\ NullStops

`GrantsInTable` (a live pointer is the address of a block, its length positive)
makes addresses and blocks correspond (`AddressRoundTrip`).  `TableExact` and
`NoOverlap` need each other: kfree clears exactly its own blocks because their
bytes are exact (`ClearedIsExtent`), and the neighbours' bytes stay because
extents are disjoint.  Disjointness past the end of the pool, where there are no
entries to look at, follows because two overrunning grants would both hold the
last block (`GrantIsDisjoint`).  `NullStops` (some cell below the table has no
`HAS_NEXT` bit) is what `kfree(NULL)` preserves.

Theorems: `TypeCorrect`, `TableAlwaysExact`, `NeverOverlap`,
`NullFreeAlwaysHarmless`, and `HeapImplementsAllocator`: `Spec => A!Spec`, where a
refusal is justified by `RefusalJustified`.

`LoopsComputeTable` is `LoopResults` for tables and requests of any size: the loops of
`heap.c`, one iteration per step, end with what `HeapTable` says in closed form, so the
theorems above do not rest on a bounded check of those forms.  The loop invariant says
which call is running (`CallInv`), that the blocks from `bs` on that were scanned are
free and no fit ends before them (`ScanInv`, `ScannedInv`), and which entries
the marking and the clearing loop have written so far (`MarkInv`, `ClearInv`).

### `TaskListProofs`, about `TaskList` and `RoundRobin`

Assumption: `TaskAssumption` (names are distinct).  The invariant adds to the
four properties and the types `Stamps` (times of creation are distinct among the
live tasks and earlier than the next one) and that the kernel runs with its own
directory loaded; without the latter, `task_free` could free the loaded one.  The list order
is stated with `Follows`, a relation of times of creation, rather than with a
sequence, so that no induction over the list is needed: `LinksAreInverse` shows
next and prev inverse to each other, and `NewKeepsList` and `RemoveKeepsList` treat the two
operations by cases on head and tail.

Theorems: `TypeCorrect`, `ListAlwaysMirrorsCreation`, `SwitchAlwaysSafe`, and the action
property `NobodyEverOvertakenTwice` of `RoundSpec`, for any number of tasks.  The last
rests on `RoundInv`: seen as a circle in the order of creation, the tasks served since
`t` had its turn lie between `t` and the current task (`Between`), so the next one is
not among them.

### `ProcessProofs`, about `Process`

Assumption: `ProcessAssumption`.  `TablesAgree` speaks of the states between calls and
is not inductive: a load is six steps, and each may fail.  The invariant

    IInv == Types /\ TableInv

has in `TableInv` what holds at every stage: which objects the load in progress has
(`LoadInProgress`), that a struct that was never allocated has no objects (`Unused`), that the live tasks are those of loaded processes and
of the one being loaded (`TasksOwned`), one slot per process (`OneSlotEach`), what a
loaded process has (`LoadedHave`), and that `current_process` is in the table.

- `TypeCorrect`, `TablesAlwaysAgree`, `ObjectsAlwaysMatchTable`: no further hypothesis.
  `EndedInv` says what a terminated process may have left.
- `UserMemoryAlwaysExact`, with the hypothesis that no program asks for 0 bytes
  (`0 \notin Pages`): the code does not check it, and section 4 says what it costs
  (`WritesOwnOnly`).  `MemoryInv` is the invariant: heap, slots and writable pages agree
  for every process, and the slots of two processes have no address in common;
  `PagesInv` adds the program and the stack.
- `ProcessesSwitchSafely`, which is `TasksSwitchSafely`.  `Process` calls `T!task_new` and
  `T!task_free` where `process.c` does, without the guards of `T!Create` and `T!Remove`;
  that they would hold there (the struct is free, or it is not) is what `TableInv` and
  `LoadsInKernel` (a load is in the kernel from beginning to end) show.  The theorems of `TaskListProofs`, instantiated for the task list of `Process`, then
  give the result.

### `PagingProofs`, about `Paging`

Assumption: `PagingAssumption` (at least one entry per table, a page that leaves
room for the three flag bits, heap pages that are aligned and not at address 0).  The invariant is

    IInv == Types /\ TablesExact /\ CopyInv

`CopyInv` is what `copy_string_from_task` has changed at each of its stages: exactly one
page of one address space, and the entry it will put back.  The lemmas are about the
arithmetic: `paging_get_index` takes an address to the entry of its page and back, and a
range of `paging_map_range` modulo the number of pages is the set of pages that the
loop visits.

Theorems: `TypeCorrect`, `TablesAlwaysExact`, `CopyAlwaysSafe`; the action property
`EditsAlwaysExact`; and `PagingImplementsAddressSpace`, where the refinement mapping
reads each address space through `paging_get`.

### `ElfProofs`, about `ElfLoader`

Assumption: `ElfAssumption`.  For any number of headers, in any order:

- `LoadBooksHold`.  `BooksInv` is the account of every stage: how many descriptors are
  open (`OneDescriptor`) and which objects exist (`StageObjects`), with the cases in
  which the code leaves the struct or the image behind, or the last descriptor open.
- `BoundsAlwaysExact`.  `BoundsInv` says that inside the loop the bounds are those of
  the headers before the current one.
- `ProgramAlwaysMapped`.  `MapInv` says that inside the loop of `process_map_elf` a page
  is mapped by the last header before the current one that covers it.

The last two are, like the properties, about headers that neither begin at address 0 nor
wrap around.

### `FileSystemProofs`, about `PathParser`, `OpenPath`, `Files` and `Fat16Read`

*PathParser.*  Assumption: `PathAssumption` (`RAOS_MAX_PATH` is 3 at least, the zero byte
is no character of a path).  For strings of any length:

- `AlwaysInBounds`.  The copy loop compares no lengths, so `InBounds` is not inductive.
  `PInv` adds what bounds the copy: from the first part on, the path is at most
  `MaxPath` long, `str_path` is past the three characters of the drive, and a part
  is never longer than the distance from there to `str_path`.  Hence a part has
  at most `MaxPath - 3` characters, and its zero byte fits.
- `AlwaysOwnsObjects`.  `OInv` says in which states which allocation may have been
  refused; a second refusal cannot follow, because the first one ends the parsing.
- `ParseAlwaysExact`.  `NInv` relates the list built so far to the path: there is a
  function that gives for each part the place where it begins, the parts are the
  characters from there to the next slash (`Copied`, `AtEnd`), each begins where the one
  before ends, and the parser stands where the next one begins (`Reached`, `Progress`).

*OpenPath*, that is `PathParser` with `Fat16Lookup`.  Assumption: `DiskAssumption` (a
disk holds the root directory at least, a name has a character, subdirectories begin at
cluster 2 or later).  `LookupAlwaysExact` is `LookupExact` for disks and directories of
any size, any depth of directories and paths of any length, with any refusals and deleted
entries: what is found is an entry that the path leads to, and without either it is
exactly the one named.  `Target` goes down the
whole path, the lookup has one part in hand, so the invariant carries the way down:

    LInv == volume \in Disks /\ (Regular => MountInv /\ \A w : IsChain(w, parts) => SearchInv(w))

A function `w` holds what the first parts of the path name, one part at a
time (`IsChain`, whose last value is `Target`).  `SearchPlace` says which part the
search is at and that it is in the directory that `w` gives for the parts before.
`SearchState` is the invariant of the loop in `fat16_find_item_in_directory`: after `k`
entries, the item is the last of them with the name, as `LastNamed` says; and because
making a `fat_item` for a subdirectory counts and loads that directory inside this loop,
it also has the invariants of those two (`Counting`: all slots so far are in use, and
`count` of them are not deleted; `Loaded`: the entries that a search will visit are those of the
disk).  `MountInv` is the same for the root directory.  `Regular` is what makes the count
end inside the directory, and `ProperName` shows that a padded name is read back as it
was written, so that the comparison of the code is one of names.

*Files.*  Assumption: `FilesAssumption`, of which the part to note is that a directory holds
a name once, as on any sound FAT volume, and that no path has the mark of a deleted entry
as a part.  There is no hypothesis about refused allocations or about what the
unassigned locals hold.

    FInv == TypeOK /\ TableSound /\ DescsSound /\ ItemsSound /\ NamesInv /\ DiskInv

The three middle parts say of one kind of pointer each (from the table to
`fat_file_descriptor`s, from those to `fat_item`s, from those to clones and directories)
that outside `stray` it leads to a live object that no other pointer of the kind leads
to.  They speak of all live objects, not only of those that the table leads to, because
`fopen` with a full table leaves some behind that must not share with the others.
`NamesInv` carries the path of each descriptor.  One lemma per call shows `Good`: the
invariant holds after the call, the call disturbs at most one descriptor of those that
no stray pointer has hit (`Framed`), and every object that is live after it was live
before or belongs to that descriptor (`Saved`), or the call is one of the three that lose
something (`Excused`).  The walk of a path is a recursive function, which the
proof shows to exist before it uses its equations.

Theorems: `FilesTypeCorrect`, `DescriptorsOwnObjects`, `DescriptorsNameTheirPath`, and the
action properties `CallsTouchOneDescriptor`, `NothingElseLeaks` and `EveryExistingOpens`.
The last is shown along the path: `Names` and the walk agree at every part, where every
directory is searched to its end because it holds no deleted entry.

*Fat16Read.*  Assumption: `ReadAssumption` (positive sizes; the data area begins at a
sector, because `end_sector_pos` counts sectors; the chain is long enough for the file).
The words that the disk holds in place of FAT entries are any integers.
`ReadTypeCorrect` and `SimpleReadsExact` need `RInv`, whose parts follow the nested
loops: the request (`RequestInv`), the range of the offset (`RangeInv`), the member
(`MemberInv`), the chunk inside a cluster (`ChunkInv`), the bytes copied so far
(`OutInv`), and for simple reads that these are the bytes of the file in order
(`SimpleInv`, `WholeInv`).  The argument is one of alignment: within a chunk that is
longer than what remains of a sector, the bytes already read are a multiple of
`SectorSize`, so every later call of the stream begins a sector; a chunk that begins
inside a sector is read in one call or is not simple.

### `TerminalProofs`, about `Terminal` and `Descriptors`

*Terminal.*  Assumption: `TerminalAssumption`.

    IInv == TypeOK /\ ColumnInRow /\ AtPrint /\ TableFirst /\ OneFrame

`TypeOK` alone is not inductive: that the column stays in its row rests on the label at
which `terminal_writechar` was interrupted (`ColumnInRow`, `AtPrint`).  `TableFirst` (interrupts
are enabled only after `idt_init`) and `OneFrame` (there is one frame at most, interrupts are off while it exists, and
the PIC has one level in service until that handler tells it) give
`InterruptsAlwaysSound`, for any number of requests of any lines; `TypeCorrect` is for
any screen and texts.

`ScreenAlwaysLayout` is `ScreenIsLayout` for any screen, texts and interrupts.  The
property says nothing while a character is being written, so the invariant `ScreenInv`
has one part for each stretch of `terminal_writechar` (`AtChar`, `AtNewline`, `AtPut`):
which of the character, the new column and the new row have reached memory, and what the
register holds.  `RightBranch` ties the branch taken to the character, and `NoneWithin`
says that a handler that prints inside a `terminal_writechar` is noticed.  `Drawn` is the
layout, with what makes one more character safe: every cell in use comes before the one
of the next character, so nothing is written over.

*Descriptors.*  For all 32-bit values: `SegmentRoundTrip` (what the processor reads from
the eight bytes of `encode_gdt_entry` is the base and the limit, if the guard lets them
pass, and every byte fits), `KernelSegmentsEncode` (the segments of `kernel.c` never
make it panic; the size of `struct tss` is below 64 KB) and `GateRoundTrip` (the address in
a gate of `idt_set`).  These widths are out of TLC's reach, so `Descriptors` has no run.

### `NatLemmas`

The installed provers cannot use an induction theorem that has a predicate as its
parameter.  Where a proof needs induction it is therefore over a *set* of natural numbers
(`SetInduction`), which follows from the well-foundedness of the natural numbers; so do
the existence of recursive functions and of the ranks of the members of a set.

## 6. What is only model-checked

- Liveness under fairness (`Terminates`, `Returns`, `EveryRequestServed`): outside the
  prover, which has neither `ENABLED` nor the rules for fairness.  These three are the
  only properties of the passing runs that no theorem states.
- All that section 4 says: it is shown by behaviours.

## 7. Plan

Done: the heap, the task switch, processes over it, paging, the file system with its
read path; the path parser and the lookup on the disk, the loader, the terminal with
interrupts, and the descriptor encodings; proofs of all invariants and action
properties that the runs check, and of all refinements.  What could come next:

1. A composition of `Heap` and `Paging` (tables allocated by the real allocator), with
   the unchecked failures of `paging_new_4gb` and `task_new`.
2. Streams as objects.

## 8. What is not modelled, and why

- *Failing `task_new` and failing allocations inside `paging_new_4gb`*: an error code
  or address 0 is used as a pointer to a struct; what follows depends on low memory.
- *`fread` on a descriptor of a directory*: the item's union is read as the other member.
- *A lookup that leaves the entries it has loaded, or searches a directory that was
  freed*: what it reads is whatever is on the heap.  `Files` lets it end with any pointer.
- *Calls on a descriptor whose `fat_file_descriptor` or `fat_item` was freed through a stray
  pointer*: they read freed memory.
- *Strings and memory functions* other than `istrncmp` and `tolower`: byte loops
  without state; the models take their results as operators on sequences.
- *`lgdt`, `ltr`, segment registers, the fields of `struct tss`* (which lacks `ss1`, so
  that the later fields are off; only `esp0` and `ss0` are used): single
  instructions and constants.
- *ATA ports, boot sector*: hardware I/O and real-mode code; `disk_read_sector` waits
  for the drive without a time-out and has no error path of its own.
- *`panic`*: it prints and stops.
- *Colours, and the contents of user memory*: no property depends on them.

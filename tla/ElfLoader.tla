------------------------------ MODULE ElfLoader ------------------------------
(***************************************************************************)
(* From a program file to a mapped program: process_load_data and          *)
(* process_map_memory (task/process.c) over elf_load (loader/elfloader.c). *)
(* One call of a lower layer, or one iteration of a loop over the program  *)
(* headers, per step; each call may fail.                                  *)
(*                                                                         *)
(* The file is what the loader looks at: its size, whether                 *)
(* elf_validate_loaded accepts it, and its program headers.  An address is *)
(* a number below Memory, where pointer arithmetic wraps around.  The page *)
(* tables are those of AddressSpace: a function from pages to the frame    *)
(* and the flags.  kzalloc returns whole pages, at addresses the model     *)
(* fixes.  The two kzallocs of elf_load are not checked, so that a refused *)
(* object is at address 0, which the kernel can read and write.            *)
(***************************************************************************)
EXTENDS Integers, Sequences, FiniteSets, FiniteSetsExt

CONSTANTS
    Files,          \* the program files
    PageSize,       \* PAGING_PAGE_SIZE (4096)
    Memory,         \* the size of the address space (2^32)
    ImageAt,        \* the address that kzalloc gives elf_load for the file
    ProgramAt,      \* the address that it gives process_load_binary
    ProgramVirtual, \* RAOS_PROGRAM_VIRTUAL_ADDRESS
    StackVirtual,   \* RAOS_PROGRAM_VIRTUAL_STACK_ADDRESS_END
    StackAt,        \* process->stack
    StackSize       \* RAOS_USER_PROGRAM_STACK_SIZE

\* The fields of a program header that are used, each of 32 bits.
elf32_phdr ==
    [type : STRING, offset : 0..(Memory - 1), vaddr : 0..(Memory - 1), filesz : 0..(Memory - 1),
     memsz : 0..(Memory - 1), write : BOOLEAN]

\* What kzalloc returns ends at least a page below the top of the memory.
ASSUME ElfAssumption ==
    /\ PageSize \in Nat \ {0} /\ Memory % PageSize = 0
    /\ \A a \in {ImageAt, ProgramAt, ProgramVirtual, StackVirtual, StackAt} :
           a % PageSize = 0 /\ a \in 1..(Memory - 1)
    /\ Memory \in Nat /\ StackSize \in Nat
    /\ StackAt + StackSize <= Memory - PageSize /\ StackVirtual + StackSize <= Memory
    /\ \A f \in Files :
          /\ f.size \in 1..(Memory - PageSize - ProgramAt) /\ ProgramVirtual + f.size <= Memory
          /\ f.valid \in BOOLEAN /\ f.headers \in Seq(elf32_phdr)

VARIABLES
    file,           \* the file on the disk
    pc,             \* where the load is
    fd, open,       \* the local fd, as a kind, and the entries of the table it filled
    objects,        \* live heap objects: "elf_file", "image", "program"
    elf_file,       \* the fields of struct elf_file
    i,              \* the header that a loop is at
    filetype,       \* process->filetype
    space,          \* the page tables of the process's task
    res

vars == <<file, pc, fd, open, objects, elf_file, i, filetype, space, res>>

Pages == 0..((Memory \div PageSize) - 1)

UserFlags == {"user"}
UserWrites == {"user", "writable"}

\* task_init maps every page to itself, readable from user land.
InitialPage(p) == [frame |-> p, flags |-> UserFlags]

Init ==
    /\ file \in Files
    /\ pc = "elf_load"
    /\ fd = "none" /\ open = 0 /\ objects = {}
    /\ elf_file = [at |-> 0, memory |-> 0, virtual_base |-> 0, virtual_end |-> 0,
                   physical_base |-> 0, physical_end |-> 0]
    /\ i = 1 /\ filetype = "none"
    /\ space = [p \in Pages |-> InitialPage(p)]
    /\ res = "ok"

-----------------------------------------------------------------------------
(***************************************************************************)
(* elf_load.                                                               *)
(***************************************************************************)
Return(code, stage) == res' = code /\ pc' = stage

(***************************************************************************)
(* What fopen returns: 0; the index of an entry it has filled; the index   *)
(* RAOS_MAX_FILE_DESCRIPTORS of the last entry, which file_get_descriptor  *)
(* refuses; or the index of an entry that is still 0, because the kzalloc  *)
(* of struct file_descriptor, which is not checked, was refused.           *)
(***************************************************************************)
Descriptors == {"none", "entry", "last", "empty"}

Open(d) == fd' = d /\ open' = (IF d \in {"entry", "last"} THEN open + 1 ELSE open)

\* file_get_descriptor finds nothing for the other three.
Usable == fd = "entry"

fclose == open' = (IF Usable THEN open - 1 ELSE open) /\ UNCHANGED fd

\* kzalloc of the struct, then fopen.  The words at address 0 are not zero.
elf_load ==
    /\ pc = "elf_load"
    /\ \/ /\ objects' = objects \cup {"elf_file"}
          /\ elf_file' = [elf_file EXCEPT !.at = 1]
       \/ /\ UNCHANGED objects
          /\ \E word \in {0, Memory - 1} :
                elf_file' = [elf_file EXCEPT !.virtual_base = word, !.virtual_end = word]
    /\ \E d \in Descriptors :
          Open(d) /\ IF d # "none" THEN Return("ok", "stat") ELSE Return("EIO", "elf_out")
    /\ UNCHANGED <<file, i, filetype, space>>

ElfStat ==
    /\ pc = "stat"
    /\ \/ Usable /\ Return("ok", "read")
       \/ Return("EIO", "elf_out")
    /\ UNCHANGED <<file, fd, open, objects, elf_file, i, filetype, space>>

\* kzalloc of the image and fread.  A struct and an image that are both at
\* address 0 would overwrite each other, which is not followed.
ElfRead ==
    /\ pc = "read"
    /\ \/ /\ objects' = objects \cup {"image"}
          /\ elf_file' = [elf_file EXCEPT !.memory = ImageAt]
       \/ /\ elf_file.at # 0
          /\ UNCHANGED <<objects, elf_file>>
    /\ Return("ok", "validate") \/ Return("EIO", "elf_out")
    /\ UNCHANGED <<file, fd, open, i, filetype, space>>

elf_validate_loaded ==
    /\ pc = "validate"
    /\ IF file.valid THEN Return("ok", "pheaders") ELSE Return("EINFORMAT", "elf_out")
    /\ i' = 1
    /\ UNCHANGED <<file, fd, open, objects, elf_file, filetype, space>>

\* Mutant: an address of 0 is not taken for "none yet".
BaseWithoutSentinel(e, h) ==
    LET base == e.virtual_base >= h.vaddr
        end == (h.vaddr + h.filesz) % Memory
    IN  [e EXCEPT
            !.virtual_base = IF base THEN h.vaddr ELSE @,
            !.physical_base = IF base THEN (e.memory + h.offset) % Memory ELSE @,
            !.virtual_end = IF e.virtual_end <= end THEN end ELSE @,
            !.physical_end = IF e.virtual_end <= end
                             THEN (e.memory + h.offset + h.filesz) % Memory ELSE @]

elf_process_phdr_pt_load(e, h) ==
    LET base == e.virtual_base >= h.vaddr \/ e.virtual_base = 0
        end == (h.vaddr + h.filesz) % Memory
        last == e.virtual_end <= end \/ e.virtual_end = 0
    IN  [e EXCEPT
            !.virtual_base = IF base THEN h.vaddr ELSE @,
            !.physical_base = IF base THEN (e.memory + h.offset) % Memory ELSE @,
            !.virtual_end = IF last THEN end ELSE @,
            !.physical_end = IF last THEN (e.memory + h.offset + h.filesz) % Memory ELSE @]

\* One iteration of elf_process_pheaders.
elf_process_pheaders ==
    /\ pc = "pheaders"
    /\ \/ /\ i <= Len(file.headers)
          /\ elf_file' = IF file.headers[i].type = "PT_LOAD"
                         THEN elf_process_phdr_pt_load(elf_file, file.headers[i]) ELSE elf_file
          /\ i' = i + 1 /\ UNCHANGED <<res, pc>>
       \/ i > Len(file.headers) /\ Return("ok", "elf_out") /\ UNCHANGED <<elf_file, i>>
    /\ UNCHANGED <<file, fd, open, objects, filetype, space>>

\* Mutant: a file that is no ELF file is left open.
OutKeepsOpen ==
    /\ pc = "elf_out"
    /\ IF res = "EINFORMAT" THEN UNCHANGED <<fd, open>> ELSE fclose
    /\ \/ res = "ok" /\ filetype' = "elf" /\ pc' = "map"
       \/ res = "EINFORMAT" /\ pc' = "load_binary" /\ UNCHANGED filetype
       \/ res = "EIO" /\ pc' = "failed" /\ UNCHANGED filetype
    /\ UNCHANGED <<file, objects, elf_file, i, space, res>>

\* The label "out" of elf_load, process_load_elf, and process_load_data's
\* choice to take the file for a plain binary.
process_load_data ==
    /\ pc = "elf_out"
    /\ fclose
    /\ \/ res = "ok" /\ filetype' = "elf" /\ pc' = "map"
       \/ res = "EINFORMAT" /\ pc' = "load_binary" /\ UNCHANGED filetype
       \/ res = "EIO" /\ pc' = "failed" /\ UNCHANGED filetype
    /\ UNCHANGED <<file, objects, elf_file, i, space, res>>

-----------------------------------------------------------------------------
(***************************************************************************)
(* process_load_binary: every failure ends at "out", which frees.          *)
(***************************************************************************)
process_load_binary ==
    /\ pc = "load_binary"
    /\ \E d \in Descriptors :
          Open(d) /\ IF d # "none" THEN Return("ok", "binary_data") ELSE Return("EIO", "binary_out")
    /\ UNCHANGED <<file, objects, elf_file, i, filetype, space>>

\* fstat, which needs an entry, kzalloc and fread.
BinaryData ==
    /\ pc = "binary_data"
    /\ \/ UNCHANGED objects /\ Return("EIO", "binary_out")
       \/ Usable /\ UNCHANGED objects /\ Return("ENOMEM", "binary_out")
       \/ Usable /\ objects' = objects \cup {"program"} /\ Return("EIO", "binary_out")
       \/ Usable /\ objects' = objects \cup {"program"} /\ Return("ok", "binary_out")
    /\ filetype' = IF res' = "ok" THEN "binary" ELSE filetype
    /\ UNCHANGED <<file, fd, open, elf_file, i, space>>

BinaryOut ==
    /\ pc = "binary_out"
    /\ fclose
    /\ IF res = "ok" THEN pc' = "map" /\ UNCHANGED objects
                     ELSE pc' = "failed" /\ objects' = objects \ {"program"}
    /\ UNCHANGED <<file, elf_file, i, filetype, space, res>>

-----------------------------------------------------------------------------
(***************************************************************************)
(* process_map_memory.  The stack and the task exist by then (Process).    *)
(***************************************************************************)
Lower(a) == a - (a % PageSize)
Upper(a) == IF a % PageSize = 0 THEN a ELSE (Lower(a) + PageSize) % Memory

\* paging_map_to, for aligned addresses with end >= phys: consecutive pages
\* from virt become the frames of phys to end.
Mapped(virt, phys, end, flags) ==
    LET n == (end - phys) \div PageSize
    IN  [p \in Pages |->
            LET at == (p - (virt \div PageSize)) % Cardinality(Pages)
            IN  IF at < n THEN [frame |-> (phys \div PageSize) + at, flags |-> flags]
                          ELSE space[p]]

\* Mutant: the end of the segment is taken from what the file holds, before
\* the start is moved down to its page.
MapFilePart(h) ==
    LET phys == (elf_file.memory + h.offset) % Memory
    IN  [virt |-> Lower(h.vaddr), phys |-> Lower(phys),
         end |-> Upper((Lower(phys) + h.filesz) % Memory),
         flags |-> IF h.write THEN UserWrites ELSE UserFlags]

\* The arguments of process_map_elf's call of paging_map_to.
SegmentArguments(h) ==
    LET phys == (elf_file.memory + h.offset) % Memory
    IN  [virt |-> Lower(h.vaddr), phys |-> Lower(phys),
         end |-> Upper((phys + h.memsz) % Memory),
         flags |-> IF h.write THEN UserWrites ELSE UserFlags]

\* task_new comes between the load and the first header.
TaskReady ==
    /\ pc = "map"
    /\ i' = 1
    /\ pc' = IF filetype = "elf" THEN "map_elf" ELSE "map_binary"
    /\ UNCHANGED <<file, fd, open, objects, elf_file, filetype, space, res>>

\* One iteration of process_map_elf's loop, over headers of every type.
process_map_elf ==
    /\ pc = "map_elf"
    /\ \/ i > Len(file.headers) /\ pc' = "map_stack" /\ UNCHANGED <<space, i, res>>
       \/ /\ i <= Len(file.headers)
          /\ LET a == SegmentArguments(file.headers[i])
             IN  IF a.end < a.phys
                 THEN Return("EINVARG", "failed") /\ UNCHANGED <<space, i>>
                 ELSE /\ space' = Mapped(a.virt, a.phys, a.end, a.flags)
                      /\ i' = i + 1 /\ UNCHANGED <<res, pc>>
    /\ UNCHANGED <<file, fd, open, objects, elf_file, filetype>>

process_map_binary ==
    /\ pc = "map_binary"
    /\ space' = Mapped(ProgramVirtual, ProgramAt, Upper(ProgramAt + file.size), UserWrites)
    /\ pc' = "map_stack"
    /\ UNCHANGED <<file, fd, open, objects, elf_file, i, filetype, res>>

process_map_memory ==
    /\ pc = "map_stack"
    /\ space' = Mapped(StackVirtual, StackAt, Upper(StackAt + StackSize), UserWrites)
    /\ pc' = "running"
    /\ UNCHANGED <<file, fd, open, objects, elf_file, i, filetype, res>>

\* elf_close does nothing for a struct at address 0.
process_free_program_data ==
    /\ pc = "running"
    /\ pc' = "freed"
    /\ objects' = objects \ (IF filetype = "binary" THEN {"program"}
                             ELSE IF elf_file.at = 0 THEN {} ELSE {"elf_file", "image"})
    /\ UNCHANGED <<file, fd, open, elf_file, i, filetype, space, res>>

Next ==
    \/ elf_load \/ ElfStat \/ ElfRead \/ elf_validate_loaded \/ elf_process_pheaders
    \/ process_load_data \/ process_load_binary \/ BinaryData \/ BinaryOut
    \/ TaskReady \/ process_map_elf \/ process_map_binary \/ process_map_memory
    \/ process_free_program_data

Spec == Init /\ [][Next]_vars

-----------------------------------------------------------------------------
\* What elf_load has allocated.
ElfObjects ==
    (IF elf_file.at = 0 THEN {} ELSE {"elf_file"}) \cup (IF elf_file.memory = 0 THEN {} ELSE {"image"})

(***************************************************************************)
(* The books of a load, whichever call failed: behind elf_load or          *)
(* process_load_binary no descriptor stays open, except that a load which  *)
(* was given the last one fails and leaves it open; a process that runs    *)
(* owns the objects of its filetype; and what is lost is what elf_load     *)
(* allocated, for a file it refused or a struct it did not get.            *)
(***************************************************************************)
LoadBooks ==
    /\ pc \in {"load_binary", "map", "map_elf", "map_binary", "map_stack", "running", "freed"}
          => open = 0
    /\ pc = "failed" => open = IF fd = "last" THEN 1 ELSE 0
    /\ pc \in {"map", "map_elf", "map_binary", "map_stack", "running"} =>
          objects = ElfObjects \cup (IF filetype = "binary" THEN {"program"} ELSE {})
    /\ pc = "failed" => objects = ElfObjects
    /\ pc = "freed" => objects = IF filetype = "elf" /\ elf_file.at # 0 THEN {} ELSE ElfObjects

Loads == {file.headers[n] : n \in {m \in DOMAIN file.headers : file.headers[m].type = "PT_LOAD"}}

(***************************************************************************)
(* Where the program begins and ends, in either kind of address, is what   *)
(* the lowest and the highest PT_LOAD segment say, in whatever order they  *)
(* come; for a struct that kzalloc has zeroed and segments that neither    *)
(* begin at 0, which the code takes for "none yet", nor wrap around.       *)
(***************************************************************************)
BoundsExact ==
    /\ filetype = "elf" /\ elf_file.at # 0 /\ Loads # {}
    /\ \A h \in Loads : /\ h.vaddr > 0 /\ h.vaddr + h.filesz < Memory
                        /\ elf_file.memory + h.offset + h.filesz < Memory
    =>
    /\ elf_file.virtual_base = Min({h.vaddr : h \in Loads})
    /\ elf_file.virtual_end = Max({h.vaddr + h.filesz : h \in Loads})
    /\ \E h \in Loads : /\ h.vaddr = elf_file.virtual_base
                        /\ elf_file.physical_base = elf_file.memory + h.offset
    /\ \E h \in Loads : /\ h.vaddr + h.filesz = elf_file.virtual_end
                        /\ elf_file.physical_end = elf_file.memory + h.offset + h.filesz

PagesOf(a, size) == IF size = 0 THEN {} ELSE (a \div PageSize)..((a + size - 1) \div PageSize)

\* A header that can be mapped page by page: address and offset agree modulo
\* the page size, and nothing wraps around.
WellFormed(h) ==
    /\ h.vaddr % PageSize = h.offset % PageSize
    /\ h.vaddr + h.memsz <= Memory
    /\ elf_file.memory + h.offset + h.memsz <= Memory - PageSize
    /\ h.memsz = 0 => h.vaddr % PageSize = 0

\* The page that a segment of the image, the binary or the stack has at p.
Frame(p, virt, phys, flags) ==
    [frame |-> (phys \div PageSize) + p - (virt \div PageSize), flags |-> flags]

ElfPage(p) ==
    LET over == {n \in DOMAIN file.headers : p \in PagesOf(file.headers[n].vaddr, file.headers[n].memsz)}
        h == file.headers[Max(over)]
    IN  IF over = {} THEN InitialPage(p)
        ELSE Frame(p, h.vaddr, elf_file.memory + h.offset, IF h.write THEN UserWrites ELSE UserFlags)

BinaryPage(p) ==
    IF p \in PagesOf(ProgramVirtual, file.size) THEN Frame(p, ProgramVirtual, ProgramAt, UserWrites)
    ELSE InitialPage(p)

(***************************************************************************)
(* A program that runs finds every byte of its segments at its address, of *)
(* the last segment where two meet in a page, writable only if the header  *)
(* says so; it finds its stack; and every other page is as task_init made  *)
(* it, not writable.                                                       *)
(***************************************************************************)
ProgramMapped ==
    pc = "running" /\ (filetype = "elf" => \A n \in DOMAIN file.headers : WellFormed(file.headers[n]))
    =>
    space = [p \in Pages |->
                IF p \in PagesOf(StackVirtual, StackSize) THEN Frame(p, StackVirtual, StackAt, UserWrites)
                ELSE IF filetype = "elf" THEN ElfPage(p) ELSE BinaryPage(p)]

(***************************************************************************)
(* What the documentation says and the code does not do.                   *)
(***************************************************************************)

\* README.md: "all processes cannot access each others memory"; but a segment
\* that is larger than its part of the file is mapped on into the heap.
UserWritesOwnPages ==
    \A p \in Pages : "writable" \in space[p].flags =>
        space[p].frame \in PagesOf(StackAt, StackSize)
            \cup (IF filetype = "elf" THEN PagesOf(elf_file.memory, file.size)
                                      ELSE PagesOf(ProgramAt, file.size))
=============================================================================

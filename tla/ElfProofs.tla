------------------------------ MODULE ElfProofs ------------------------------
(***************************************************************************)
(* Theorems about loading a program, for files with any number of headers  *)
(* and any size of pages and memory.                                       *)
(***************************************************************************)
EXTENDS ElfLoader, NatLemmas, FiniteSetTheorems

-----------------------------------------------------------------------------
(***************************************************************************)
(* The books.                                                              *)
(***************************************************************************)
ElfStages == {"stat", "read", "validate", "pheaders"}
MapStages == {"map", "map_elf", "map_binary", "map_stack", "running"}
Program == IF filetype = "binary" THEN {"program"} ELSE {}

\* The descriptor that is open is the local one; a load with one that cannot
\* be used comes no further than fstat.
OneDescriptor ==
    /\ fd \in Descriptors
    /\ pc = "elf_load" => fd = "none" /\ open = 0
    /\ pc \in ElfStages \cup {"elf_out", "binary_data", "binary_out"} =>
          open = IF fd \in {"entry", "last"} THEN 1 ELSE 0
    /\ pc \in {"read", "validate", "pheaders"} => fd = "entry"
    /\ pc \in {"elf_out", "binary_out"} /\ res \in {"ok", "EINFORMAT"} => fd = "entry"
    /\ pc \in MapStages \cup {"load_binary"} => fd = "entry" /\ open = 0
    /\ pc = "failed" => open = IF fd = "last" THEN 1 ELSE 0
    /\ pc = "freed" => open = 0

\* At each stage, the objects that the calls before it have left.
StageObjects ==
    /\ pc = "elf_load" => elf_file.at = 0 /\ elf_file.memory = 0
    /\ pc \in {"elf_load", "elf_out", "load_binary", "binary_data"} \cup ElfStages =>
          objects = ElfObjects /\ filetype = "none"
    /\ pc = "binary_out" =>
          IF res = "ok" THEN filetype = "binary" /\ objects = ElfObjects \cup {"program"}
                        ELSE filetype = "none" /\ objects \ {"program"} = ElfObjects
    /\ pc \in MapStages => objects = ElfObjects \cup Program /\ filetype \in {"elf", "binary"}
    /\ pc = "map_elf" => filetype = "elf"
    /\ pc = "failed" => objects = ElfObjects
    /\ pc = "freed" => objects = IF filetype = "elf" /\ elf_file.at # 0 THEN {} ELSE ElfObjects

BooksInv == OneDescriptor /\ StageObjects

\* The struct, the file and the loop index have their types.
ElfFile == [at : {0, 1}, memory : {0, ImageAt}, virtual_base : Nat, virtual_end : Nat,
            physical_base : Nat, physical_end : Nat]

TypeInv ==
    /\ file \in Files /\ elf_file \in ElfFile
    /\ i \in Nat \ {0}

LEMMA Constants ==
    /\ Memory \in Nat /\ Memory > 1 /\ PageSize \in Nat \ {0}
    /\ ImageAt \in 1..(Memory - 1)
    /\ \A f \in Files : f.headers \in Seq(elf32_phdr)
BY ElfAssumption

LEMMA HeaderTyped ==
    ASSUME NEW f \in Files, NEW n \in Nat \ {0}, n <= Len(f.headers)
    PROVE  f.headers[n] \in elf32_phdr /\ n \in DOMAIN f.headers
<1>1. f.headers \in Seq(elf32_phdr)
  BY Constants
<1>2. QED
  BY <1>1

\* What a header changes in the struct.
LEMMA PhdrFields ==
    ASSUME NEW e \in ElfFile, NEW h \in elf32_phdr
    PROVE  LET base == e.virtual_base >= h.vaddr \/ e.virtual_base = 0
               end == (h.vaddr + h.filesz) % Memory
               last == e.virtual_end <= end \/ e.virtual_end = 0
               n == elf_process_phdr_pt_load(e, h)
           IN  /\ n \in ElfFile /\ n.at = e.at /\ n.memory = e.memory
               /\ n.virtual_base = IF base THEN h.vaddr ELSE e.virtual_base
               /\ n.physical_base = IF base THEN (e.memory + h.offset) % Memory ELSE e.physical_base
               /\ n.virtual_end = IF last THEN end ELSE e.virtual_end
               /\ n.physical_end = IF last THEN (e.memory + h.offset + h.filesz) % Memory
                                           ELSE e.physical_end
<1> DEFINE end == (h.vaddr + h.filesz) % Memory
           pb == (e.memory + h.offset) % Memory
           pe == (e.memory + h.offset + h.filesz) % Memory
<1>1. /\ e.memory \in Nat /\ h.offset \in Nat /\ h.filesz \in Nat /\ h.vaddr \in Nat
      /\ e.virtual_base \in Nat /\ e.virtual_end \in Nat
  BY Constants DEF ElfFile, elf32_phdr
<1>2. end \in Nat /\ pb \in Nat /\ pe \in Nat
  <2>1. \A a \in Nat : a % Memory \in Nat
    BY Constants, DivMod
  <2>2. QED
    BY <1>1, <2>1
<1> HIDE DEF end, pb, pe
<1>3. elf_process_phdr_pt_load(e, h) =
        [e EXCEPT !.virtual_base = IF e.virtual_base >= h.vaddr \/ e.virtual_base = 0 THEN h.vaddr ELSE @,
                  !.physical_base = IF e.virtual_base >= h.vaddr \/ e.virtual_base = 0 THEN pb ELSE @,
                  !.virtual_end = IF e.virtual_end <= end \/ e.virtual_end = 0 THEN end ELSE @,
                  !.physical_end = IF e.virtual_end <= end \/ e.virtual_end = 0 THEN pe ELSE @]
  BY DEF elf_process_phdr_pt_load, end, pb, pe
<1>4. QED
  BY <1>1, <1>2, <1>3 DEF ElfFile, end, pb, pe

LEMMA TypeInit == Init => TypeInv
BY DEF Init, TypeInv, ElfFile

LEMMA TypeStep == TypeInv /\ [Next]_vars => TypeInv'
<1> SUFFICES ASSUME TypeInv, [Next]_vars PROVE TypeInv'
  OBVIOUS
<1>1. CASE elf_load
  <2>1. \A w \in {0, Memory - 1} : w \in Nat
    BY Constants
  <2>2. elf_file' \in ElfFile
    BY <1>1, <2>1 DEF elf_load, TypeInv, ElfFile
  <2>3. QED
    BY <1>1, <2>2 DEF elf_load, TypeInv
<1>2. CASE ElfRead
  BY <1>2 DEF ElfRead, TypeInv, ElfFile
<1>3. CASE elf_process_pheaders
  <2>1. CASE i > Len(file.headers) /\ UNCHANGED <<elf_file, i>>
    BY <1>3, <2>1 DEF elf_process_pheaders, TypeInv
  <2>2. CASE /\ i <= Len(file.headers) /\ i' = i + 1
             /\ elf_file' = IF file.headers[i].type = "PT_LOAD"
                            THEN elf_process_phdr_pt_load(elf_file, file.headers[i]) ELSE elf_file
    <3>1. file.headers[i] \in elf32_phdr
      BY <2>2, HeaderTyped DEF TypeInv
    <3>2. elf_file' \in ElfFile
      BY <2>2, <3>1, PhdrFields DEF TypeInv
    <3>3. QED
      BY <1>3, <2>2, <3>2 DEF elf_process_pheaders, TypeInv
  <2>3. QED
    BY <1>3, <2>1, <2>2 DEF elf_process_pheaders
<1>4. CASE elf_validate_loaded \/ TaskReady
  BY <1>4 DEF elf_validate_loaded, TaskReady, TypeInv
<1>5. CASE process_map_elf
  BY <1>5 DEF process_map_elf, TypeInv
<1>6. CASE \/ ElfStat \/ process_load_data \/ process_load_binary \/ BinaryData \/ BinaryOut
           \/ process_map_binary \/ process_map_memory \/ process_free_program_data
  BY <1>6 DEF ElfStat, process_load_data, process_load_binary, BinaryData, BinaryOut,
              process_map_binary, process_map_memory, process_free_program_data, TypeInv
<1>7. CASE UNCHANGED vars
  BY <1>7 DEF vars, TypeInv
<1>8. QED
  BY <1>1, <1>2, <1>3, <1>4, <1>5, <1>6, <1>7 DEF Next

LEMMA BooksInit == Init => BooksInv
BY DEF Init, BooksInv, OneDescriptor, StageObjects, ElfObjects, ElfStages, MapStages, Descriptors

\* Headers leave the objects alone.
LEMMA PhdrObjects ==
    ASSUME TypeInv, elf_process_pheaders
    PROVE  ElfObjects' = ElfObjects
<1>1. ASSUME i <= Len(file.headers)
      PROVE  LET e == elf_process_phdr_pt_load(elf_file, file.headers[i])
             IN  e.at = elf_file.at /\ e.memory = elf_file.memory
  BY <1>1, HeaderTyped, PhdrFields DEF TypeInv
<1>2. QED
  BY <1>1 DEF elf_process_pheaders, ElfObjects

LEMMA BooksStep == TypeInv /\ BooksInv /\ [Next]_vars => BooksInv'
<1> SUFFICES ASSUME TypeInv, BooksInv, [Next]_vars PROVE BooksInv'
  OBVIOUS
<1> USE DEF BooksInv, OneDescriptor, StageObjects, ElfStages, MapStages, Program, Descriptors, Usable
<1>1. CASE elf_load
  <2>1. ElfObjects' = objects'
    <3>1. objects = {} /\ elf_file.at = 0 /\ elf_file.memory = 0
      BY <1>1 DEF elf_load, ElfObjects
    <3>2. CASE objects' = objects \cup {"elf_file"} /\ elf_file' = [elf_file EXCEPT !.at = 1]
      BY <3>1, <3>2 DEF TypeInv, ElfFile, ElfObjects
    <3>3. ASSUME NEW word, objects' = objects,
                 elf_file' = [elf_file EXCEPT !.virtual_base = word, !.virtual_end = word]
          PROVE  ElfObjects' = objects'
      BY <3>1, <3>3 DEF TypeInv, ElfFile, ElfObjects
    <3>4. QED
      BY <1>1, <3>2, <3>3 DEF elf_load
  <2>2. QED
    BY <1>1, <2>1 DEF elf_load, Open, Return
<1>2. CASE ElfRead
  <2>1. objects' = ElfObjects'
    BY <1>2, Constants DEF ElfRead, TypeInv, ElfFile, ElfObjects
  <2>2. QED
    BY <1>2, <2>1 DEF ElfRead, Return
<1>3. CASE elf_process_pheaders
  BY <1>3, PhdrObjects DEF elf_process_pheaders, Return
<1>4. ASSUME UNCHANGED elf_file PROVE ElfObjects' = ElfObjects
  BY <1>4 DEF ElfObjects
<1>5. CASE ElfStat \/ elf_validate_loaded
  BY <1>4, <1>5 DEF ElfStat, elf_validate_loaded, Return
<1>6. CASE process_load_data
  BY <1>4, <1>6 DEF process_load_data, fclose
<1>7. CASE process_load_binary
  <2>1. CASE /\ fd' \in Descriptors \ {"none"} /\ pc' = "binary_data"
             /\ open' = IF fd' \in {"entry", "last"} THEN open + 1 ELSE open
    BY <1>4, <1>7, <2>1 DEF process_load_binary
  <2>2. CASE fd' = "none" /\ open' = open /\ res' = "EIO" /\ pc' = "binary_out"
    BY <1>4, <1>7, <2>2 DEF process_load_binary, ElfObjects
  <2>3. QED
    BY <1>7, <2>1, <2>2 DEF process_load_binary, Open, Return
<1>8. CASE BinaryData
  BY <1>4, <1>8 DEF BinaryData, Return, ElfObjects
<1>9. CASE BinaryOut
  <2>1. OneDescriptor'
    BY <1>9 DEF BinaryOut, fclose
  <2>2. StageObjects'
    BY <1>4, <1>9 DEF BinaryOut, fclose
  <2>3. QED
    BY <2>1, <2>2
<1>10. CASE TaskReady
  BY <1>4, <1>10 DEF TaskReady
<1>11. CASE process_map_elf
  BY <1>4, <1>11 DEF process_map_elf, Return
<1>12. CASE process_map_binary \/ process_map_memory
  BY <1>4, <1>12 DEF process_map_binary, process_map_memory
<1>13. CASE process_free_program_data
  BY <1>4, <1>13 DEF process_free_program_data, ElfObjects
<1>14. CASE UNCHANGED vars
  BY <1>4, <1>14 DEF vars
<1>15. QED
  BY <1>1, <1>2, <1>3, <1>5, <1>6, <1>7, <1>8, <1>9, <1>10, <1>11, <1>12, <1>13, <1>14 DEF Next

-----------------------------------------------------------------------------
(***************************************************************************)
(* The bounds of the program, after any number of headers.                 *)
(***************************************************************************)
NoWrap(h) ==
    /\ h.vaddr > 0 /\ h.vaddr + h.filesz < Memory
    /\ elf_file.memory + h.offset + h.filesz < Memory

\* elf_file has the bounds of the headers in S.
BoundsOf(S) ==
    /\ S = {} => elf_file.virtual_base = 0 /\ elf_file.virtual_end = 0
    /\ S # {} /\ (\A h \in S : NoWrap(h)) =>
          /\ \A h \in S : elf_file.virtual_base <= h.vaddr /\ h.vaddr + h.filesz <= elf_file.virtual_end
          /\ \E h \in S : /\ h.vaddr = elf_file.virtual_base
                          /\ elf_file.physical_base = elf_file.memory + h.offset
          /\ \E h \in S : /\ h.vaddr + h.filesz = elf_file.virtual_end
                          /\ elf_file.physical_end = elf_file.memory + h.offset + h.filesz

LoadsBefore(n) ==
    {file.headers[m] : m \in {k \in DOMAIN file.headers : k < n /\ file.headers[k].type = "PT_LOAD"}}

BoundsInv ==
    /\ pc = "elf_load" => elf_file.virtual_base = 0 /\ elf_file.virtual_end = 0
    /\ elf_file.at # 0 =>
        /\ pc \in {"stat", "read", "validate"} =>
              elf_file.virtual_base = 0 /\ elf_file.virtual_end = 0
        /\ pc = "pheaders" => BoundsOf(LoadsBefore(i))
        /\ (pc = "elf_out" /\ res = "ok") \/ filetype = "elf" => BoundsOf(Loads)

LEMMA LoadsTyped ==
    ASSUME TypeInv
    PROVE  /\ Loads \subseteq elf32_phdr /\ \A n \in Nat : LoadsBefore(n) \subseteq elf32_phdr
           /\ LoadsBefore(1) = {}
           /\ i > Len(file.headers) => LoadsBefore(i) = Loads
           /\ i <= Len(file.headers) =>
                 LoadsBefore(i + 1) = LoadsBefore(i) \cup
                    (IF file.headers[i].type = "PT_LOAD" THEN {file.headers[i]} ELSE {})
<1>1. /\ file.headers \in Seq(elf32_phdr) /\ Len(file.headers) \in Nat
      /\ DOMAIN file.headers = 1..Len(file.headers)
      /\ i \in Nat \ {0}
  BY Constants DEF TypeInv
<1>2. \A n \in DOMAIN file.headers : file.headers[n] \in elf32_phdr
  BY <1>1
<1>3. Loads \subseteq elf32_phdr /\ \A n \in Nat : LoadsBefore(n) \subseteq elf32_phdr
  BY <1>2 DEF Loads, LoadsBefore
<1>4. LoadsBefore(1) = {}
  BY <1>1 DEF LoadsBefore
<1>5. ASSUME i > Len(file.headers) PROVE LoadsBefore(i) = Loads
  <2>1. \A k \in DOMAIN file.headers : k < i
    BY <1>1, <1>5
  <2>2. QED
    BY <2>1 DEF LoadsBefore, Loads
<1>6. ASSUME i <= Len(file.headers)
      PROVE  LoadsBefore(i + 1) = LoadsBefore(i) \cup
                (IF file.headers[i].type = "PT_LOAD" THEN {file.headers[i]} ELSE {})
  <2>1. i \in DOMAIN file.headers /\ \A k \in DOMAIN file.headers : k < i + 1 <=> k < i \/ k = i
    BY <1>1, <1>6
  <2>2. QED
    BY <2>1 DEF LoadsBefore
<1>7. QED
  BY <1>3, <1>4, <1>5, <1>6

\* One more header.
LEMMA PhdrBounds ==
    ASSUME TypeInv, NEW S \in SUBSET elf32_phdr, BoundsOf(S), NEW h \in elf32_phdr,
           elf_file' = elf_process_phdr_pt_load(elf_file, h)
    PROVE  BoundsOf(S \cup {h})'
<1> DEFINE n == elf_process_phdr_pt_load(elf_file, h)
<1>1. /\ n.memory = elf_file.memory
      /\ n.virtual_base = IF elf_file.virtual_base >= h.vaddr \/ elf_file.virtual_base = 0
                          THEN h.vaddr ELSE elf_file.virtual_base
      /\ n.physical_base = IF elf_file.virtual_base >= h.vaddr \/ elf_file.virtual_base = 0
                           THEN (elf_file.memory + h.offset) % Memory ELSE elf_file.physical_base
      /\ n.virtual_end = IF elf_file.virtual_end <= (h.vaddr + h.filesz) % Memory \/ elf_file.virtual_end = 0
                         THEN (h.vaddr + h.filesz) % Memory ELSE elf_file.virtual_end
      /\ n.physical_end = IF elf_file.virtual_end <= (h.vaddr + h.filesz) % Memory \/ elf_file.virtual_end = 0
                          THEN (elf_file.memory + h.offset + h.filesz) % Memory ELSE elf_file.physical_end
  BY PhdrFields DEF TypeInv
<1>2. /\ elf_file.memory \in Nat /\ elf_file.virtual_base \in Nat /\ elf_file.virtual_end \in Nat
      /\ \A g \in S \cup {h} : g.vaddr \in Nat /\ g.filesz \in Nat /\ g.offset \in Nat
  BY Constants DEF TypeInv, ElfFile, elf32_phdr
<1> HIDE DEF n
<1>3. elf_file' = n
  BY DEF n
<1> SUFFICES ASSUME \A g \in S \cup {h} : NoWrap(g)'
             PROVE  /\ \A g \in S \cup {h} : n.virtual_base <= g.vaddr /\ g.vaddr + g.filesz <= n.virtual_end
                    /\ \E g \in S \cup {h} : /\ g.vaddr = n.virtual_base
                                            /\ n.physical_base = n.memory + g.offset
                    /\ \E g \in S \cup {h} : /\ g.vaddr + g.filesz = n.virtual_end
                                            /\ n.physical_end = n.memory + g.offset + g.filesz
  BY <1>3 DEF BoundsOf
<1>4. \A g \in S \cup {h} : NoWrap(g)
  BY <1>1, <1>3 DEF NoWrap
<1>5. \A a \in Nat : a < Memory => a % Memory = a
  BY Constants
<1>6. /\ (h.vaddr + h.filesz) % Memory = h.vaddr + h.filesz
      /\ (elf_file.memory + h.offset) % Memory = elf_file.memory + h.offset
      /\ (elf_file.memory + h.offset + h.filesz) % Memory = elf_file.memory + h.offset + h.filesz
  <2>1. /\ h.vaddr + h.filesz \in Nat /\ h.vaddr + h.filesz < Memory
        /\ elf_file.memory + h.offset \in Nat /\ elf_file.memory + h.offset < Memory
        /\ elf_file.memory + h.offset + h.filesz \in Nat /\ elf_file.memory + h.offset + h.filesz < Memory
    BY <1>2, <1>4, Constants DEF NoWrap
  <2>2. QED
    BY <1>5, <2>1
<1>7. CASE S = {}
  <2>1. elf_file.virtual_base = 0 /\ elf_file.virtual_end = 0
    BY <1>7 DEF BoundsOf
  <2>2. QED
    BY <1>1, <1>2, <1>6, <1>7, <2>1
<1>8. CASE S # {}
  <2>1. /\ \A g \in S : elf_file.virtual_base <= g.vaddr /\ g.vaddr + g.filesz <= elf_file.virtual_end
        /\ \E g \in S : g.vaddr = elf_file.virtual_base /\ elf_file.physical_base = elf_file.memory + g.offset
        /\ \E g \in S : /\ g.vaddr + g.filesz = elf_file.virtual_end
                        /\ elf_file.physical_end = elf_file.memory + g.offset + g.filesz
    BY <1>4, <1>8 DEF BoundsOf
  <2>2. elf_file.virtual_base > 0 /\ elf_file.virtual_end > 0
    BY <1>2, <1>4, <2>1 DEF NoWrap
  <2>3. \A g \in S \cup {h} : n.virtual_base <= g.vaddr
    BY <1>1, <1>2, <2>1, <2>2
  <2>4. \A g \in S \cup {h} : g.vaddr + g.filesz <= n.virtual_end
    BY <1>1, <1>2, <1>6, <2>1, <2>2
  <2>5. \E g \in S \cup {h} : g.vaddr = n.virtual_base /\ n.physical_base = n.memory + g.offset
    BY <1>1, <1>6, <2>1, <2>2
  <2>6. \E g \in S \cup {h} : /\ g.vaddr + g.filesz = n.virtual_end
                            /\ n.physical_end = n.memory + g.offset + g.filesz
    BY <1>1, <1>6, <2>1, <2>2
  <2>7. QED
    BY <2>3, <2>4, <2>5, <2>6
<1>9. QED
  BY <1>7, <1>8

LEMMA BoundsInit == Init => BoundsInv
BY DEF Init, BoundsInv

LEMMA BoundsStep == TypeInv /\ BooksInv /\ BoundsInv /\ [Next]_vars => BoundsInv'
<1> DEFINE Zero == elf_file.virtual_base = 0 /\ elf_file.virtual_end = 0
           Goal == /\ pc' \in {"stat", "read", "validate"} => Zero'
                   /\ pc' = "pheaders" => BoundsOf(LoadsBefore(i))'
                   /\ (pc' = "elf_out" /\ res' = "ok") \/ filetype' = "elf" => BoundsOf(Loads)'
<1> SUFFICES ASSUME TypeInv, BooksInv, BoundsInv, [Next]_vars PROVE BoundsInv'
  OBVIOUS
<1>a. elf_file \in ElfFile
  BY DEF TypeInv
<1>b. elf_file.at # 0 =>
        /\ pc \in {"stat", "read", "validate"} => Zero
        /\ pc = "pheaders" => BoundsOf(LoadsBefore(i))
        /\ (pc = "elf_out" /\ res = "ok") \/ filetype = "elf" => BoundsOf(Loads)
  BY DEF BoundsInv
<1>c. pc \in {"elf_load", "stat", "read", "validate", "pheaders", "elf_out", "load_binary", "binary_data"} =>
        filetype = "none"
  BY DEF BooksInv, StageObjects, ElfStages
<1>d. i \in Nat \ {0} /\ Len(file.headers) \in Nat
  BY Constants DEF TypeInv
<1>2. ASSUME UNCHANGED <<file, elf_file>> PROVE BoundsOf(Loads)' <=> BoundsOf(Loads)
  BY <1>2 DEF BoundsOf, Loads, NoWrap
<1>1. CASE UNCHANGED vars
  <2>1. UNCHANGED <<file, elf_file, pc, res, filetype, i>>
    BY <1>1 DEF vars
  <2>2. BoundsOf(LoadsBefore(i))' <=> BoundsOf(LoadsBefore(i))
    BY <2>1 DEF BoundsOf, LoadsBefore, NoWrap
  <2>3. QED
    BY <1>2, <2>1, <2>2 DEF BoundsInv
<1> SUFFICES ASSUME Next PROVE BoundsInv'
  BY <1>1
<1> SUFFICES ASSUME elf_file'.at # 0 PROVE Goal
  <2>1. pc' # "elf_load"
    <3>1. elf_process_pheaders \/ process_map_elf => pc' # "elf_load"
      BY DEF elf_process_pheaders, process_map_elf, Return
    <3>2. (\/ elf_load \/ ElfStat \/ ElfRead \/ elf_validate_loaded \/ process_load_data
           \/ process_load_binary \/ BinaryData \/ BinaryOut) => pc' # "elf_load"
      BY DEF elf_load, ElfStat, ElfRead, elf_validate_loaded, process_load_data, process_load_binary,
             BinaryData, BinaryOut, Return
    <3>3. TaskReady \/ process_map_binary \/ process_map_memory \/ process_free_program_data
            => pc' # "elf_load"
      BY DEF TaskReady, process_map_binary, process_map_memory, process_free_program_data
    <3>4. QED
      BY <3>1, <3>2, <3>3 DEF Next
  <2>2. QED
    BY <2>1 DEF BoundsInv
<1>3. CASE elf_load
  <2>1. Zero /\ elf_file.at = 0
    BY <1>3 DEF elf_load, BoundsInv, BooksInv, StageObjects
  <2>2. elf_file' = [elf_file EXCEPT !.at = 1]
    BY <1>3, <1>a, <2>1 DEF elf_load, ElfFile
  <2>3. Zero'
    BY <1>a, <2>1, <2>2 DEF ElfFile
  <2>4. QED
    BY <1>3, <1>c, <2>3 DEF elf_load, Return
<1>4. CASE ElfStat
  BY <1>4, <1>b, <1>c DEF ElfStat, Return
<1>5. CASE ElfRead
  <2>1. Zero' /\ elf_file'.at = elf_file.at
    BY <1>5, <1>a, <1>b DEF ElfRead, ElfFile
  <2>2. QED
    BY <1>5, <1>c, <2>1 DEF ElfRead, Return
<1>6. CASE elf_validate_loaded
  <2>1. LoadsBefore(i)' = {}
    <3>1. LoadsBefore(1) = {}
      BY LoadsTyped
    <3>2. QED
      BY <1>6, <3>1 DEF elf_validate_loaded, LoadsBefore
  <2>2. BoundsOf(LoadsBefore(i))'
    BY <1>6, <1>b, <2>1 DEF elf_validate_loaded, BoundsOf
  <2>3. QED
    BY <1>6, <1>c, <2>2 DEF elf_validate_loaded, Return
<1>7. CASE elf_process_pheaders
  <2>1. filetype' = "none" /\ file' = file
    BY <1>7, <1>c DEF elf_process_pheaders
  <2>2. CASE i > Len(file.headers) /\ pc' = "elf_out" /\ UNCHANGED <<elf_file, i>>
    <3>1. BoundsOf(Loads)
      BY <1>7, <1>b, <2>2, LoadsTyped DEF elf_process_pheaders
    <3>2. QED
      BY <1>2, <2>1, <2>2, <3>1
  <2>3. CASE i <= Len(file.headers) /\ file.headers[i].type # "PT_LOAD" /\ UNCHANGED elf_file
    <3>1. i' = i + 1 /\ pc' = "pheaders" /\ pc = "pheaders"
      BY <1>7, <1>d, <2>3 DEF elf_process_pheaders
    <3>2. LoadsBefore(i + 1) = LoadsBefore(i) /\ BoundsOf(LoadsBefore(i))
      BY <1>b, <2>3, <3>1, LoadsTyped
    <3>3. LoadsBefore(i)' = LoadsBefore(i)
      BY <2>1, <3>1, <3>2 DEF LoadsBefore
    <3>4. BoundsOf(LoadsBefore(i))'
      BY <2>3, <3>2, <3>3 DEF BoundsOf, NoWrap
    <3>5. QED
      BY <2>1, <3>1, <3>4
  <2>4. CASE /\ i <= Len(file.headers) /\ file.headers[i].type = "PT_LOAD"
             /\ elf_file' = elf_process_phdr_pt_load(elf_file, file.headers[i])
    <3>1. i' = i + 1 /\ pc' = "pheaders" /\ pc = "pheaders"
      BY <1>7, <1>d, <2>4 DEF elf_process_pheaders
    <3>2. file.headers[i] \in elf32_phdr
      BY <2>4, HeaderTyped DEF TypeInv
    <3>3. elf_file'.at = elf_file.at
      BY <1>a, <2>4, <3>2, PhdrFields
    <3>4. PICK S \in SUBSET elf32_phdr : S = LoadsBefore(i)
      BY LoadsTyped DEF TypeInv
    <3>5. LoadsBefore(i)' = S \cup {file.headers[i]}
      <4>1. LoadsBefore(i + 1) = S \cup {file.headers[i]}
        BY <2>4, <3>4, LoadsTyped
      <4>2. QED
        BY <2>1, <3>1, <4>1 DEF LoadsBefore
    <3>6. BoundsOf(S)
      BY <1>b, <3>1, <3>3, <3>4
    <3>7. PICK h \in elf32_phdr : h = file.headers[i]
      BY <3>2
    <3>8. BoundsOf(S \cup {h})'
      BY <2>4, <3>6, <3>7, PhdrBounds
    <3>9. BoundsOf(LoadsBefore(i))'
      BY <3>5, <3>7, <3>8 DEF BoundsOf
    <3>10. QED
      BY <2>1, <3>1, <3>9
  <2>5. QED
    BY <1>7, <2>2, <2>3, <2>4 DEF elf_process_pheaders, Return
<1>8. CASE process_load_data
  BY <1>8, <1>2, <1>b, <1>c DEF process_load_data
<1>9. CASE process_load_binary \/ BinaryData
  BY <1>9, <1>c DEF process_load_binary, BinaryData, Return
<1>10. CASE \/ BinaryOut \/ TaskReady \/ process_map_elf \/ process_map_binary \/ process_map_memory
            \/ process_free_program_data
  <2>1. UNCHANGED <<file, elf_file, filetype>>
    BY <1>10 DEF BinaryOut, TaskReady, process_map_elf, process_map_binary, process_map_memory,
                 process_free_program_data
  <2>2. pc' \notin {"stat", "read", "validate", "pheaders", "elf_out"}
    BY <1>10 DEF BinaryOut, TaskReady, process_map_elf, process_map_binary, process_map_memory,
                 process_free_program_data, Return
  <2>3. QED
    BY <1>2, <1>b, <2>1, <2>2
<1>11. QED
  BY <1>3, <1>4, <1>5, <1>6, <1>7, <1>8, <1>9, <1>10 DEF Next

-----------------------------------------------------------------------------
\* Spec => []LoadBooks: whichever call of elf_load, process_load_binary or
\* process_map_memory fails, the descriptors and the objects of a load are
\* accounted for.
THEOREM LoadBooksHold == Spec => []LoadBooks
<1>1. Init => TypeInv /\ BooksInv
  BY TypeInit, BooksInit
<1>2. TypeInv /\ BooksInv /\ [Next]_vars => (TypeInv /\ BooksInv)'
  BY TypeStep, BooksStep
<1>3. BooksInv => LoadBooks
  BY DEF BooksInv, OneDescriptor, StageObjects, ElfStages, MapStages, Program, LoadBooks
<1>4. QED
  BY <1>1, <1>2, <1>3, PTL DEF Spec

\* Spec => []BoundsExact: elf_process_phdr_pt_load ends with the bounds of the
\* lowest and the highest segment, for any headers in any order.
THEOREM BoundsAlwaysExact == Spec => []BoundsExact
<1>1. Init => TypeInv /\ BooksInv /\ BoundsInv
  BY TypeInit, BooksInit, BoundsInit
<1>2. TypeInv /\ BooksInv /\ BoundsInv /\ [Next]_vars => (TypeInv /\ BooksInv /\ BoundsInv)'
  BY TypeStep, BooksStep, BoundsStep
<1>3. TypeInv /\ BoundsInv => BoundsExact
  <2> SUFFICES ASSUME TypeInv, BoundsInv, filetype = "elf", elf_file.at # 0, Loads # {},
                      \A h \in Loads : NoWrap(h)
               PROVE  /\ elf_file.virtual_base = Min({h.vaddr : h \in Loads})
                      /\ elf_file.virtual_end = Max({h.vaddr + h.filesz : h \in Loads})
                      /\ \E h \in Loads : /\ h.vaddr = elf_file.virtual_base
                                          /\ elf_file.physical_base = elf_file.memory + h.offset
                      /\ \E h \in Loads : /\ h.vaddr + h.filesz = elf_file.virtual_end
                                          /\ elf_file.physical_end = elf_file.memory + h.offset + h.filesz
    BY DEF BoundsExact, NoWrap
  <2> DEFINE B == {h.vaddr : h \in Loads}
             E == {h.vaddr + h.filesz : h \in Loads}
  <2>1. /\ \A h \in Loads : elf_file.virtual_base <= h.vaddr /\ h.vaddr + h.filesz <= elf_file.virtual_end
        /\ \E h \in Loads : /\ h.vaddr = elf_file.virtual_base
                            /\ elf_file.physical_base = elf_file.memory + h.offset
        /\ \E h \in Loads : /\ h.vaddr + h.filesz = elf_file.virtual_end
                            /\ elf_file.physical_end = elf_file.memory + h.offset + h.filesz
    BY DEF BoundsInv, BoundsOf
  <2>2. \A h \in Loads : h.vaddr \in Nat /\ h.filesz \in Nat /\ h.vaddr + h.filesz < Memory
    BY LoadsTyped, Constants DEF elf32_phdr, NoWrap
  <2>3. elf_file.virtual_base \in Nat /\ elf_file.virtual_end \in Nat
    BY DEF TypeInv, ElfFile
  <2>4. elf_file.virtual_base = Min(B)
    <3>1. B \in SUBSET Nat /\ B # {}
      BY <2>2
    <3>2. Min(B) \in B /\ \A m \in B : Min(B) <= m
      BY <3>1, MinOf
    <3>3. elf_file.virtual_base \in B /\ \A m \in B : elf_file.virtual_base <= m
      BY <2>1
    <3> HIDE DEF B
    <3>4. /\ Min(B) \in Nat /\ Min(B) <= elf_file.virtual_base
          /\ elf_file.virtual_base <= Min(B)
      BY <3>1, <3>2, <3>3
    <3>5. QED
      BY <2>3, <3>4
  <2>5. elf_file.virtual_end = Max(E)
    <3>1. E \in SUBSET 0..Memory /\ E # {}
      BY <2>2, Constants
    <3>2. Max(E) \in E /\ \A m \in E : m <= Max(E)
      BY <3>1, Constants, MaxOf
    <3>3. elf_file.virtual_end \in E /\ \A m \in E : m <= elf_file.virtual_end
      BY <2>1
    <3> HIDE DEF E
    <3>4. Max(E) <= elf_file.virtual_end /\ elf_file.virtual_end <= Max(E)
      BY <3>2, <3>3
    <3>5. Max(E) \in 0..Memory
      BY <3>1, <3>2, Zenon
    <3>6. QED
      BY <2>3, <3>4, <3>5, Constants
  <2>6. QED
    BY <2>1, <2>4, <2>5
<1>4. QED
  BY <1>1, <1>2, <1>3, PTL DEF Spec

-----------------------------------------------------------------------------
(***************************************************************************)
(* The pages that are mapped.                                              *)
(***************************************************************************)

\* What paging_map_to does with a segment of size bytes at v whose bytes are
\* at a: the pages that the segment touches, and no other, get its frames.
LEMMA MappedAt ==
    ASSUME NEW v \in Nat, NEW a \in Nat, NEW size \in Nat, NEW flags, NEW p \in Pages,
           v % PageSize = a % PageSize, v + size <= Memory, a + size <= Memory - PageSize,
           size = 0 => v % PageSize = 0
    PROVE  /\ Upper(a + size) >= Lower(a)
           /\ Mapped(Lower(v), Lower(a), Upper(a + size), flags)[p] =
                 IF p \in PagesOf(v, size) THEN Frame(p, v, a, flags) ELSE space[p]
<1> DEFINE m == PageSize
           N == Memory \div PageSize
           vq == v \div PageSize
           aq == a \div PageSize
           r == a % PageSize
           e == a + size
           eq == e \div PageSize
           er == e % PageSize
           k == IF er = 0 THEN eq ELSE eq + 1
           n == k - aq
           at == (p - vq) % N
<1>1. m \in Nat \ {0} /\ Memory \in Nat /\ e \in Nat /\ Memory % m = 0
  BY ElfAssumption
<1>2. N \in Int /\ Memory = m * N
  BY <1>1, DivMod
<1>3. vq \in Int /\ r \in 0..(m - 1) /\ v = m * vq + r
  BY <1>1, DivMod
<1>4. aq \in Int /\ a = m * aq + r
  BY <1>1, DivMod
<1> HIDE DEF e
<1>5. eq \in Int /\ er \in 0..(m - 1) /\ e = m * eq + er
  BY <1>1, DivMod
<1>6. p \in 0..(N - 1) /\ N \in Nat \ {0} /\ Cardinality(Pages) = N
  <2>1. p \in 0..(N - 1)
    BY DEF Pages
  <2>2. N \in Nat \ {0}
    BY <1>2, <2>1
  <2>3. ASSUME NEW c \in Nat \ {0} PROVE Cardinality(0..(c - 1)) = c
    BY FS_Interval
  <2>4. QED
    BY <2>1, <2>2, <2>3 DEF Pages
<1>7. Lower(v) = m * vq /\ Lower(a) = m * aq /\ Lower(e) = m * eq
  BY <1>1, <1>3, <1>4, <1>5 DEF Lower
<1>8. Lower(v) \div PageSize = vq /\ Lower(a) \div PageSize = aq
  <2>1. m * vq \in Int /\ m * aq \in Int
    BY <1>1, <1>3, <1>4, MulLess
  <2>2. QED
    BY <1>1, <1>3, <1>4, <1>7, <2>1, DivBetween
<1> HIDE DEF m, N, vq, aq, r, e, eq, er
<1>9. Upper(e) = m * k /\ k \in Int
  <2>1. CASE er = 0
    <3>1. e = m * eq
      BY <1>1, <1>5, <2>1, MulLess
    <3>2. QED
      BY <1>5, <2>1, <3>1 DEF Upper, er, m
  <2>2. CASE er # 0
    <3>1. m * eq + er <= m * N - m
      BY <1>1, <1>2, <1>5 DEF e, m
    <3>2. m * (N - 1) = m * N - m /\ m * N \in Int /\ m * eq \in Int /\ m * (eq + 1) = m * eq + m
      BY <1>1, <1>2, <1>5, MulLess
    <3>3. m * eq < m * (N - 1)
      BY <1>1, <1>5, <2>2, <3>1, <3>2
    <3>4. eq < N - 1
      BY <1>1, <1>2, <1>5, <3>3, MulLess
    <3>5. m * (eq + 1) < m * N
      BY <1>1, <1>2, <1>5, <3>4, MulLess
    <3>6. m * (eq + 1) \in Nat
      BY <1>1, <1>5, <3>2
    <3>7. (m * (eq + 1)) % Memory = m * (eq + 1)
      <4>1. m * (eq + 1) < Memory
        BY <1>2, <3>5
      <4>2. m * (eq + 1) \in 0..(Memory - 1) /\ Memory \in Nat \ {0}
        BY <1>1, <3>6, <4>1
      <4>3. QED
        BY <4>2, ModSmall
    <3>8. QED
      BY <1>5, <1>7, <2>2, <3>2, <3>7 DEF Upper, er, m
  <2>3. QED
    BY <2>1, <2>2
<1> HIDE DEF k
<1>10. /\ m * k \in Int /\ m * aq \in Int /\ m * vq \in Int
       /\ m * n = m * k - m * aq /\ n \in Int
  BY <1>1, <1>3, <1>4, <1>9, MulLess
<1>11. (Upper(e) - Lower(a)) \div PageSize = n
  <2>1. Upper(e) - Lower(a) = m * n
    BY <1>7, <1>9, <1>10
  <2>2. m * n \in Int
    BY <1>10
  <2>3. QED
    BY <1>1, <1>10, <2>1, <2>2, DivBetween DEF m
<1>12. e <= m * k /\ m * k < e + m
  BY <1>1, <1>5, MulLess DEF k
<1>13. n >= 0
  <2>1. m * aq <= m * k
    BY <1>1, <1>3, <1>4, <1>10, <1>12 DEF e
  <2>2. ~(m * k < m * aq)
    BY <2>1, <1>10
  <2>3. ~(k < aq)
    BY <1>1, <1>4, <1>9, <2>2, MulLess
  <2>4. QED
    BY <1>4, <1>9, <2>3
<1>14. PagesOf(v, size) = vq..(vq + n - 1) /\ (n = 0 \/ vq + n <= N)
  <2>1. CASE size = 0
    <3>1. r = 0
      BY <2>1 DEF r
    <3>2. m * k < m * aq + m
      BY <1>4, <1>10, <1>12, <2>1, <3>1 DEF e
    <3>3. m * k < m * (aq + 1)
      BY <1>1, <1>4, <3>2, MulLess
    <3>4. k < aq + 1
      BY <1>1, <1>4, <1>9, <3>3, MulLess
    <3>5. n = 0
      BY <1>4, <1>9, <1>13, <3>4
    <3>6. QED
      BY <1>3, <2>1, <3>5 DEF PagesOf
  <2>2. CASE size # 0
    <3>1. /\ m * (vq + n) = m * vq + m * n /\ m * (vq + n - 1) = m * (vq + n) - m
          /\ m * (vq + n) \in Int
      BY <1>1, <1>3, <1>10, MulLess
    <3>2. m * (vq + n) = m * k + v - a
      BY <1>1, <1>3, <1>4, <1>10, <3>1
    <3>3. m * (vq + n - 1) <= v + size - 1 /\ v + size - 1 < m * (vq + n - 1) + m
      BY <1>1, <1>10, <1>12, <3>1, <3>2 DEF e
    <3>4. (v + size - 1) \div m = vq + n - 1
      <4>1. vq + n - 1 \in Int /\ v + size - 1 \in Int
        BY <1>3, <1>10
      <4>2. QED
        BY <1>1, <3>3, <4>1, DivBetween
    <3>5. m * (vq + n - 1) < m * N
      BY <1>1, <1>2, <3>1, <3>3
    <3>6. vq + n - 1 < N
      BY <1>1, <1>2, <1>3, <1>10, <3>5, MulLess
    <3>7. QED
      BY <1>2, <1>3, <1>10, <2>2, <3>4, <3>6 DEF PagesOf, vq, m
  <2>3. QED
    BY <2>1, <2>2
<1>15. vq \in 0..N
  <2>1. m * vq <= m * N /\ m * vq \in Int /\ m * N \in Int /\ -m < m * vq
    BY <1>1, <1>2, <1>3, <1>10, MulLess
  <2>2. ~(m * N < m * vq) /\ m * (-1) < m * vq
    BY <1>1, <2>1
  <2>3. ~(N < vq) /\ -1 < vq
    BY <1>1, <1>2, <1>3, <2>2, MulLess
  <2>4. QED
    BY <1>2, <1>3, <2>3
<1>16. at = IF p >= vq THEN p - vq ELSE p - vq + N
  <2>1. CASE p >= vq
    <3>1. p - vq \in 0..(N - 1)
      BY <1>3, <1>6, <1>15, <2>1
    <3>2. QED
      BY <1>6, <2>1, <3>1, ModSmall
  <2>2. CASE p < vq
    <3>1. p - vq + N \in 0..(N - 1)
      BY <1>3, <1>6, <1>15, <2>2
    <3>2. p - vq = N * (-1) + (p - vq + N)
      BY <1>3, <1>6
    <3>3. (N * (-1) + (p - vq + N)) % N = p - vq + N
      <4>1. ASSUME NEW d \in 0..(N - 1) PROVE (N * (-1) + d) % N = d
        <5>1. -1 \in Int
          OBVIOUS
        <5>2. QED
          BY <1>6, <4>1, <5>1, DivModUnique
      <4>2. QED
        BY <3>1, <4>1
    <3>4. QED
      BY <1>3, <1>6, <2>2, <3>2, <3>3
  <2>3. QED
    BY <1>3, <1>6, <2>1, <2>2
<1> HIDE DEF at, n
<1>17. at < n <=> p \in PagesOf(v, size)
  <2>1. p \in PagesOf(v, size) <=> p >= vq /\ p < vq + n
    <3>1. PagesOf(v, size) = vq..(vq + n - 1) /\ vq \in Int /\ n \in Int /\ p \in Int
      BY <1>3, <1>6, <1>10, <1>14
    <3>2. QED
      BY <3>1
  <2>2. CASE p >= vq
    BY <1>3, <1>6, <1>10, <1>16, <2>1, <2>2
  <2>3. CASE p < vq
    BY <1>3, <1>6, <1>10, <1>13, <1>14, <1>15, <1>16, <2>1, <2>3
  <2>4. QED
    BY <1>3, <1>6, <2>2, <2>3
<1>18. p \in PagesOf(v, size) => at = p - vq
  BY <1>3, <1>6, <1>10, <1>14, <1>16
<1>19. Mapped(Lower(v), Lower(a), Upper(e), flags)[p] =
        IF at < n THEN [frame |-> aq + at, flags |-> flags] ELSE space[p]
  BY <1>6, <1>8, <1>11 DEF Mapped, at
<1>20. Mapped(Lower(v), Lower(a), Upper(e), flags)[p] =
        IF p \in PagesOf(v, size) THEN Frame(p, v, a, flags) ELSE space[p]
  <2>1. p \in PagesOf(v, size) => aq + at = aq + p - vq
    BY <1>3, <1>4, <1>6, <1>18
  <2>2. QED
    BY <1>17, <1>19, <2>1 DEF Frame, aq, vq
<1>21. Upper(e) >= Lower(a)
  <2>1. ~(k < aq)
    BY <1>4, <1>9, <1>13 DEF n
  <2>2. ~(m * k < m * aq)
    BY <1>1, <1>4, <1>9, <2>1, MulLess
  <2>3. QED
    BY <1>7, <1>9, <1>10, <2>2
<1>22. QED
  BY <1>20, <1>21 DEF e

AllWellFormed == \A n \in DOMAIN file.headers : WellFormed(file.headers[n])

\* The headers before n that have bytes in the page p, and the page they give.
OverBefore(n, p) ==
    {m \in DOMAIN file.headers : m < n /\ p \in PagesOf(file.headers[m].vaddr, file.headers[m].memsz)}
HeaderPage(p, h) ==
    Frame(p, h.vaddr, elf_file.memory + h.offset, IF h.write THEN UserWrites ELSE UserFlags)
PageBefore(n, p) ==
    IF OverBefore(n, p) = {} THEN InitialPage(p)
    ELSE HeaderPage(p, file.headers[Max(OverBefore(n, p))])

ProgramPage(p) == IF filetype = "elf" THEN ElfPage(p) ELSE BinaryPage(p)

MapInv ==
    /\ pc \notin {"map_elf", "map_stack", "running", "freed", "failed"} =>
          space = [p \in Pages |-> InitialPage(p)]
    /\ pc = "map_binary" => filetype = "binary"
    /\ pc = "map_elf" /\ AllWellFormed => space = [p \in Pages |-> PageBefore(i, p)]
    /\ pc = "map_stack" /\ (filetype = "elf" => AllWellFormed) =>
          space = [p \in Pages |-> ProgramPage(p)]
    /\ ProgramMapped

LEMMA MapInit == Init => MapInv
BY DEF Init, MapInv, ProgramMapped

\* Header n is mapped after those before it, over them where they meet.
LEMMA NextHeader ==
    ASSUME TypeInv, i <= Len(file.headers), NEW p
    PROVE  PageBefore(i + 1, p) =
             IF p \in PagesOf(file.headers[i].vaddr, file.headers[i].memsz)
             THEN HeaderPage(p, file.headers[i]) ELSE PageBefore(i, p)
<1>1. /\ Len(file.headers) \in Nat /\ DOMAIN file.headers = 1..Len(file.headers) /\ i \in Nat \ {0}
  BY Constants DEF TypeInv
<1>2. OverBefore(i + 1, p) = OverBefore(i, p) \cup
        (IF p \in PagesOf(file.headers[i].vaddr, file.headers[i].memsz) THEN {i} ELSE {})
  <2>1. i \in DOMAIN file.headers /\ \A k \in DOMAIN file.headers : k < i + 1 <=> k < i \/ k = i
    BY <1>1
  <2>2. QED
    BY <2>1 DEF OverBefore
<1>3. CASE p \notin PagesOf(file.headers[i].vaddr, file.headers[i].memsz)
  <2>1. OverBefore(i + 1, p) = OverBefore(i, p)
    BY <1>2, <1>3
  <2>2. QED
    BY <1>3, <2>1 DEF PageBefore
<1>4. CASE p \in PagesOf(file.headers[i].vaddr, file.headers[i].memsz)
  <2> DEFINE O == OverBefore(i + 1, p)
  <2>1. i \in O /\ O \in SUBSET 0..i
    <3>1. O \subseteq DOMAIN file.headers /\ \A k \in O : k < i + 1
      BY DEF OverBefore
    <3>2. QED
      BY <1>1, <1>2, <1>4, <3>1
  <2>2. Max(O) \in O /\ i <= Max(O)
    BY <1>1, <2>1, MaxOf
  <2> HIDE DEF O
  <2>3. Max(O) \in 0..i
    BY <2>1, <2>2
  <2>4. Max(O) = i
    BY <1>1, <2>2, <2>3
  <2>5. QED
    BY <1>4, <2>1, <2>4 DEF PageBefore, O
<1>5. QED
  BY <1>3, <1>4

LEMMA AllHeaders ==
    ASSUME TypeInv
    PROVE  /\ \A p : PageBefore(1, p) = InitialPage(p)
           /\ i > Len(file.headers) => \A p : PageBefore(i, p) = ElfPage(p)
<1>1. /\ Len(file.headers) \in Nat /\ DOMAIN file.headers = 1..Len(file.headers) /\ i \in Nat \ {0}
  BY Constants DEF TypeInv
<1>2. \A p : OverBefore(1, p) = {}
  BY <1>1 DEF OverBefore
<1>3. ASSUME i > Len(file.headers), NEW p PROVE PageBefore(i, p) = ElfPage(p)
  <2>1. \A k \in DOMAIN file.headers : k < i
    BY <1>1, <1>3
  <2>2. OverBefore(i, p) =
          {n \in DOMAIN file.headers : p \in PagesOf(file.headers[n].vaddr, file.headers[n].memsz)}
    BY <2>1 DEF OverBefore
  <2>3. QED
    BY <2>2 DEF PageBefore, ElfPage, HeaderPage
<1>4. QED
  BY <1>2, <1>3 DEF PageBefore

\* The arguments for a well-formed header, and what they map.
LEMMA SegmentMapped ==
    ASSUME TypeInv, NEW h \in elf32_phdr, WellFormed(h)
    PROVE  LET a == SegmentArguments(h)
               m == Mapped(a.virt, a.phys, a.end, a.flags)
           IN  /\ m = [p \in Pages |-> m[p]]
               /\ \A p \in Pages : /\ a.end >= a.phys
                                   /\ m[p] = IF p \in PagesOf(h.vaddr, h.memsz) THEN HeaderPage(p, h)
                                             ELSE space[p]
<1> DEFINE b == elf_file.memory + h.offset
           flags == IF h.write THEN UserWrites ELSE UserFlags
<1>1. /\ h.vaddr \in Nat /\ h.offset \in Nat /\ h.memsz \in Nat
      /\ elf_file.memory \in {0, ImageAt} /\ elf_file.memory \in Nat
      /\ Memory \in Nat /\ PageSize \in Nat \ {0}
  BY Constants DEF TypeInv, ElfFile, elf32_phdr
<1>2. b \in Nat /\ b + h.memsz <= Memory - PageSize
  BY <1>1 DEF WellFormed
<1>3. b % PageSize = h.vaddr % PageSize
  <2>0. \A c \in Nat : /\ c \div PageSize \in Int /\ c % PageSize \in 0..(PageSize - 1)
                       /\ c = PageSize * (c \div PageSize) + (c % PageSize)
    BY <1>1, DivMod
  <2>1. elf_file.memory % PageSize = 0
    <3>1. 0 \in 0..(PageSize - 1)
      BY <1>1
    <3>2. 0 % PageSize = 0
      BY <1>1, <3>1, ModSmall
    <3>3. ImageAt % PageSize = 0
      BY ElfAssumption
    <3>4. QED
      BY <1>1, <3>2, <3>3
  <2>2. elf_file.memory = PageSize * (elf_file.memory \div PageSize) /\ elf_file.memory \div PageSize \in Int
    <3>1. ASSUME NEW c \in Nat, c % PageSize = 0 PROVE c = PageSize * (c \div PageSize)
      <4>1. PageSize * (c \div PageSize) \in Int
        BY <1>1, <2>0, MulLess
      <4>2. QED
        BY <2>0, <3>1, <4>1
    <3>2. QED
      BY <1>1, <2>0, <2>1, <3>1
  <2>3. /\ h.offset = PageSize * (h.offset \div PageSize) + (h.offset % PageSize)
        /\ h.offset \div PageSize \in Int /\ h.offset % PageSize \in 0..(PageSize - 1)
    BY <1>1, <2>0
  <2> DEFINE x == elf_file.memory \div PageSize
             y == h.offset \div PageSize
             z == h.offset % PageSize
  <2> HIDE DEF x, y, z
  <2>4. b = PageSize * (x + y) + z /\ x + y \in Int /\ z \in 0..(PageSize - 1)
    <3>1. x \in Int /\ y \in Int /\ z \in 0..(PageSize - 1)
      BY <2>2, <2>3 DEF x, y, z
    <3>2. PageSize * (x + y) = PageSize * x + PageSize * y /\ PageSize * x \in Int /\ PageSize * y \in Int
      BY <1>1, <3>1, MulLess
    <3>3. elf_file.memory = PageSize * x /\ h.offset = PageSize * y + z
      BY <2>2, <2>3 DEF x, y, z
    <3>4. QED
      BY <1>1, <3>1, <3>2, <3>3
  <2>5. b % PageSize = z
    BY <1>1, <2>4, DivModUnique
  <2>6. QED
    BY <2>5 DEF WellFormed, z
<1>4. b % Memory = b /\ (b + h.memsz) % Memory = b + h.memsz
  <2>1. b \in 0..(Memory - 1) /\ b + h.memsz \in 0..(Memory - 1) /\ Memory \in Nat \ {0}
    BY <1>1, <1>2
  <2>2. QED
    BY <2>1, ModSmall
<1> HIDE DEF b
<1>5. SegmentArguments(h) = [virt |-> Lower(h.vaddr), phys |-> Lower(b), end |-> Upper(b + h.memsz), flags |-> flags]
  BY <1>4 DEF SegmentArguments, b
<1>6. h.vaddr + h.memsz <= Memory /\ (h.memsz = 0 => h.vaddr % PageSize = 0)
  BY DEF WellFormed
<1>7. ASSUME NEW p \in Pages
      PROVE  /\ Upper(b + h.memsz) >= Lower(b)
             /\ Mapped(Lower(h.vaddr), Lower(b), Upper(b + h.memsz), flags)[p] =
                   IF p \in PagesOf(h.vaddr, h.memsz) THEN Frame(p, h.vaddr, b, flags) ELSE space[p]
  <2> HIDE DEF flags
  <2>1. PICK v \in Nat, a \in Nat, size \in Nat : v = h.vaddr /\ a = b /\ size = h.memsz
    BY <1>1, <1>2
  <2>2. /\ v % PageSize = a % PageSize /\ v + size <= Memory /\ a + size <= Memory - PageSize
        /\ size = 0 => v % PageSize = 0
    BY <1>2, <1>3, <1>6, <2>1
  <2>3. ASSUME NEW f
        PROVE  /\ Upper(a + size) >= Lower(a)
               /\ Mapped(Lower(v), Lower(a), Upper(a + size), f)[p] =
                     IF p \in PagesOf(v, size) THEN Frame(p, v, a, f) ELSE space[p]
    <3>1. Upper(a + size) >= Lower(a)
      BY <1>7, <2>2, MappedAt
    <3>2. Mapped(Lower(v), Lower(a), Upper(a + size), f)[p] =
            IF p \in PagesOf(v, size) THEN Frame(p, v, a, f) ELSE space[p]
      BY <1>7, <2>2, MappedAt
    <3>3. QED
      BY <3>1, <3>2
  <2>4. QED
    BY <2>1, <2>3
<1>8. \A v, a, e, g : Mapped(v, a, e, g) = [p \in Pages |-> Mapped(v, a, e, g)[p]]
  BY DEF Mapped
<1>9. QED
  BY <1>5, <1>7, <1>8 DEF HeaderPage, b

\* The same for the program's and the stack's pages, which are aligned.
LEMMA AlignedMapped ==
    ASSUME NEW v \in Nat, NEW a \in Nat, NEW size \in Nat, v % PageSize = 0, a % PageSize = 0,
           v + size <= Memory, a + size <= Memory - PageSize
    PROVE  Mapped(v, a, Upper(a + size), UserWrites) =
             [p \in Pages |-> IF p \in PagesOf(v, size) THEN Frame(p, v, a, UserWrites) ELSE space[p]]
<1>1. Lower(v) = v /\ Lower(a) = a
  BY DEF Lower
<1>2. ASSUME NEW p \in Pages
      PROVE  Mapped(Lower(v), Lower(a), Upper(a + size), UserWrites)[p] =
                IF p \in PagesOf(v, size) THEN Frame(p, v, a, UserWrites) ELSE space[p]
  BY <1>2, MappedAt
<1>3. \A e : Mapped(v, a, e, UserWrites) = [p \in Pages |-> Mapped(v, a, e, UserWrites)[p]]
  BY DEF Mapped
<1>4. QED
  BY <1>1, <1>2, <1>3

LEMMA MapStep == TypeInv /\ BooksInv /\ MapInv /\ [Next]_vars => MapInv'
<1> SUFFICES ASSUME TypeInv, BooksInv, MapInv, [Next]_vars PROVE MapInv'
  OBVIOUS
<1>a. pc \in MapStages => filetype \in {"elf", "binary"}
  BY DEF BooksInv, StageObjects
<1>b. pc = "map_elf" => filetype = "elf"
  BY DEF BooksInv, StageObjects
<1>c. i \in Nat \ {0} /\ Len(file.headers) \in Nat
  BY Constants DEF TypeInv
<1>1. CASE \/ elf_load \/ ElfStat \/ ElfRead \/ elf_validate_loaded \/ elf_process_pheaders
           \/ process_load_data \/ process_load_binary \/ BinaryData \/ BinaryOut
  <2>1. space' = space /\ pc \notin {"map_elf", "map_stack", "running", "freed", "failed"}
    BY <1>1 DEF elf_load, ElfStat, ElfRead, elf_validate_loaded, elf_process_pheaders, process_load_data,
                process_load_binary, BinaryData, BinaryOut
  <2>2. pc' \notin {"map_elf", "map_binary", "map_stack", "running"}
    <3>1. elf_process_pheaders => pc' \notin {"map_elf", "map_binary", "map_stack", "running"}
      BY DEF elf_process_pheaders, Return
    <3>2. QED
      BY <1>1, <3>1 DEF elf_load, ElfStat, ElfRead, elf_validate_loaded, process_load_data,
                        process_load_binary, BinaryData, BinaryOut, Return
  <2>3. QED
    BY <2>1, <2>2 DEF MapInv, ProgramMapped
<1>2. CASE TaskReady
  <2>1. \A p : PageBefore(1, p) = InitialPage(p)
    BY AllHeaders
  <2>2. \A p : PageBefore(i, p)' = PageBefore(1, p)
    BY <1>2 DEF TaskReady, PageBefore, OverBefore, HeaderPage, Frame
  <2>3. space' = [p \in Pages |-> InitialPage(p)]
    BY <1>2 DEF MapInv, TaskReady
  <2>4. pc = "map" /\ pc' = (IF filetype = "elf" THEN "map_elf" ELSE "map_binary") /\ filetype' = filetype
    BY <1>2 DEF TaskReady
  <2>5. space' = [p \in Pages |-> PageBefore(i, p)']
    BY <2>1, <2>2, <2>3
  <2>6. QED
    BY <1>a, <2>3, <2>4, <2>5 DEF MapInv, MapStages, ProgramMapped
<1>3. CASE process_map_elf
  <2>1. UNCHANGED <<file, elf_file, filetype>> /\ pc = "map_elf" /\ filetype = "elf"
    BY <1>3, <1>b DEF process_map_elf
  <2>2. AllWellFormed' <=> AllWellFormed
    BY <2>1 DEF AllWellFormed, WellFormed
  <2>3. CASE i > Len(file.headers) /\ pc' = "map_stack" /\ UNCHANGED <<space, i>>
    <3>1. \A p : PageBefore(i, p) = ElfPage(p)
      BY <2>3, AllHeaders
    <3>2. \A p : ProgramPage(p)' = ElfPage(p)
      BY <2>1 DEF ProgramPage, ElfPage, Frame
    <3>3. AllWellFormed => space' = [p \in Pages |-> ProgramPage(p)']
      BY <2>1, <2>3, <3>1, <3>2 DEF MapInv
    <3>4. QED
      BY <2>1, <2>2, <2>3, <3>3 DEF MapInv, ProgramMapped
  <2>4. CASE pc' = "failed"
    BY <2>4 DEF MapInv, ProgramMapped
  <2>5. CASE i <= Len(file.headers) /\ pc' # "failed"
    <3> DEFINE h == file.headers[i]
               a == SegmentArguments(h)
    <3>1. space' = Mapped(a.virt, a.phys, a.end, a.flags) /\ i' = i + 1 /\ pc' = "map_elf"
      BY <1>3, <1>c, <2>5 DEF process_map_elf, Return
    <3>2. ASSUME AllWellFormed PROVE space' = [p \in Pages |-> PageBefore(i + 1, p)]
      <4>1. h \in elf32_phdr /\ WellFormed(h)
        BY <1>c, <2>5, <3>2, HeaderTyped DEF TypeInv, AllWellFormed
      <4>2. /\ space' = [p \in Pages |-> space'[p]]
            /\ \A p \in Pages : space'[p] = IF p \in PagesOf(h.vaddr, h.memsz) THEN HeaderPage(p, h) ELSE space[p]
        <5>1. PICK g \in elf32_phdr : g = h /\ WellFormed(g)
          BY <4>1
        <5>2. LET b == SegmentArguments(g)
                  m == Mapped(b.virt, b.phys, b.end, b.flags)
              IN  /\ m = [p \in Pages |-> m[p]]
                  /\ \A p \in Pages : m[p] = IF p \in PagesOf(g.vaddr, g.memsz) THEN HeaderPage(p, g)
                                               ELSE space[p]
          BY <5>1, SegmentMapped
        <5>3. QED
          BY <3>1, <5>1, <5>2
      <4>3. \A p \in Pages : space[p] = PageBefore(i, p)
        BY <2>1, <3>2 DEF MapInv
      <4>4. \A p \in Pages : PageBefore(i + 1, p) = IF p \in PagesOf(h.vaddr, h.memsz) THEN HeaderPage(p, h)
                                                    ELSE PageBefore(i, p)
        BY <2>5, NextHeader
      <4>5. QED
        BY <4>2, <4>3, <4>4
    <3>3. \A p : PageBefore(i, p)' = PageBefore(i + 1, p)
      BY <2>1, <3>1 DEF PageBefore, OverBefore, HeaderPage, Frame
    <3>4. AllWellFormed => space' = [p \in Pages |-> PageBefore(i, p)']
      BY <3>2, <3>3
    <3>5. QED
      BY <2>1, <2>2, <3>1, <3>4 DEF MapInv, ProgramMapped
  <2>6. QED
    BY <1>3, <2>3, <2>4, <2>5 DEF process_map_elf, Return
<1>4. CASE process_map_binary
  <2>1. /\ UNCHANGED <<file, elf_file, filetype>> /\ filetype = "binary" /\ pc' = "map_stack"
        /\ space = [p \in Pages |-> InitialPage(p)]
    BY <1>4 DEF process_map_binary, MapInv
  <2>2. /\ ProgramVirtual \in Nat /\ ProgramAt \in Nat /\ file.size \in Nat
        /\ ProgramVirtual % PageSize = 0 /\ ProgramAt % PageSize = 0
        /\ ProgramVirtual + file.size <= Memory /\ ProgramAt + file.size <= Memory - PageSize
    <3>1. file.size \in 1..(Memory - PageSize - ProgramAt) /\ ProgramVirtual + file.size <= Memory
      BY ElfAssumption DEF TypeInv
    <3>2. /\ ProgramVirtual % PageSize = 0 /\ ProgramAt % PageSize = 0
          /\ ProgramVirtual \in Nat /\ ProgramAt \in Nat /\ Memory \in Nat /\ PageSize \in Nat
      BY ElfAssumption
    <3>3. QED
      BY <3>1, <3>2
  <2>3. PICK size \in Nat : size = file.size
    BY <2>2
  <2>4. Mapped(ProgramVirtual, ProgramAt, Upper(ProgramAt + size), UserWrites) =
          [p \in Pages |-> IF p \in PagesOf(ProgramVirtual, size)
                           THEN Frame(p, ProgramVirtual, ProgramAt, UserWrites) ELSE space[p]]
    BY <2>2, <2>3, AlignedMapped
  <2>5. space' = [p \in Pages |-> BinaryPage(p)]
    BY <1>4, <2>1, <2>3, <2>4 DEF process_map_binary, BinaryPage
  <2>6. \A p : ProgramPage(p)' = BinaryPage(p)
    BY <2>1 DEF ProgramPage, BinaryPage, Frame
  <2>7. QED
    BY <2>1, <2>5, <2>6 DEF MapInv, ProgramMapped
<1>5. CASE process_map_memory
  <2>1. UNCHANGED <<file, elf_file, filetype>> /\ pc = "map_stack" /\ pc' = "running"
    BY <1>5 DEF process_map_memory
  <2>2. /\ StackVirtual \in Nat /\ StackAt \in Nat /\ StackSize \in Nat
        /\ StackVirtual % PageSize = 0 /\ StackAt % PageSize = 0
        /\ StackVirtual + StackSize <= Memory /\ StackAt + StackSize <= Memory - PageSize
    <3>1. /\ StackVirtual % PageSize = 0 /\ StackAt % PageSize = 0
          /\ StackVirtual \in 1..(Memory - 1) /\ StackAt \in 1..(Memory - 1)
      BY ElfAssumption
    <3>2. /\ StackVirtual + StackSize <= Memory /\ StackAt + StackSize <= Memory - PageSize
          /\ Memory \in Nat /\ StackSize \in Nat
      BY ElfAssumption
    <3>3. QED
      BY <3>1, <3>2
  <2>3. space' = [p \in Pages |-> IF p \in PagesOf(StackVirtual, StackSize)
                                  THEN Frame(p, StackVirtual, StackAt, UserWrites) ELSE space[p]]
    BY <1>5, <2>2, AlignedMapped DEF process_map_memory
  <2>4. ASSUME filetype = "elf" => AllWellFormed
        PROVE  space' = [p \in Pages |->
                  IF p \in PagesOf(StackVirtual, StackSize) THEN Frame(p, StackVirtual, StackAt, UserWrites)
                  ELSE ProgramPage(p)]
    <3>1. \A p \in Pages : space[p] = ProgramPage(p)
      BY <2>1, <2>4 DEF MapInv
    <3>2. QED
      BY <2>3, <3>1
  <2>5. /\ \A p : ElfPage(p)' = ElfPage(p) /\ BinaryPage(p)' = BinaryPage(p)
        /\ AllWellFormed' <=> AllWellFormed
    BY <2>1 DEF ElfPage, BinaryPage, Frame, AllWellFormed, WellFormed
  <2>6. ProgramMapped'
    BY <2>1, <2>4, <2>5 DEF ProgramMapped, ProgramPage, AllWellFormed
  <2>7. QED
    BY <2>1, <2>6 DEF MapInv
<1>6. CASE process_free_program_data
  BY <1>6 DEF process_free_program_data, MapInv, ProgramMapped
<1>7. CASE UNCHANGED vars
  <2>1. UNCHANGED <<file, pc, elf_file, i, filetype, space>>
    BY <1>7 DEF vars
  <2>2. /\ \A p : /\ ElfPage(p)' = ElfPage(p) /\ BinaryPage(p)' = BinaryPage(p)
                 /\ ProgramPage(p)' = ProgramPage(p) /\ PageBefore(i, p)' = PageBefore(i, p)
        /\ AllWellFormed' <=> AllWellFormed
    BY <2>1 DEF ElfPage, BinaryPage, ProgramPage, PageBefore, OverBefore, HeaderPage, Frame, AllWellFormed,
                WellFormed
  <2>3. ProgramMapped'
    BY <2>1, <2>2 DEF MapInv, ProgramMapped, AllWellFormed
  <2>4. QED
    BY <2>1, <2>2, <2>3 DEF MapInv
<1>8. QED
  BY <1>1, <1>2, <1>3, <1>4, <1>5, <1>6, <1>7 DEF Next

\* Spec => []ProgramMapped: after process_map_memory a program finds every
\* byte of its segments and its stack at its address, for any number of
\* headers, in any order and overlapping in pages.
THEOREM ProgramAlwaysMapped == Spec => []ProgramMapped
<1>1. Init => TypeInv /\ BooksInv /\ MapInv
  BY TypeInit, BooksInit, MapInit
<1>2. TypeInv /\ BooksInv /\ MapInv /\ [Next]_vars => (TypeInv /\ BooksInv /\ MapInv)'
  BY TypeStep, BooksStep, MapStep
<1>3. MapInv => ProgramMapped
  BY DEF MapInv
<1>4. QED
  BY <1>1, <1>2, <1>3, PTL DEF Spec
=============================================================================

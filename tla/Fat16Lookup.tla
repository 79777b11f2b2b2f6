----------------------------- MODULE Fat16Lookup -----------------------------
(***************************************************************************)
(* From the parts of a path to an entry of a directory (fs/fat/fat16.c):   *)
(* counting the entries of a directory on the disk, loading them, making   *)
(* a file name of each and comparing it with the part, one entry per step. *)
(* Module Files takes the results of these loops as closed forms.          *)
(*                                                                         *)
(* The disk is a sequence of slots of 32 bytes: those of the root          *)
(* directory, then those of cluster 2, 3 and so on.  A slot is a struct    *)
(* fat_directory_item, reduced to its name, the byte attribute that        *)
(* follows the name, and its first cluster.  A slot fits into a sector, so *)
(* the reads of one slot are exact (module Fat16Read).  Any kzalloc of a   *)
(* lookup may be refused.                                                  *)
(***************************************************************************)
EXTENDS Integers, Sequences, FiniteSets, SequencesExt

CONSTANTS
    Disks,          \* the disks to look at, as sequences of slots
    RootSlots,      \* root_dir_entries
    ClusterSlots,   \* slots in a cluster
    NUL, Space, Dot,\* the bytes 0x00, 0x20 and '.'
    DeletedByte,    \* 0xE5, the first byte of the name of a deleted entry
    SubdirByte,     \* the attribute FAT_FILE_SUBDIRECTORY
    Lower,          \* Lower[c]: tolower of a letter
    None            \* NULL

VARIABLES
    volume,         \* the slots on the disk
    look,           \* where the lookup is
    slot,           \* directory_stream: the next slot it reads
    count,          \* fat16_get_total_items_for_directory: entries so far
    root_directory, \* items and total of the root directory
    todo,           \* the parts that are left, the one being searched first
    directory,      \* the directory that is searched
    k,              \* the index in it
    item,           \* the fat_item found last, or NoItem
    base,           \* whether the part is the first, searched in the root directory
    denied          \* history: a kzalloc of the lookup was refused

vars == <<volume, look, slot, count, root_directory, todo, directory, k, item, base, denied>>

NameLen == Len(volume[1].filename)
BlankSlot == [filename |-> [j \in 1..NameLen |-> NUL], ext |-> <<NUL>>, attribute |-> NUL, cluster |-> 0]
At(s) == IF s <= Len(volume) THEN volume[s] ELSE BlankSlot

IsBlank(e) == e.filename[1] = NUL
IsDeleted(e) == e.filename[1] = DeletedByte
IsSubdirectory(e) == e.attribute = SubdirByte

\* The first slot of a cluster.
SlotOf(cluster) == RootSlots + (cluster - 2) * ClusterSlots + 1

\* A struct fat_directory that is not there or no longer: the zeroed one of the
\* fat_private before it is filled, or a NULL.  The NULL for a fat_item.
Unloaded == [items |-> <<>>, total |-> 0, live |-> FALSE]
NoItem == [type |-> None, entry |-> None]

\* fat16_resolve begins with the root directory.
Init ==
    /\ volume \in Disks
    /\ look = "count" /\ slot = 1 /\ count = 0
    /\ root_directory = Unloaded
    /\ todo = <<>> /\ directory = Unloaded /\ k = 0 /\ item = NoItem
    /\ base = FALSE /\ denied = FALSE

-----------------------------------------------------------------------------
(***************************************************************************)
(* The name of an entry.  fat16_to_proper_string has no length: a name     *)
(* without a space goes on into the extension, and an extension without    *)
(* one into the attribute and the byte after it, which is zero.            *)
(***************************************************************************)
fat16_to_proper_string(bytes) ==
    SubSeq(bytes, 1, Min({j \in DOMAIN bytes : bytes[j] \in {NUL, Space}}) - 1)

fat16_get_full_relative_filename(e) ==
    LET tail == e.ext \o <<e.attribute, NUL>>
        name == fat16_to_proper_string(e.filename \o tail)
    IN  IF e.ext[1] \in {NUL, Space} THEN name
        ELSE name \o <<Dot>> \o fat16_to_proper_string(tail)

tolower(s) == [j \in DOMAIN s |-> IF s[j] \in DOMAIN Lower THEN Lower[s[j]] ELSE s[j]]

\* Mutant: the comparison minds the case.
strncmp(a, b) == a = b

\* istrncmp = 0; the parts are shorter than the limit it is given.
istrncmp(a, b) == tolower(a) = tolower(b)

-----------------------------------------------------------------------------
(***************************************************************************)
(* Loading a directory.                                                    *)
(***************************************************************************)
\* One iteration of fat16_get_total_items_for_directory: it ends at a blank
\* slot, wherever the directory ends.
fat16_get_total_items_for_directory ==
    /\ look = "count"
    /\ slot' = slot + 1
    /\ \/ IsBlank(At(slot)) /\ look' = "load" /\ UNCHANGED count
       \/ ~IsBlank(At(slot)) /\ IsDeleted(At(slot)) /\ UNCHANGED <<count, look>>
       \/ /\ ~IsBlank(At(slot)) /\ ~IsDeleted(At(slot))
          /\ count' = count + 1 /\ UNCHANGED look
    /\ UNCHANGED <<volume, root_directory, todo, directory, k, item, base, denied>>

\* All slots of the root directory are loaded, however many are in use.
fat16_get_root_directory ==
    /\ look = "load" /\ ~root_directory.live
    /\ root_directory' = [items |-> [j \in 1..RootSlots |-> At(j)], total |-> count, live |-> TRUE]
    /\ look' = "mounted"
    /\ UNCHANGED <<volume, slot, count, todo, directory, k, item, base, denied>>

\* The entry of a subdirectory that is being loaded.
Entry == directory.items[k]

\* The rest of fat16_load_fat_directory: as many slots are loaded as were
\* counted.  The array may be refused, and what is behind the first cluster is
\* read from its beginning again or cannot be read for what the FAT seems to
\* say (module Fat16Read); the directory is then freed, and returned.
fat16_load_fat_directory ==
    /\ look = "load" /\ root_directory.live
    /\ \E live \in BOOLEAN :
          /\ item' = [type |-> "directory", entry |-> Entry,
                      directory |-> [items |-> [j \in 1..count |->
                                         At(SlotOf(Entry.cluster) + ((j - 1) % ClusterSlots))],
                                     total |-> count, live |-> live]]
          /\ \/ live /\ UNCHANGED denied
             \/ ~live /\ count > ClusterSlots /\ UNCHANGED denied
             \/ ~live /\ denied' = TRUE
    /\ look' = "search"
    /\ UNCHANGED <<volume, slot, count, root_directory, todo, directory, k, base>>

-----------------------------------------------------------------------------
(***************************************************************************)
(* fat16_get_directory_entry.                                              *)
(***************************************************************************)
SearchIn(d) == directory' = d /\ k' = 0 /\ item' = NoItem

Lookup(path) ==
    /\ look = "mounted"
    /\ todo' = path
    /\ SearchIn(root_directory)
    /\ look' = "search"
    /\ base' = TRUE
    /\ UNCHANGED <<volume, slot, count, root_directory, denied>>

Searching == k < directory.total

\* What fat16_new_fat_item_for_directory_item makes of an entry when a kzalloc
\* is refused: no fat_item; a directory that is NULL; a file without its clone.
Refused(e) ==
    {NoItem, IF IsSubdirectory(e) THEN [type |-> "directory", entry |-> e, directory |-> Unloaded]
                                  ELSE [type |-> "file", entry |-> None]}

\* One iteration of fat16_find_item_in_directory and, for an entry with the
\* name, fat16_new_fat_item_for_directory_item up to the count of a directory.
\* An index behind the entries that were loaded reads what else is on the
\* heap, which is not followed.
fat16_find_item_in_directory ==
    /\ look = "search" /\ Searching
    /\ k' = k + 1
    /\ IF k >= Len(directory.items)
       THEN look' = "wild" /\ UNCHANGED <<slot, count, item, denied>>
       ELSE LET e == directory.items[k + 1]
                same == istrncmp(fat16_get_full_relative_filename(e), Head(todo))
            IN  \/ ~same /\ UNCHANGED <<look, slot, count, item, denied>>
                \/ /\ same /\ item' \in Refused(e) /\ denied' = TRUE
                   /\ UNCHANGED <<look, slot, count>>
                \/ /\ same /\ IsSubdirectory(e)
                   /\ look' = "count" /\ slot' = SlotOf(e.cluster) /\ count' = 0
                   /\ UNCHANGED <<item, denied>>
                \/ /\ same /\ ~IsSubdirectory(e)
                   /\ item' = [type |-> "file", entry |-> e]
                   /\ UNCHANGED <<look, slot, count, denied>>
    /\ UNCHANGED <<volume, root_directory, todo, directory, base>>

\* Mutant: every part is searched in the root directory.
EveryPartInRoot ==
    /\ look = "search" /\ ~Searching
    /\ IF item = NoItem \/ Len(todo) = 1
       THEN look' = (IF base /\ item = NoItem THEN "unset" ELSE "found") /\ UNCHANGED <<todo, directory, k, item, base>>
       ELSE todo' = Tail(todo) /\ SearchIn(root_directory) /\ base' = FALSE /\ UNCHANGED look
    /\ UNCHANGED <<volume, slot, count, root_directory, denied>>

(***************************************************************************)
(* The end of one part.  If it is the first and nothing was found, what is *)
(* returned is the local current_item, which is not assigned: any pointer. *)
(* A later part that is not the last and not found is dereferenced, and    *)
(* the type at address 4, an interrupt vector of the BIOS and not 0, ends  *)
(* the loop as that of a file does.  A search in a directory that is freed *)
(* or NULL is not followed.                                                *)
(***************************************************************************)
fat16_get_directory_entry ==
    /\ look = "search" /\ ~Searching
    /\ IF item = NoItem
       THEN look' = (IF base THEN "unset" ELSE "found") /\ UNCHANGED <<todo, directory, k, item, base>>
       ELSE IF Len(todo) = 1
       THEN look' = "found" /\ UNCHANGED <<todo, directory, k, item, base>>
       ELSE IF item.type = "file"
       THEN look' = "found" /\ item' = NoItem /\ UNCHANGED <<todo, directory, k, base>>
       ELSE IF ~item.directory.live
       THEN look' = "wild" /\ UNCHANGED <<todo, directory, k, item, base>>
       ELSE todo' = Tail(todo) /\ SearchIn(item.directory) /\ base' = FALSE /\ UNCHANGED look
    /\ UNCHANGED <<volume, slot, count, root_directory, denied>>

Mount == ~root_directory.live /\ (fat16_get_total_items_for_directory \/ fat16_get_root_directory)

Walk ==
    /\ root_directory.live
    /\ \/ fat16_get_total_items_for_directory \/ fat16_load_fat_directory
       \/ fat16_find_item_in_directory \/ fat16_get_directory_entry

-----------------------------------------------------------------------------
(***************************************************************************)
(* What a lookup is to find.                                               *)
(***************************************************************************)
\* The two fields of a name end where their padding begins.
Field(f) == fat16_to_proper_string(f \o <<Space>>)
ShortName(e) ==
    IF Field(e.ext) = <<>> THEN Field(e.filename) ELSE Field(e.filename) \o <<Dot>> \o Field(e.ext)

\* A field without padding is followed by something that ends it all the same.
Padded(e) ==
    /\ Field(e.filename) = e.filename => Field(e.ext) = <<>>
    /\ Field(e.ext) = e.ext => e.attribute \in {NUL, Space}

\* The directories: the root, and the first cluster of each subdirectory.
Area(first, size) == [j \in 1..size |-> At(first + j - 1)]
RootArea == Area(1, RootSlots)
AreaOf(e) == Area(SlotOf(e.cluster), ClusterSlots)
Areas == {RootArea} \cup {AreaOf(e) : e \in {f \in Range(volume) : IsSubdirectory(f)}}

\* The slots of a directory before the first blank one.
InUse(area) == 1..(Min({j \in DOMAIN area : IsBlank(area[j])}) - 1)

\* Each directory has a blank slot, and its names are padded.
Regular ==
    \A area \in Areas :
        /\ \E j \in DOMAIN area : IsBlank(area[j])
        /\ \A j \in InUse(area) : Padded(area[j])

NoneDeleted == \A area \in Areas : \A j \in InUse(area) : ~IsDeleted(area[j])

HasName(e, name) == tolower(ShortName(e)) = tolower(name)

\* The last of some slots with this name.
LastNamed(area, slots, name) ==
    LET matches == {j \in slots : HasName(area[j], name)}
    IN  IF matches = {} THEN None ELSE area[Max(matches)]

\* The entry of a directory that a name stands for: the last one in use.
Named(area, name) == LastNamed(area, {j \in InUse(area) : ~IsDeleted(area[j])}, name)

Below(e, name) == IF e = None \/ ~IsSubdirectory(e) THEN None ELSE Named(AreaOf(e), name)

Target(path) ==
    LET at[j \in 0..(Len(path) - 1)] ==
            IF j = 0 THEN Named(RootArea, path[1]) ELSE Below(at[j - 1], path[j + 1])
    IN  at[Len(path) - 1]

\* w leads along the path: an entry of the root directory with the first name,
\* an entry of its directory with the second, and so on.
Follows(w, path) ==
    \A n \in DOMAIN w :
        LET area == IF n = 1 THEN RootArea ELSE AreaOf(w[n - 1])
        IN  /\ n > 1 => IsSubdirectory(w[n - 1])
            /\ \E j \in InUse(area) : area[j] = w[n] /\ HasName(area[j], path[n])

LeadsTo(path, e) ==
    \E w \in [1..Len(path) -> Range(volume)] : Follows(w, path) /\ w[Len(path)] = e

(***************************************************************************)
(* On a regular disk a lookup never leaves the entries it has loaded,      *)
(* unless a kzalloc was refused, and whatever it finds is an entry that    *)
(* has the names of the path, whatever their case.  If no entry is deleted *)
(* and no kzalloc refused, it finds the last such entry, nothing only      *)
(* where there is none, and returns the unassigned local only if the root  *)
(* directory has no entry with the first name.                             *)
(***************************************************************************)
FindsTarget(path) ==
    Regular =>
        /\ look = "wild" => denied
        /\ look = "found" /\ item.entry # None => LeadsTo(path, item.entry)
        /\ NoneDeleted /\ ~denied =>
              /\ look = "found" => item.entry = Target(path)
              /\ look = "unset" => Named(RootArea, path[1]) = None
=============================================================================

-------------------------------- MODULE Files --------------------------------
(***************************************************************************)
(* The virtual file system (fs/file.c) over FAT16 (fs/fat/fat16.c):        *)
(* mounting the disk, the table of file descriptors, the lookup of a path  *)
(* in the directories, and the heap objects that the two layers keep for   *)
(* an open file.  Nothing preempts the kernel, so a call is one step.      *)
(*                                                                         *)
(* Objects stands for the heap: an object is a struct fat_file_descriptor  *)
(* (descs), a struct fat_item (items), or what the fat_item points to: the *)
(* clone of a file's entry, or a directory with its array (bodies).  A     *)
(* struct file_descriptor lives exactly as long as its entry of the table  *)
(* and has no name of its own.  What fread copies is the subject of module *)
(* Fat16Read.                                                              *)
(*                                                                         *)
(* Two local pointers are read before they are assigned: file_descriptor   *)
(* in fat16_open and current_item in fat16_get_directory_entry.  The build *)
(* is -O0, so each holds what an earlier call left in its stack slot: NULL,*)
(* an object's address, or Elsewhere.  stray remembers the addresses that  *)
(* pointers had which do not own them.                                     *)
(***************************************************************************)
EXTENDS Status, Sequences, FiniteSets, SequencesExt

CONSTANTS
    MaxObjects,      \* bound on the heap objects alive at a time
    NULL,
    Elsewhere,       \* an address at which none of the objects lies
    MaxDescriptors,  \* RAOS_MAX_FILE_DESCRIPTORS (512)
    Directory,       \* Directory[d]: the entries of d as they lie on the disk
    Root,            \* the root directory
    Filesize,        \* Filesize[f]: the size of file f
    Deleted,         \* the name of an entry whose first byte is 0xE5
    Paths,           \* what path_parse makes of fopen's string (PathParser)
    Modes,           \* the mode strings given to fopen
    Offsets,         \* the offsets given to fseek
    UINT32,          \* the range of a uint32_t (2^32)
    MaxOpens,        \* bound on the calls of fopen
    MaxStray         \* bound on the stray addresses

Objects == 1..MaxObjects

Nodes == DOMAIN Directory \cup DOMAIN Filesize

\* A directory holds a name once, as FAT has it; module Fat16Lookup has
\* directories that hold one twice.
ASSUME FilesAssumption ==
    /\ MaxObjects \in Nat /\ MaxOpens \in Nat /\ MaxStray \in Nat
    /\ MaxDescriptors \in Nat /\ MaxDescriptors >= 2
    /\ UINT32 \in Nat \ {0} /\ Offsets \subseteq Int
    /\ Root \in DOMAIN Directory
    /\ DOMAIN Directory \cap DOMAIN Filesize = {}
    /\ \A f \in DOMAIN Filesize : Filesize[f] \in 0..(UINT32 - 1)
    /\ \A d \in DOMAIN Directory :
          /\ Len(Directory[d]) \in Nat /\ DOMAIN Directory[d] = 1..Len(Directory[d])
          /\ \A i \in DOMAIN Directory[d] :
                LET e == Directory[d][i]
                IN  e = [name |-> e.name, node |-> e.node] /\ e.node \in Nodes
          /\ \A i, j \in DOMAIN Directory[d] :
                Directory[d][i].name = Directory[d][j].name => i = j \/ Directory[d][i].name = Deleted
    /\ \A path \in Paths :
          /\ Len(path) \in Nat /\ path = [k \in 1..Len(path) |-> path[k]]
          /\ \A k \in DOMAIN path : path[k] # Deleted
    /\ NULL \notin Objects /\ NULL \notin Nodes /\ NULL # Elsewhere
    /\ NULL \notin {"fat16", "fat_private", "unset"}
    /\ Elsewhere \notin Objects

VARIABLES
    disk,            \* the fields filesystem and fs_private of the disk
    filedescriptors, \* the table: private_ of each descriptor, or NULL
    descs,           \* the live fat_file_descriptors: item, pos and (history) the path
    items,           \* the live fat_items: type, and item or directory
    bodies,          \* the live clones and directories: the node of each
    stray,           \* history: addresses held by pointers that do not own them
    paths,           \* struct path_roots allocated and not freed
    ret              \* what the last call returned

objects == <<descs, items, bodies, stray>>

vars == <<disk, filedescriptors, objects, paths, ret>>

Fds == 1..MaxDescriptors
IsDirectory(n) == n \in DOMAIN Directory
Live == DOMAIN descs \cup DOMAIN items \cup DOMAIN bodies

Unbound == [filesystem |-> NULL, fs_private |-> NULL]

-----------------------------------------------------------------------------
(***************************************************************************)
(* fs_init, then disk_search_and_init: fs_resolve asks fat16_resolve, which*)
(* binds itself to the disk before it knows that the disk is a FAT16 one   *)
(* and takes back only fs_private when it is not.                          *)
(***************************************************************************)
fs_init ==
    /\ disk = [Unbound EXCEPT !.filesystem = "unset"]
    /\ filedescriptors = [fd \in Fds |-> NULL]
    /\ descs = <<>> /\ items = <<>> /\ bodies = <<>> /\ stray = {}
    /\ paths = 0
    /\ ret = 0

Init == fs_init

fat16_resolve(recognised) ==
    [filesystem |-> "fat16", fs_private |-> IF recognised THEN "fat_private" ELSE NULL]

fs_resolve(recognised) == IF recognised THEN "fat16" ELSE NULL

Mounted == disk.filesystem # "unset"

\* Mutant: the binding that fat16_resolve makes is taken for the result.
MountUnchecked(recognised) ==
    /\ ~Mounted
    /\ disk' = fat16_resolve(recognised)
    /\ UNCHANGED <<filedescriptors, objects, paths, ret>>

disk_search_and_init(recognised) ==
    /\ ~Mounted
    /\ disk' = [fat16_resolve(recognised) EXCEPT !.filesystem = fs_resolve(recognised)]
    /\ UNCHANGED <<filedescriptors, objects, paths, ret>>

-----------------------------------------------------------------------------
(***************************************************************************)
(* Looking a path up.  A directory's total counts the entries in use, and  *)
(* the search goes through that many entries from the first one.           *)
(*                                                                         *)
(* What is found is an item of some node, whose body may be held, NULL or  *)
(* freed; none; or one that is lost, since the path goes on after a file.  *)
(* wild and unset stand for pointers that nothing is known about.          *)
(***************************************************************************)
\* Mutant: the entry that ends the count is the last one in use.
TotalOneLess(d) ==
    Cardinality({i \in DOMAIN Directory[d] : Directory[d][i].name # Deleted}) - 1

fat16_get_total_items_for_directory(d) ==
    Cardinality({i \in DOMAIN Directory[d] : Directory[d][i].name # Deleted})

Matches(d, name) ==
    {i \in 1..fat16_get_total_items_for_directory(d) : Directory[d][i].name = name}

Item(node, body) == [at |-> "item", node |-> node, body |-> body]
NoItem == [at |-> "none", node |-> NULL, body |-> "null"]

\* fails is the allocation that fails here: that of the fat_item; that of its
\* clone or of its directory; or, for a directory, that of the array or the
\* read of its entries, after which the directory is freed and yet returned.
fat16_new_fat_item_for_directory_item(node, fails) ==
    CASE fails = "item"                        -> NoItem
      [] fails = "body"                        -> Item(node, "null")
      [] fails = "load" /\ IsDirectory(node)   -> Item(node, "freed")
      [] OTHER                                 -> Item(node, "held")

fat16_find_item_in_directory(d, name, fails) ==
    IF Matches(d, name) = {} THEN NoItem
    ELSE fat16_new_fat_item_for_directory_item(Directory[d][Max(Matches(d, name))].node, fails)

\* Mutant: a file met before the last part is what the path names.
WalkThroughFile(w, name, fails) ==
    IF w.at = "item" /\ IsDirectory(w.node) THEN fat16_find_item_in_directory(w.node, name, fails)
    ELSE w

\* One part of the path.  A file that is not the last part is dropped without
\* being freed.  A part after one that was not found reads the type through
\* NULL: the word at address 4, an interrupt vector of the BIOS, is not
\* FAT_ITEM_TYPE_DIRECTORY.  A search in a directory that is NULL or freed
\* may find anything, and the directory is freed once more after it.
WalkPart(w, name, fails) ==
    IF w.at # "item" THEN w
    ELSE CASE ~IsDirectory(w.node)                    -> [w EXCEPT !.at = "lost"]
           [] IsDirectory(w.node) /\ w.body # "held" -> [w EXCEPT !.at = "wild"]
           [] OTHER                                   -> fat16_find_item_in_directory(w.node, name, fails)

(***************************************************************************)
(* refused says what fails in a call of fopen: the path_root or the        *)
(* fat_file_descriptor, or an allocation for one part (a second part       *)
(* cannot matter: the search is over or wild after the first); entry says  *)
(* whether the struct file_descriptor is refused.  Only a call that reads  *)
(* from the disk comes to more than the path_root.                         *)
(***************************************************************************)
Refusals(path, drive, mode) ==
    [call : {"none", "path"}, part : {0}, entry : {FALSE}]
        \cup IF drive # 0 \/ mode # "r" THEN {}
             ELSE [call : {"none", "desc"}, part : {0}, entry : BOOLEAN]
                    \cup [call : {"item", "body", "load"}, part : DOMAIN path, entry : BOOLEAN]

NoneRefused == [call |-> "none", part |-> 0, entry |-> FALSE]

FailsAt(refused, k) == IF refused.part = k THEN refused.call ELSE "none"

\* If the first part is not found, the local current_item is not assigned.
fat16_get_directory_entry(path, refused) ==
    LET walk[k \in 0..Len(path)] ==
            IF k = 0 THEN Item(Root, "held")
            ELSE WalkPart(walk[k - 1], path[k], FailsAt(refused, k))
    IN  IF walk[1] = NoItem THEN [NoItem EXCEPT !.at = "unset"] ELSE walk[Len(path)]

Unassigned == {NULL, Elsewhere} \cup Objects

Without(f, S) == Restrict(f, DOMAIN f \ S)
With(f, o, x) == [p \in DOMAIN f \cup {o} |-> IF p = o THEN x ELSE f[p]]

\* kfree of some addresses, whatever object lies there.
Freed(S) ==
    /\ descs' = Without(descs, S) /\ items' = Without(items, S) /\ bodies' = Without(bodies, S)

-----------------------------------------------------------------------------
(***************************************************************************)
(* fopen.  It turns every error into 0 and frees neither the path nor,     *)
(* when the table is full, what fat16_open returned.                       *)
(***************************************************************************)
file_get_mode_by_string == {"r", "w", "a"}

Rejected(path, drive, mode, refused) ==
    \/ refused.call = "path" \/ path = <<>>
    \/ drive # 0 \/ disk.filesystem = NULL
    \/ mode \notin file_get_mode_by_string

FreeFds == {fd \in Fds : filedescriptors[fd] = NULL}

\* Mutant: the index is one more than that of the entry.
IndexOneMore(d, refused) ==
    IF FreeFds = {} THEN ret' = 0 /\ UNCHANGED filedescriptors
    ELSE /\ filedescriptors' = [filedescriptors EXCEPT ![Min(FreeFds)] = d]
         /\ ret' = Min(FreeFds) + 1

\* A refused kzalloc is not noticed: the fields are written through NULL, the
\* entry of the table stays 0, and the index is returned all the same.
file_new_descriptor(d, refused) ==
    IF FreeFds = {} THEN ret' = 0 /\ UNCHANGED filedescriptors
    ELSE /\ IF refused.entry THEN UNCHANGED filedescriptors
            ELSE filedescriptors' = [filedescriptors EXCEPT ![Min(FreeFds)] = d]
         /\ ret' = Min(FreeFds)

\* fat16_open returns d, whose item is i.
Opened(path, d, i, refused) ==
    /\ descs' = With(descs, d, [item |-> i, pos |-> 0, path |-> path])
    /\ file_new_descriptor(d, refused)

NotOpened == ret' = 0 /\ UNCHANGED <<filedescriptors, descs>>

\* The fat_item of w comes to lie at i and its body at b, or did before it was
\* freed.
NewItem(w, i, b) ==
    /\ items' = With(items, i, [type |-> IF IsDirectory(w.node) THEN "directory" ELSE "file",
                                body |-> IF w.body = "null" THEN NULL ELSE b])
    /\ bodies' = IF w.body = "held" THEN With(bodies, b, w.node) ELSE bodies
    /\ stray' = IF w.body = "freed" THEN stray \cup {b} ELSE stray

\* The heap hands out the lowest addresses first; those of the directories that
\* the search frees on its way are not told apart.
LowestFree(taken) ==
    {o \in Objects \ (Live \cup taken) : \A p \in Objects \ (Live \cup taken) : o <= p}

\* What comes of a pointer o about which nothing is known, in place of a
\* fat_item; after a wild search not even that the heap is sound.  The path has
\* not led to it, and is not kept.
AnyItem(w, d, o, refused) ==
    /\ IF o = NULL THEN NotOpened ELSE Opened(<<>>, d, o, refused)
    /\ stray' = stray \cup ({o} \cap Objects) \cup (IF w.at = "wild" THEN {Elsewhere} ELSE {})
    /\ UNCHANGED <<items, bodies>>

OpenLookup(path, refused) ==
    LET w == fat16_get_directory_entry(path, refused)
    IN  \E d \in LowestFree({}) : \E i \in LowestFree({d}) : \E b \in LowestFree({d, i}) :
          \/ w.at = "item" /\ Opened(path, d, i, refused) /\ NewItem(w, i, b)
          \/ w.at = "lost" /\ NotOpened /\ NewItem(w, i, b)
          \/ w.at = "none" /\ NotOpened /\ UNCHANGED <<items, bodies, stray>>
          \/ w.at \in {"unset", "wild"} /\ \E o \in Unassigned : AnyItem(w, d, o, refused)

\* A mode other than "r" frees the local file_descriptor, which is not assigned.
fat16_open(path, mode, refused) ==
    \/ /\ mode # "r"
       /\ \E o \in Unassigned : Freed({o}) /\ stray' = stray \cup ({o} \ {NULL})
       /\ ret' = 0 /\ UNCHANGED filedescriptors
    \/ mode = "r" /\ refused.call = "desc" /\ NotOpened /\ UNCHANGED <<items, bodies, stray>>
    \/ mode = "r" /\ refused.call # "desc" /\ OpenLookup(path, refused)

fopen(path, drive, mode, refused) ==
    /\ Mounted /\ paths < MaxOpens
    /\ paths' = IF refused.call = "path" THEN paths ELSE paths + 1
    /\ \/ /\ Rejected(path, drive, mode, refused)
          /\ NotOpened /\ UNCHANGED <<items, bodies, stray>>
       \/ /\ ~Rejected(path, drive, mode, refused)
          /\ fat16_open(path, mode, refused)
    /\ Cardinality(stray') <= MaxStray
    /\ UNCHANGED disk

-----------------------------------------------------------------------------
(***************************************************************************)
(* The calls on a descriptor.  One on a descriptor without a live          *)
(* fat_file_descriptor and fat_item is not followed.                       *)
(***************************************************************************)
file_get_descriptor(fd) ==
    IF fd <= 0 \/ fd >= MaxDescriptors THEN NULL ELSE filedescriptors[fd]

Intact(d) == d \in DOMAIN descs /\ descs[d].item \in DOMAIN items

ItemOf(d) == items[descs[d].item]

BadDescriptor(fd, code) ==
    file_get_descriptor(fd) = NULL /\ ret' = -code /\ UNCHANGED <<filedescriptors, descs, items, bodies>>

\* fread leaves pos alone; the read of a cluster may fail.
fread(fd, size, nmemb) ==
    /\ Mounted
    /\ \/ BadDescriptor(fd, EINVARG)
       \/ /\ size = 0 \/ nmemb = 0
          /\ ret' = -EINVARG
       \/ /\ size # 0 /\ nmemb # 0
          /\ Intact(file_get_descriptor(fd))
          /\ ret' \in {nmemb, -EIO}
    /\ UNCHANGED <<disk, filedescriptors, objects, paths>>

\* The size in the clone, or whatever lies where there is no clone.
Sizes(d) ==
    LET b == ItemOf(d).body
    IN  IF b \in DOMAIN bodies /\ bodies[b] \in DOMAIN Filesize THEN {Filesize[bodies[b]]}
        ELSE 0..(UINT32 - 1)

SeekRefused(d, offset, whence, size) ==
    IF ItemOf(d).type = "directory" THEN EINVARG
    ELSE IF offset % UINT32 >= size THEN EIO
    ELSE CASE whence = "SEEK_END"                -> EUNIMP
           [] whence \in {"SEEK_SET", "SEEK_CUR"} -> 0
           [] OTHER                              -> EINVARG

\* fat16_seek takes the offset as a uint32_t.
fseek(fd, offset, whence) ==
    /\ Mounted
    /\ \/ BadDescriptor(fd, EIO)
       \/ LET d == file_get_descriptor(fd)
              base == IF whence = "SEEK_SET" THEN 0 ELSE descs[d].pos
          IN  /\ Intact(d)
              /\ \E size \in Sizes(d) : ret' = -SeekRefused(d, offset, whence, size)
              /\ IF ret' = 0
                 THEN descs' = [descs EXCEPT ![d].pos = (base + offset) % UINT32]
                 ELSE UNCHANGED descs
    /\ UNCHANGED <<disk, filedescriptors, items, bodies, stray, paths>>

fat16_stat(d) == IF ItemOf(d).type = "directory" THEN -EINVARG ELSE 0

fstat(fd) ==
    /\ Mounted
    /\ \/ BadDescriptor(fd, EIO)
       \/ /\ Intact(file_get_descriptor(fd))
          /\ ret' = fat16_stat(file_get_descriptor(fd))
    /\ UNCHANGED <<disk, filedescriptors, objects, paths>>

\* Mutant: the entry of the table is not cleared.
FreeKeepsEntry(fd) == UNCHANGED filedescriptors

\* Mutant: the entry cleared is filedescriptors[index], that of the next one.
FreeNextEntry(fd) == filedescriptors' = [filedescriptors EXCEPT ![fd + 1] = NULL]

file_free_descriptor(fd) == filedescriptors' = [filedescriptors EXCEPT ![fd] = NULL]

\* Mutant: the fat_item is freed without what it points to.
CloseKeepsBody(d) == Freed({d, descs[d].item})

\* free_fat16_file_descriptor: what the fat_item points to, the fat_item and
\* the fat_file_descriptor are freed; kfree(NULL) does nothing (module Heap).
fat16_close(d) == Freed({d, descs[d].item, ItemOf(d).body})

fclose(fd) ==
    /\ Mounted
    /\ \/ BadDescriptor(fd, EIO)
       \/ /\ Intact(file_get_descriptor(fd))
          /\ fat16_close(file_get_descriptor(fd))
          /\ file_free_descriptor(fd)
          /\ ret' = 0
    /\ UNCHANGED <<disk, stray, paths>>

-----------------------------------------------------------------------------
Next ==
    \/ \E recognised \in BOOLEAN : disk_search_and_init(recognised)
    \/ \E path \in Paths, drive \in {0, 1}, mode \in Modes :
          \E refused \in Refusals(path, drive, mode) : fopen(path, drive, mode, refused)
    \/ \E fd \in 0..MaxDescriptors :
          \/ \E size, nmemb \in 0..1 : fread(fd, size, nmemb)
          \/ \E offset \in Offsets, whence \in {"SEEK_SET", "SEEK_CUR", "SEEK_END", "other"} :
                fseek(fd, offset, whence)
          \/ fstat(fd)
          \/ fclose(fd)

Spec == Init /\ [][Next]_vars

-----------------------------------------------------------------------------
OpenFds == {fd \in Fds : filedescriptors[fd] # NULL}

\* The type invariant; a position is one that a uint32_t holds, a returned
\* descriptor is one of the table, and no address is that of two objects.
TypeOK ==
    /\ disk \in [filesystem : {NULL, "unset", "fat16"}, fs_private : {NULL, "fat_private"}]
    /\ filedescriptors \in [Fds -> Objects \cup {NULL}]
    /\ Live \subseteq Objects /\ stray \subseteq Objects \cup {Elsewhere}
    /\ \A d \in DOMAIN descs :
          descs[d] \in [item : Objects \cup {Elsewhere}, pos : 0..(UINT32 - 1), path : Paths \cup {<<>>}]
    /\ \A i \in DOMAIN items :
          items[i] \in [type : {"file", "directory"}, body : Objects \cup {NULL}]
    /\ \A b \in DOMAIN bodies : bodies[b] \in Nodes
    /\ DOMAIN descs \cap DOMAIN items = {}
    /\ DOMAIN bodies \cap (DOMAIN descs \cup DOMAIN items) = {}
    /\ paths \in 0..MaxOpens
    /\ ret \in -EUNIMP..MaxDescriptors

\* The addresses that the calls on descriptor fd come to: its fat_file_descriptor,
\* fat_item and clone or directory.
Reach(fd) ==
    LET d == filedescriptors[fd]
        i == IF d \in DOMAIN descs THEN descs[d].item ELSE NULL
        b == IF i \in DOMAIN items THEN items[i].body ELSE NULL
    IN  {d, i, b} \ {NULL}

\* No stray pointer has held one of these addresses, nor freed anything else.
Clear(fd) == Reach(fd) \subseteq Objects \ stray /\ Elsewhere \notin stray

\* The objects of an open descriptor are allocated and its own, unless one of
\* their addresses was in an unassigned local or in a directory freed by a
\* failing load: no call follows a freed pointer and no fclose frees what another
\* descriptor uses.  Nor does fopen, which looks at the file system of the disk
\* only, go on to use private data that fat16_resolve has freed.
OwnLiveObjects ==
    /\ disk.filesystem = "fat16" => disk.fs_private # NULL
    /\ \A fd \in OpenFds : Clear(fd) =>
          /\ Reach(fd) \subseteq Live /\ Intact(filedescriptors[fd])
          /\ \A other \in OpenFds \ {fd} : Reach(fd) \cap Reach(other) = {}

\* Node n is what the path names, read off the directories one part at a time.
Names(path, n) ==
    \E chain \in [0..Len(path) -> Nodes] :
        /\ chain[0] = Root /\ chain[Len(path)] = n
        /\ \A k \in DOMAIN path :
              /\ IsDirectory(chain[k - 1])
              /\ \E i \in DOMAIN Directory[chain[k - 1]] :
                    Directory[chain[k - 1]][i] = [name |-> path[k], node |-> chain[k]]

\* A fat_item of type t whose clone or directory is that of node n.
RefersTo(i, n) ==
    /\ items[i].type = IF IsDirectory(n) THEN "directory" ELSE "file"
    /\ items[i].body # NULL => bodies[items[i].body] = n

\* An open descriptor refers to the file or directory that its path names
\* (fat16_get_directory_entry), whichever kzalloc was refused, unless a stray
\* pointer held one of its addresses.
OpenNamesItsPath ==
    \A fd \in OpenFds : Clear(fd) =>
        LET d == filedescriptors[fd]
        IN  \E n \in Nodes : Names(descs[d].path, n) /\ RefersTo(descs[d].item, n)

\* What a caller has of descriptor fd.
View(fd) ==
    LET d == filedescriptors[fd]
    IN  IF Intact(d) THEN <<d, descs[d], ItemOf(d), Restrict(bodies, {ItemOf(d).body} \cap DOMAIN bodies)>>
        ELSE <<NULL>>

\* The descriptor is clear of stray pointers after the step as well.
StaysClear(fd) == Reach(fd) \subseteq Objects \ stray' /\ Elsewhere \notin stray'

\* A call opens, closes or moves one descriptor at most: what the others refer
\* to and their positions stay as they are, of those that stay clear of stray
\* pointers.
OneDescriptorPerCall ==
    [][\A a, b \in Fds : a # b /\ StaysClear(a) /\ StaysClear(b) =>
          View(a)' = View(a) \/ View(b)' = View(b)]_<<filedescriptors, objects>>

\* No directory that the path leads through holds a deleted entry.
NoneDeleted(path) ==
    \A k \in 0..(Len(path) - 1), d \in DOMAIN Directory :
        Names(SubSeq(path, 1, k), d) => \A i \in DOMAIN Directory[d] : Directory[d][i].name # Deleted

\* The paths that name something, through such directories.
Existing == {path \in Paths \ {<<>>} : NoneDeleted(path) /\ \E n \in Nodes : Names(path, n)}

\* fopen does not fail for a path that names something while there is memory
\* and a free entry.
NoExistingFails ==
    paths' # paths /\ ret' = 0 /\ disk.filesystem = "fat16" /\ FreeFds # {}
        => \A path \in Existing : ~fopen(path, 0, "r", NoneRefused)

\* When there is memory and a free entry, fopen fails only for a path that
\* names nothing, or one through a directory with a deleted entry
\* (fat16_find_item_in_directory does not look at all entries of those).
ExistingOpens == [][NoExistingFails]_vars

\* What FAT16 allocated and fclose can no longer free.
Orphans == Live \ UNION {Reach(fd) : fd \in OpenFds}

\* The paths that go on after a file.
ThroughFile ==
    {path \in Paths : \E k \in 1..(Len(path) - 1), f \in DOMAIN Filesize :
                          Names(SubSeq(path, 1, k), f)}

\* A step that loses nothing, or an fopen that meets a full table, one that
\* returns an entry it did not fill, or a path through a file.
LosesOnlyThere ==
    \/ Orphans' \subseteq Orphans
    \/ FreeFds = {} /\ paths' # paths
    \/ paths' # paths /\ ret' # 0 /\ filedescriptors' = filedescriptors
    \/ \E path \in ThroughFile : \E refused \in Refusals(path, 0, "r") : fopen(path, 0, "r", refused)

\* As long as there is no stray pointer, what FAT16 allocates for a descriptor is
\* lost only by an fopen that meets a full table, a refused struct
\* file_descriptor or a path through a file: not by fclose, by a missing file or
\* by another kzalloc that fails midway.  (The path_root and its parts are never
\* freed: paths counts them.)
LeaksOnlyThere == [][stray' = {} => LosesOnlyThere]_<<filedescriptors, objects>>
=============================================================================

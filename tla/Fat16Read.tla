------------------------------ MODULE Fat16Read ------------------------------
(***************************************************************************)
(* fread's way to the disk: the loop of fat16_read over the members, the   *)
(* recursion of fat16_read_items_of_directory over the clusters, the loop  *)
(* of fat16_get_cluster_for_offset over the FAT and the recursion of       *)
(* diskstreamer_read over the sectors.  One behaviour is one call.         *)
(*                                                                         *)
(* The byte at position p of the disk is represented by p, so that out     *)
(* tells which bytes were copied.  Both recursions are tail calls and are  *)
(* loops here.  disk_read_block never fails.                               *)
(***************************************************************************)
EXTENDS Status, Sequences

CONSTANTS
    SectorSize,         \* RAOS_SECTOR_SIZE (512)
    SectorsPerCluster,
    FatStart,           \* the position of the FAT: reserved_sectors sectors
    DataStart,          \* the position of cluster 2: end_sector_pos sectors
    Words,              \* what the disk may hold where a FAT entry is looked for,
                        \* as the int that fat16_get_cluster_for_offset makes of it
    UIntRange,          \* the number of values of a uint32_t (2^32)
    Chain,              \* the clusters of the file, in order
    filesize,           \* its size in bytes
    MaxSize, MaxMembers,\* bounds on the arguments of fread
    Stack               \* a byte of the stack that is not in the sector buffer

ClusterSize == SectorsPerCluster * SectorSize

ASSUME ReadAssumption ==
    /\ SectorSize \in Nat \ {0} /\ SectorsPerCluster \in Nat \ {0}
    /\ FatStart \in Nat /\ DataStart \in Nat /\ DataStart % SectorSize = 0
    /\ Chain \in Seq(Nat) /\ Len(Chain) > 0 /\ \A k \in DOMAIN Chain : Chain[k] >= 2
    /\ filesize \in 1..(Len(Chain) * ClusterSize)
    /\ Words \subseteq Int /\ UIntRange \in Nat \ {0}
    /\ MaxSize \in Nat /\ MaxMembers \in Nat

VARIABLES
    pc,           \* where the call is
    req,          \* its arguments: pos, size and nmemb
    i,            \* members read
    offset,       \* fat16_read_items_of_directory: offset, total
    total,
    chunk,        \*   and total_to_read
    hops,         \* fat16_get_cluster_for_offset: iterations left
    cluster_pos,  \*   and its cluster
    fat_stream,   \* the positions of the two disk streams
    stream,
    left,         \* diskstreamer_read: bytes still to read
    out,          \* the bytes copied
    res           \* the result

memberVars == <<req, i>>
chainVars == <<hops, cluster_pos, fat_stream>>
streamVars == <<stream, left, out>>
readVars == <<pc, memberVars, offset, total, chunk, chainVars, streamVars, res>>

RAOS_FAT16_ENTRY_SIZE == 2
Unusable == {0, 4080, 4086, 4087, 4088, 4095} \* 0x0, 0xFF0, 0xFF6, 0xFF7, 0xFF8, 0xFFF

Minimum(a, b) == IF a < b THEN a ELSE b

\* fseek leaves the position inside the file or, with SEEK_CUR, past its end;
\* fread is asked for bytes inside the file here.
ReadInit ==
    /\ req \in {r \in [pos : 0..(filesize - 1), size : 1..MaxSize, nmemb : 1..MaxMembers] :
                   r.pos + r.size * r.nmemb <= filesize}
    /\ pc = "member"
    /\ i = 0 /\ offset = 0 /\ total = 0 /\ chunk = 0
    /\ hops = 0 /\ cluster_pos = 0 /\ fat_stream = 0
    /\ stream = 0 /\ left = 0 /\ out = <<>>
    /\ res = 0

\* The entry of fat16_read_items_of_directory, which starts from the file's
\* first cluster whatever the offset.
ReadItems(from, bytes) ==
    /\ offset' = from /\ total' = bytes
    /\ hops' = from \div ClusterSize
    /\ cluster_pos' = Chain[1]
    /\ pc' = "chain"

-----------------------------------------------------------------------------
\* Mutant: the offset is not advanced from one member to the next.
MemberKeepsOffset ==
    /\ pc = "member"
    /\ IF i < req.nmemb
       THEN ReadItems(req.pos, req.size) /\ UNCHANGED res
       ELSE pc' = "done" /\ res' = req.nmemb /\ UNCHANGED <<offset, total, hops, cluster_pos>>
    /\ UNCHANGED <<memberVars, chunk, fat_stream, streamVars>>

\* The loop of fat16_read.
fat16_read ==
    /\ pc = "member"
    /\ IF i < req.nmemb
       THEN ReadItems(req.pos + i * req.size, req.size) /\ UNCHANGED res
       ELSE pc' = "done" /\ res' = req.nmemb /\ UNCHANGED <<offset, total, hops, cluster_pos>>
    /\ UNCHANGED <<memberVars, chunk, fat_stream, streamVars>>

\* The position that fat16_get_fat_entry seeks to: an unsigned product.
fat16_get_fat_entry(c) == (FatStart * (c * RAOS_FAT16_ENTRY_SIZE)) % UIntRange

\* Mutant: the loop does not count its iterations.
ChainForever ==
    /\ pc = "chain" /\ hops > 0
    /\ fat_stream' = fat16_get_fat_entry(cluster_pos) + 4
    /\ \E entry \in Words :
          IF entry \in Unusable
          THEN pc' = "done" /\ res' = -EIO /\ UNCHANGED cluster_pos
          ELSE cluster_pos' = entry /\ UNCHANGED <<pc, res>>
    /\ UNCHANGED <<memberVars, offset, total, chunk, hops, streamVars>>

\* One iteration of the loop of fat16_get_cluster_for_offset.  The position is
\* not that of an entry of the FAT (see EntryOfCluster), so what is read there
\* is any of Words; the loop goes on from a negative one as from any other.
fat16_get_cluster_for_offset ==
    /\ pc = "chain" /\ hops > 0
    /\ fat_stream' = fat16_get_fat_entry(cluster_pos) + 4
    /\ \E entry \in Words :
          IF entry \in Unusable
          THEN pc' = "done" /\ res' = -EIO /\ UNCHANGED <<hops, cluster_pos>>
          ELSE hops' = hops - 1 /\ cluster_pos' = entry /\ UNCHANGED <<pc, res>>
    /\ UNCHANGED <<memberVars, offset, total, chunk, streamVars>>

\* Mutant: the cluster found is not tested.
SeekUnchecked ==
    /\ pc = "chain" /\ hops = 0
    /\ stream' = DataStart + (Chain[1] - 2) * ClusterSize + (offset % ClusterSize)
    /\ chunk' = Minimum(total, ClusterSize)
    /\ left' = Minimum(total, ClusterSize)
    /\ pc' = "stream"
    /\ UNCHANGED <<memberVars, offset, total, chainVars, out, res>>

\* What fat16_read_items_of_directory does with the cluster found: a negative
\* one is its result and, through fat16_read, that of fread; any other is not
\* used, and the first byte to read is sought from the file's first cluster.
SeekCluster ==
    /\ pc = "chain" /\ hops = 0
    /\ IF cluster_pos < 0
       THEN pc' = "done" /\ res' = cluster_pos /\ UNCHANGED <<stream, chunk, left>>
       ELSE /\ stream' = DataStart + (Chain[1] - 2) * ClusterSize + (offset % ClusterSize)
            /\ chunk' = Minimum(total, ClusterSize)
            /\ left' = Minimum(total, ClusterSize)
            /\ pc' = "stream" /\ UNCHANGED res
    /\ UNCHANGED <<memberVars, offset, total, chainVars, out>>

\* Mutant: the stream stays where the sector begins.
StreamStays ==
    /\ pc = "stream"
    /\ LET n == Minimum(left, SectorSize)
           first == stream % SectorSize
       IN  /\ out' = out \o [k \in 1..n |->
                                IF first + k <= SectorSize THEN stream + k - 1 ELSE Stack]
           /\ stream' = IF left > SectorSize THEN stream + n ELSE stream
           /\ left' = left - n
    /\ pc' = IF left > SectorSize THEN "stream" ELSE "items"
    /\ UNCHANGED <<memberVars, offset, total, chunk, chainVars, res>>

\* Mutant: the copy loop runs once more (i <= total_to_read).
StreamOneMore ==
    /\ pc = "stream"
    /\ LET n == Minimum(left, SectorSize)
           first == stream % SectorSize
       IN  /\ out' = out \o [k \in 1..(n + 1) |->
                                IF first + k <= SectorSize THEN stream + k - 1 ELSE Stack]
           /\ stream' = stream + n
           /\ left' = left - n
    /\ pc' = IF left > SectorSize THEN "stream" ELSE "items"
    /\ UNCHANGED <<memberVars, offset, total, chunk, chainVars, res>>

\* One call of diskstreamer_read: it reads the sector that holds the position
\* and copies at most a sector's worth of bytes, past the end of the buffer
\* when the position is inside the sector and the bytes do not end with it.
diskstreamer_read ==
    /\ pc = "stream"
    /\ LET n == Minimum(left, SectorSize)
           first == stream % SectorSize
       IN  /\ out' = out \o [k \in 1..n |->
                                IF first + k <= SectorSize THEN stream + k - 1 ELSE Stack]
           /\ stream' = stream + n
           /\ left' = left - n
    /\ pc' = IF left > SectorSize THEN "stream" ELSE "items"
    /\ UNCHANGED <<memberVars, offset, total, chunk, chainVars, res>>

\* The end of fat16_read_items_of_directory: the next cluster, or the return
\* to the loop of fat16_read.
fat16_read_items_of_directory ==
    /\ pc = "items"
    /\ IF total > chunk
       THEN ReadItems(offset + chunk, total - chunk) /\ UNCHANGED i
       ELSE i' = i + 1 /\ pc' = "member" /\ UNCHANGED <<offset, total, hops, cluster_pos>>
    /\ UNCHANGED <<req, chunk, fat_stream, streamVars, res>>

ReadNext ==
    \/ fat16_read
    \/ fat16_get_cluster_for_offset
    \/ SeekCluster
    \/ diskstreamer_read
    \/ fat16_read_items_of_directory

ReadSpec == ReadInit /\ [][ReadNext]_readVars

\* A call of the kernel runs to its end.
FairReadSpec == ReadSpec /\ WF_readVars(ReadNext)

-----------------------------------------------------------------------------
\* The type invariant: no more bytes are copied than were asked for; the result
\* is a number of members, -EIO or a negative word of the disk, and no data is
\* read after a walk along the FAT that ended in a negative cluster.
ReadTypeOK ==
    /\ pc \in {"member", "chain", "stream", "items", "done"}
    /\ i \in 0..req.nmemb
    /\ offset \in 0..(filesize - 1)
    /\ total \in 0..req.size /\ chunk \in 0..ClusterSize /\ left \in 0..chunk
    /\ hops \in 0..(filesize \div ClusterSize)
    /\ Len(out) <= req.size * req.nmemb
    /\ \A k \in DOMAIN out : out[k] = Stack \/ out[k] >= DataStart
    /\ cluster_pos \in Int
    /\ pc \in {"stream", "items"} => cluster_pos >= 0
    /\ res \in {-EIO} \cup {w \in Words : w < 0} \cup 0..MaxMembers

\* The byte of the disk that is byte k of the file.
ByteOfFile(k) ==
    DataStart + (Chain[k \div ClusterSize + 1] - 2) * ClusterSize + (k % ClusterSize)

Wanted == [k \in 1..(req.size * req.nmemb) |-> ByteOfFile(req.pos + k - 1)]

\* Every byte asked for is in the first cluster, and no member crosses from
\* one sector into another, except one that begins with a sector.
Simple ==
    /\ req.pos + req.size * req.nmemb <= ClusterSize
    /\ \A m \in 0..(req.nmemb - 1) :
          LET first == (req.pos + m * req.size) % SectorSize
          IN  first = 0 \/ first + req.size <= SectorSize

\* A simple read succeeds and copies the bytes of the file at the position
\* asked for, across members and across the sectors of one member; on the way
\* the stream is ahead of where the read began by exactly the bytes read.
SimpleReadExact ==
    /\ pc = "done" /\ Simple => res = req.nmemb /\ out = Wanted
    /\ pc \in {"stream", "items"} =>
          stream + left = DataStart + (Chain[1] - 2) * ClusterSize
                              + (offset % ClusterSize) + chunk

\* fread returns: every loop and recursion ends.
Returns == <>(pc = "done")

\* What is copied are bytes of the disk: diskstreamer_read never copies from
\* outside the sector it has read.
CopiesDiskBytes == \A k \in DOMAIN out : out[k] # Stack

\* A read that succeeds has copied the bytes of the file, whatever the cluster
\* they are in.
ReadIsFile ==
    pc = "done" /\ res >= 0 /\ (\A k \in DOMAIN out : out[k] # Stack) => out = Wanted

\* fat16_get_fat_entry reads the entry of the cluster it is asked about.
EntryOfCluster ==
    pc = "chain" /\ hops > 0 =>
        fat16_get_fat_entry(cluster_pos) = FatStart + cluster_pos * RAOS_FAT16_ENTRY_SIZE
=============================================================================

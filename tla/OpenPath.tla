------------------------------ MODULE OpenPath -------------------------------
(***************************************************************************)
(* From the string given to fopen to an entry of the disk: fat16_resolve   *)
(* loads the root directory, path_parse cuts the string (PathParser), and  *)
(* fat16_open follows the parts (Fat16Lookup).                             *)
(***************************************************************************)
EXTENDS PathParser

CONSTANTS
    FirstDrive,     \* the character '0'
    Disks, RootSlots, ClusterSlots, Space, Dot, DeletedByte, SubdirByte, Lower, None

VARIABLES volume, look, slot, count, root_directory, todo, directory, k, item, base, denied

L == INSTANCE Fat16Lookup

\* A sequence of at least one byte.
IsString(s) == Len(s) \in Nat \ {0} /\ s = [j \in 1..Len(s) |-> s[j]]

ASSUME DiskAssumption ==
    /\ RootSlots \in Nat \ {0} /\ ClusterSlots \in Nat \ {0}
    /\ None \notin {"file", "directory"}
    /\ \A d \in Disks :
          /\ Len(d) \in Nat /\ Len(d) >= RootSlots /\ DOMAIN d = 1..Len(d)
          /\ \A j \in DOMAIN d :
                /\ d[j] # None
                /\ IsString(d[j].filename) /\ IsString(d[j].ext)
                /\ d[j].cluster \in Nat
                /\ d[j].attribute = SubdirByte => d[j].cluster >= 2

lookupVars == <<volume, look, slot, count, root_directory, todo, directory, k, item, base, denied>>

openVars == <<pathVars, lookupVars>>

OpenInit == PathInit /\ L!Init

Mount == L!Mount /\ UNCHANGED pathVars

\* path_parse is called once the disk is mounted.
ParsePath == look = "mounted" /\ Parse /\ UNCHANGED lookupVars

\* fopen gives up without a part, and disk_get knows the first drive only.
LookupPath ==
    /\ parse = "done" /\ root = FirstDrive /\ parts # <<>>
    /\ L!Lookup(parts)
    /\ UNCHANGED pathVars

Walk == parse = "done" /\ L!Walk /\ UNCHANGED pathVars

\* What a caller of path_free would do with the path_root after the lookup.
ReleasePath == look \notin {"count", "load", "search"} /\ path_free /\ UNCHANGED lookupVars

OpenNext == Mount \/ ParsePath \/ LookupPath \/ Walk \/ ReleasePath

OpenSpec == OpenInit /\ [][OpenNext]_openVars

-----------------------------------------------------------------------------
(***************************************************************************)
(* From the characters given to fopen to the slot of the disk, the loops   *)
(* of the two layers agree about where a name ends, how many entries there *)
(* are and which one of them counts (see FindsTarget); deleted entries may *)
(* hide others, and refused kzallocs end a lookup early, but neither makes *)
(* it find another file.                                                   *)
(***************************************************************************)
LookupExact == parse = "done" /\ parts # <<>> => L!FindsTarget(parts)
=============================================================================

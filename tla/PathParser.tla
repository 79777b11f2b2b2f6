----------------------------- MODULE PathParser ------------------------------
(***************************************************************************)
(* path_parse and path_free (fs/pparser.c): the string given to fopen is   *)
(* cut into a list of parts, one character per step.                       *)
(*                                                                         *)
(* A string is a sequence of characters and a pointer into it an index     *)
(* from 0, so that index Len is its zero byte.  A kzalloc may be refused   *)
(* (refused); nothing here checks that.  The string is then written to     *)
(* address 0 and every function returns NULL, so that parsing ends.        *)
(***************************************************************************)
EXTENDS Integers, Sequences, SequencesExt

CONSTANTS
    Filenames,      \* the strings given to path_parse
    MaxPath,        \* RAOS_MAX_PATH (128)
    Digits,         \* the characters '0' to '9'
    Colon, Slash,   \* ':' and '/'
    NUL,            \* the zero byte
    MayRefuse       \* kzalloc may be refused

\* The characters of the strings.
Chars == UNION {Range(f) : f \in Filenames}

ASSUME PathAssumption ==
    /\ MaxPath \in Nat /\ MaxPath >= 3
    /\ MayRefuse \in BOOLEAN
    /\ \A f \in Filenames : f \in Seq(Chars)
    /\ NUL \notin Chars /\ Slash # NUL

VARIABLES
    filename,       \* the argument
    parse,          \* where the call is
    str_path,       \* the pointer into filename
    path_part,      \* the characters copied into the buffer of this part
    root,           \* drive_no of the path_root, or NUL without one
    parts,          \* the part strings of the list behind root->first
    strings, nodes, \* heap objects: part buffers and struct path_parts
    refused         \* the kzalloc that was refused

pathVars == <<filename, parse, str_path, path_part, root, parts, strings, nodes, refused>>

PathInit ==
    /\ filename \in Filenames
    /\ parse = "start" /\ str_path = 0 /\ path_part = <<>>
    /\ root = NUL /\ parts = <<>>
    /\ strings = 0 /\ nodes = 0
    /\ refused = "none"

CharAt(p) == IF p < Len(filename) THEN filename[p + 1] ELSE NUL

\* kzalloc of an object: granted, or refused and noted.
Granted == UNCHANGED refused
Refuse(kind) == MayRefuse /\ refused' = kind

-----------------------------------------------------------------------------
path_valid_format ==
    /\ Len(filename) >= 3
    /\ CharAt(0) \in Digits /\ CharAt(1) = Colon /\ CharAt(2) = Slash

\* The length, path_get_drive_by_path and path_create_root.
path_parse ==
    /\ parse = "start"
    /\ UNCHANGED <<filename, path_part, parts, strings, nodes>>
    /\ \/ /\ Len(filename) > MaxPath \/ ~path_valid_format
          /\ parse' = "done"
          /\ UNCHANGED <<str_path, root, refused>>
       \/ /\ Len(filename) <= MaxPath /\ path_valid_format
          /\ str_path' = 3
          /\ \/ Granted /\ root' = CharAt(0) /\ parse' = "part"
             \/ Refuse("root") /\ parse' = "done" /\ UNCHANGED root

\* path_get_path_part: the buffer, its loop and its end.
PartBuffer ==
    /\ parse = "part"
    /\ path_part' = <<>> /\ parse' = "copy"
    /\ \/ Granted /\ strings' = strings + 1
       \/ Refuse("string") /\ UNCHANGED strings
    /\ UNCHANGED <<filename, str_path, root, parts, nodes>>

CopyChar ==
    /\ parse = "copy" /\ CharAt(str_path) \notin {Slash, NUL}
    /\ path_part' = Append(path_part, CharAt(str_path))
    /\ str_path' = str_path + 1
    /\ UNCHANGED <<filename, parse, root, parts, strings, nodes, refused>>

\* Mutant: the character that ended the part is skipped, whichever it is.
PartEndSkips ==
    /\ parse = "copy" /\ CharAt(str_path) \in {Slash, NUL}
    /\ str_path' = str_path + 1
    /\ \/ path_part = <<>> /\ parse' = "done" /\ strings' = IF refused = "string" THEN strings ELSE strings - 1
       \/ path_part # <<>> /\ UNCHANGED strings /\ parse' = IF refused = "string" THEN "done" ELSE "node"
    /\ UNCHANGED <<filename, path_part, root, parts, nodes, refused>>

PartEnd ==
    /\ parse = "copy" /\ CharAt(str_path) \in {Slash, NUL}
    /\ str_path' = IF CharAt(str_path) = Slash THEN str_path + 1 ELSE str_path
    /\ \/ path_part = <<>> /\ parse' = "done" /\ strings' = IF refused = "string" THEN strings ELSE strings - 1
       \/ path_part # <<>> /\ UNCHANGED strings /\ parse' = IF refused = "string" THEN "done" ELSE "node"
    /\ UNCHANGED <<filename, path_part, root, parts, nodes, refused>>

\* Mutant: the new part becomes the first one.
PartAtFront ==
    /\ parse = "node"
    /\ \/ Granted /\ nodes' = nodes + 1 /\ parts' = <<path_part>> \o parts /\ parse' = "part"
       \/ Refuse("node") /\ parse' = "done" /\ UNCHANGED <<nodes, parts>>
    /\ UNCHANGED <<filename, str_path, path_part, root, strings>>

\* path_parse_path_part links the part to the list.
path_parse_path_part ==
    /\ parse = "node"
    /\ \/ Granted /\ nodes' = nodes + 1 /\ parts' = Append(parts, path_part) /\ parse' = "part"
       \/ Refuse("node") /\ parse' = "done" /\ UNCHANGED <<nodes, parts>>
    /\ UNCHANGED <<filename, str_path, path_part, root, strings>>

Parse == path_parse \/ PartBuffer \/ CopyChar \/ PartEnd \/ path_parse_path_part

\* Mutant: the string of the part is not freed.
FreeKeepsStrings ==
    /\ parse \in {"done", "freeing"} /\ root # NUL
    /\ IF parts # <<>>
       THEN /\ parts' = Tail(parts) /\ nodes' = nodes - 1
            /\ parse' = "freeing" /\ UNCHANGED <<root, strings>>
       ELSE parse' = "freed" /\ root' = NUL /\ UNCHANGED <<parts, strings, nodes>>
    /\ UNCHANGED <<filename, str_path, path_part, refused>>

\* One iteration of path_free's loop, then the root.  The kernel has no caller
\* of it: fopen keeps every path_root (module Files).
path_free ==
    /\ parse \in {"done", "freeing"} /\ root # NUL
    /\ IF parts # <<>>
       THEN /\ parts' = Tail(parts) /\ nodes' = nodes - 1 /\ strings' = strings - 1
            /\ parse' = "freeing" /\ UNCHANGED root
       ELSE parse' = "freed" /\ root' = NUL /\ UNCHANGED <<parts, strings, nodes>>
    /\ UNCHANGED <<filename, str_path, path_part, refused>>

PathNext == Parse \/ path_free

PathSpec == PathInit /\ [][PathNext]_pathVars

-----------------------------------------------------------------------------
\* The pointer never passes the zero byte of the path, and a part and its own
\* zero byte fit into the buffer that path_get_path_part allocates, although
\* its loop looks at neither length.
InBounds ==
    /\ str_path <= Len(filename)
    /\ Len(path_part) < MaxPath

-----------------------------------------------------------------------------
(***************************************************************************)
(* What path_parse is to compute.                                          *)
(***************************************************************************)
Valid == Len(filename) <= MaxPath /\ path_valid_format

\* Where a name may begin: behind the drive, or behind the character that ends
\* the name before it, the zero byte included.
Starts == 4..(Len(filename) + 2)

\* names are the first ones of the path, each from at[m] to the slash or the
\* end before at[m + 1], and none of them is empty.
NamesAt(names, at) ==
    /\ at[1] = 4
    /\ \A m \in DOMAIN names :
          LET first == at[m]
              last == at[m + 1] - 2
          IN  /\ first <= last
              /\ names[m] = SubSeq(filename, first, last)
              /\ \A j \in first..last : filename[j] # Slash
              /\ last = Len(filename) \/ filename[last + 1] = Slash

\* The path is at its end, or the next name is empty.
NoNameAt(s) == s > Len(filename) \/ filename[s] = Slash

\* names are the names between two slashes, up to the first empty one, or, if
\* not complete, some of them from the first on.
Components(names, complete) ==
    \E at \in [1..(Len(names) + 1) -> Starts] :
        /\ NamesAt(names, at)
        /\ complete => NoNameAt(at[Len(names) + 1])

(***************************************************************************)
(* path_parse returns the drive and the names of a well-formed path, and   *)
(* nothing for any other string.  A refused kzalloc is not reported: what  *)
(* is returned is a beginning of the names, or nothing.                    *)
(***************************************************************************)
ParseExact ==
    parse = "done" =>
        /\ root # NUL => /\ Valid /\ root = filename[1]
                         /\ Components(parts, refused = "none")
        /\ refused = "none" /\ Valid => root # NUL

\* The heap holds the nodes and strings of the list and, while a part is being
\* read, its buffer; the string of a node that was refused is lost, and
\* path_free gives everything else back.
ListOwnsObjects ==
    /\ nodes = Len(parts)
    /\ strings = Len(parts)
                    + (IF parse \in {"copy", "node"} /\ refused # "string" THEN 1 ELSE 0)
                    + (IF refused = "node" THEN 1 ELSE 0)
    /\ parse = "freed" => parts = <<>>
=============================================================================

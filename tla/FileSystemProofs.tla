-------------------------- MODULE FileSystemProofs ---------------------------
(***************************************************************************)
(* Theorems about the file system.                                         *)
(*                                                                         *)
(* First the path parser.  The copy loop of path_get_path_part has no      *)
(* bound of its own; that it stays inside the path and inside its buffer,  *)
(* for every string and every RAOS_MAX_PATH, follows from the length that  *)
(* path_parse checks once and from the three characters of the drive.      *)
(* Then the descriptors of the virtual file system and the objects that    *)
(* FAT16 keeps for them (module Files), and last the loops of one fread    *)
(* (module Fat16Read).                                                     *)
(***************************************************************************)
EXTENDS OpenPath, Files, Fat16Read, NatLemmas

Parsing == parse \in {"part", "copy", "node"}

\* The inductive invariant.  While characters are copied, the part is at least
\* three behind the pointer; a part that is complete keeps that distance to
\* the largest length.
PInv ==
    /\ filename \in Filenames
    /\ str_path \in Nat /\ str_path <= Len(filename)
    /\ path_part \in Seq(Chars) /\ Len(path_part) + 3 <= MaxPath
    /\ Parsing => str_path >= 3 /\ Len(filename) <= MaxPath
    /\ parse = "copy" => Len(path_part) + 3 <= str_path

\* The strings are sequences of characters, none of them the zero byte.
LEMMA Strings ==
    ASSUME filename \in Filenames
    PROVE  /\ filename \in Seq(Chars) /\ Len(filename) \in Nat
           /\ \A n \in 1..Len(filename) : filename[n] \in Chars
<1>1. filename \in Seq(Chars)
  BY PathAssumption
<1>2. QED
  BY <1>1

\* A character that is not the zero byte is one before the end.
LEMMA InsideString ==
    ASSUME filename \in Filenames, str_path \in Nat, CharAt(str_path) # NUL
    PROVE  str_path + 1 <= Len(filename) /\ CharAt(str_path) \in Chars
<1>1. str_path < Len(filename)
  BY Strings DEF CharAt
<1>2. QED
  BY <1>1, Strings DEF CharAt

LEMMA PInvInit == PathInit => PInv
<1> SUFFICES ASSUME PathInit PROVE PInv
  OBVIOUS
<1>1. <<>> \in Seq(Chars) /\ Len(<<>>) = 0
  OBVIOUS
<1>2. QED
  BY <1>1, Strings, PathAssumption DEF PathInit, PInv, Parsing

\* Every step of path_parse, and every step of path_free, preserves it.
LEMMA PInvParse == PInv /\ Parse => PInv'
<1> SUFFICES ASSUME PInv, Parse PROVE PInv'
  OBVIOUS
<1> USE PathAssumption, Strings
<1>1. CASE path_parse
  BY <1>1 DEF path_parse, path_valid_format, PInv, Parsing
<1>2. CASE PartBuffer
  <2>1. path_part' \in Seq(Chars) /\ Len(path_part') = 0
    BY <1>2 DEF PartBuffer
  <2>2. QED
    BY <1>2, <2>1 DEF PartBuffer, PInv, Parsing
<1>3. CASE CopyChar
  <2>1. str_path + 1 <= Len(filename) /\ CharAt(str_path) \in Chars
    BY <1>3, InsideString DEF CopyChar, PInv
  <2>2. path_part' \in Seq(Chars) /\ Len(path_part') = Len(path_part) + 1
    BY <1>3, <2>1 DEF CopyChar, PInv
  <2>3. QED
    BY <1>3, <2>1, <2>2 DEF CopyChar, PInv, Parsing
<1>4. CASE PartEnd
  <2>1. CASE CharAt(str_path) = Slash
    <3>1. str_path + 1 <= Len(filename)
      BY <2>1, InsideString DEF PInv
    <3>2. QED
      BY <1>4, <2>1, <3>1 DEF PartEnd, PInv, Parsing
  <2>2. CASE CharAt(str_path) # Slash
    BY <1>4, <2>2 DEF PartEnd, PInv, Parsing
  <2>3. QED
    BY <2>1, <2>2
<1>5. CASE path_parse_path_part
  BY <1>5 DEF path_parse_path_part, PInv, Parsing
<1>6. QED
  BY <1>1, <1>2, <1>3, <1>4, <1>5 DEF Parse

LEMMA PInvFree == PInv /\ path_free => PInv'
BY DEF path_free, PInv, Parsing

LEMMA PInvOpen == PInv /\ [OpenNext]_openVars => PInv'
<1> SUFFICES ASSUME PInv, [OpenNext]_openVars PROVE PInv'
  OBVIOUS
<1>1. CASE UNCHANGED pathVars
  BY <1>1 DEF pathVars, PInv, Parsing
<1>2. CASE ParsePath
  BY <1>2, PInvParse DEF ParsePath
<1>3. CASE ReleasePath
  BY <1>3, PInvFree DEF ReleasePath
<1>4. QED
  BY <1>1, <1>2, <1>3 DEF OpenNext, openVars, Mount, LookupPath, Walk

(***************************************************************************)
(* The pointer stays in the path and the part in its buffer, for every     *)
(* string, every length of the buffer and every refusal of kzalloc.        *)
(***************************************************************************)
THEOREM AlwaysInBounds == OpenSpec => []InBounds
<1>1. OpenInit => PInv
  BY PInvInit DEF OpenInit
<1>2. PInv /\ [OpenNext]_openVars => PInv'
  BY PInvOpen
<1>3. PInv => InBounds
  BY Strings, PathAssumption DEF PInv, InBounds
<1>4. QED
  BY <1>1, <1>2, <1>3, PTL DEF OpenSpec

-----------------------------------------------------------------------------
(***************************************************************************)
(* The objects of the list.  A kzalloc is refused at most once, because it *)
(* ends the parse; where that happened decides what the heap still holds.  *)
(***************************************************************************)
OInv ==
    /\ PInv
    /\ parts \in Seq(Seq(Chars)) /\ strings \in Int /\ nodes \in Int
    /\ parse \in {"start", "part", "copy", "node", "done", "freeing", "freed"}
    /\ parse \in {"start", "part", "node"} => refused = "none"
    /\ parse = "copy" => refused \in {"none", "string"}
    /\ ListOwnsObjects

LEMMA OInvInit == PathInit => OInv
<1> SUFFICES ASSUME PathInit PROVE OInv
  OBVIOUS
<1>1. <<>> \in Seq(Seq(Chars)) /\ Len(<<>>) = 0
  OBVIOUS
<1>2. QED
  BY <1>1, PInvInit DEF PathInit, OInv, ListOwnsObjects

LEMMA OInvParse == OInv /\ Parse => OInv'
<1> SUFFICES ASSUME OInv, Parse PROVE OInv'
  OBVIOUS
<1>0. PInv' /\ Len(parts) \in Nat
  BY PInvParse DEF OInv
<1>1. CASE path_parse
  BY <1>0, <1>1 DEF path_parse, Granted, Refuse, OInv, ListOwnsObjects
<1>2. CASE PartBuffer
  <2>1. strings = Len(parts) /\ nodes = Len(parts) /\ refused = "none"
    BY <1>2 DEF PartBuffer, OInv, ListOwnsObjects
  <2>2. CASE refused' = refused /\ strings' = strings + 1
    BY <1>0, <1>2, <2>1, <2>2 DEF PartBuffer, OInv, ListOwnsObjects
  <2>3. CASE refused' = "string" /\ strings' = strings
    BY <1>0, <1>2, <2>1, <2>3 DEF PartBuffer, OInv, ListOwnsObjects
  <2>4. QED
    BY <1>2, <2>2, <2>3 DEF PartBuffer, Granted, Refuse
<1>3. CASE CopyChar
  BY <1>0, <1>3 DEF CopyChar, OInv, ListOwnsObjects
<1>4. CASE PartEnd
  <2>1. nodes = Len(parts) /\ refused \in {"none", "string"} /\ refused' = refused
        /\ parts' = parts /\ nodes' = nodes
    BY <1>4 DEF PartEnd, OInv, ListOwnsObjects
  <2>2. CASE refused = "string"
    <3>1. strings = Len(parts) /\ strings' = strings /\ parse' = "done"
      BY <1>0, <1>4, <2>2 DEF PartEnd, OInv, ListOwnsObjects
    <3>2. QED
      BY <1>0, <2>1, <2>2, <3>1 DEF OInv, ListOwnsObjects
  <2>3. CASE refused = "none"
    <3>1. strings = Len(parts) + 1
      BY <1>0, <1>4, <2>3 DEF PartEnd, OInv, ListOwnsObjects
    <3>2. \/ parse' = "done" /\ strings' = strings - 1
          \/ parse' = "node" /\ strings' = strings
      BY <1>4, <2>3 DEF PartEnd
    <3>3. QED
      BY <1>0, <2>1, <2>3, <3>1, <3>2 DEF OInv, ListOwnsObjects
  <2>4. QED
    BY <2>1, <2>2, <2>3
<1>5. CASE path_parse_path_part
  <2>1. path_part \in Seq(Chars) /\ Append(parts, path_part) \in Seq(Seq(Chars))
        /\ Len(Append(parts, path_part)) = Len(parts) + 1
    BY DEF OInv, PInv
  <2>2. strings = Len(parts) + 1 /\ nodes = Len(parts) /\ refused = "none" /\ strings' = strings
    BY <1>0, <1>5 DEF path_parse_path_part, OInv, ListOwnsObjects
  <2>3. CASE refused' = refused /\ nodes' = nodes + 1 /\ parts' = Append(parts, path_part) /\ parse' = "part"
    BY <1>0, <2>1, <2>2, <2>3 DEF OInv, ListOwnsObjects
  <2>4. CASE refused' = "node" /\ parse' = "done" /\ nodes' = nodes /\ parts' = parts
    BY <1>0, <2>2, <2>4 DEF OInv, ListOwnsObjects
  <2>5. QED
    BY <1>5, <2>3, <2>4 DEF path_parse_path_part, Granted, Refuse
<1>6. QED
  BY <1>1, <1>2, <1>3, <1>4, <1>5 DEF Parse

LEMMA OInvFree == OInv /\ path_free => OInv'
<1> SUFFICES ASSUME OInv, path_free PROVE OInv'
  OBVIOUS
<1>1. PInv'
  BY PInvFree DEF OInv
<1>2. CASE parts # <<>>
  <2>1. Tail(parts) \in Seq(Seq(Chars)) /\ Len(Tail(parts)) = Len(parts) - 1
    BY <1>2 DEF OInv
  <2>2. parse \notin {"copy", "node"} /\ parse' = "freeing" /\ parts' = Tail(parts)
        /\ nodes' = nodes - 1 /\ strings' = strings - 1 /\ refused' = refused
    BY <1>2 DEF path_free
  <2>3. Len(parts) \in Nat
    BY DEF OInv
  <2>4. QED
    BY <1>1, <2>1, <2>2, <2>3 DEF OInv, ListOwnsObjects
<1>3. CASE parts = <<>>
  BY <1>1, <1>3 DEF path_free, OInv, ListOwnsObjects
<1>4. QED
  BY <1>2, <1>3

LEMMA OInvOpen == OInv /\ [OpenNext]_openVars => OInv'
<1> SUFFICES ASSUME OInv, [OpenNext]_openVars PROVE OInv'
  OBVIOUS
<1>1. CASE UNCHANGED pathVars
  BY <1>1, PInvOpen DEF pathVars, OInv, ListOwnsObjects
<1>2. CASE ParsePath
  BY <1>2, OInvParse DEF ParsePath
<1>3. CASE ReleasePath
  BY <1>3, OInvFree DEF ReleasePath
<1>4. QED
  BY <1>1, <1>2, <1>3 DEF OpenNext, openVars, Mount, LookupPath, Walk

(***************************************************************************)
(* The heap holds the nodes and strings of the list and what a refused     *)
(* kzalloc has cost, at every step of path_parse and path_free.            *)
(***************************************************************************)
THEOREM AlwaysOwnsObjects == OpenSpec => []ListOwnsObjects
<1>1. OpenInit => OInv
  BY OInvInit DEF OpenInit
<1>2. OInv /\ [OpenNext]_openVars => OInv'
  BY OInvOpen
<1>3. OInv => ListOwnsObjects
  BY DEF OInv
<1>4. QED
  BY <1>1, <1>2, <1>3, PTL DEF OpenSpec

-----------------------------------------------------------------------------
(***************************************************************************)
(* The parts are the names of the path.  s is where the next name begins;  *)
(* the pointer is there, except that it stays on the zero byte.            *)
(***************************************************************************)

\* The characters of the part are those of the path from s to e.
Copied(s, e) ==
    /\ Len(path_part) = e - s + 1
    /\ \A j \in 1..Len(path_part) : path_part[j] = filename[s + j - 1]
    /\ \A j \in s..e : filename[j] # Slash

AtEnd(s) == s = Len(filename) + 2 /\ str_path = Len(filename)

\* What the next part is, in each state of path_parse.
Reached(s) ==
    /\ parse = "part" => s = str_path + 1 \/ AtEnd(s)
    /\ parse = "copy" => \/ AtEnd(s) /\ path_part = <<>>
                         \/ s <= str_path + 1 /\ Copied(s, str_path)
    /\ parse = "node" => LET e == s + Len(path_part) - 1
                         IN  /\ s <= e /\ e <= Len(filename) /\ Copied(s, e)
                             /\ \/ e = Len(filename) /\ str_path = e
                                \/ filename[e + 1] = Slash /\ str_path = e + 1
    /\ parse = "done" /\ refused = "none" => NoNameAt(s)

Progress(at) ==
    /\ at \in [1..(Len(parts) + 1) -> Starts]
    /\ NamesAt(parts, at)
    /\ Reached(at[Len(parts) + 1])

NInv ==
    /\ OInv
    /\ parse = "start" => root = NUL /\ parts = <<>>
    /\ Parsing => root # NUL
    /\ parse = "done" /\ root = NUL => ~Valid \/ refused = "root"
    /\ (Parsing \/ parse = "done") /\ root # NUL =>
          Valid /\ root = filename[1] /\ \E at : Progress(at)

\* CharAt is a character of the path or, at its end, the zero byte.
LEMMA CharAtEnd ==
    ASSUME PInv
    PROVE  /\ Len(filename) \in Nat /\ str_path \in Nat /\ str_path <= Len(filename)
           /\ CharAt(str_path) = NUL <=> str_path = Len(filename)
           /\ str_path < Len(filename) => CharAt(str_path) = filename[str_path + 1]
<1>1. /\ Len(filename) \in Nat /\ str_path \in Nat /\ str_path <= Len(filename)
      /\ \A j \in 1..Len(filename) : filename[j] # NUL
  BY Strings, PathAssumption DEF PInv
<1>2. QED
  BY <1>1 DEF CharAt

\* A sequence with the characters from s to e is that part of the path.
LEMMA CopiedIsSubSeq ==
    ASSUME PInv, NEW s \in Nat \ {0}, NEW e \in Nat, s <= e, e <= Len(filename), Copied(s, e)
    PROVE  path_part = SubSeq(filename, s, e)
<1>1. filename \in Seq(Chars) /\ path_part \in Seq(Chars) /\ Len(filename) \in Nat
  BY Strings DEF PInv
<1>2. /\ SubSeq(filename, s, e) = [j \in 1..(e - s + 1) |-> filename[s + j - 1]]
  BY <1>1
<1>3. path_part = [j \in 1..(e - s + 1) |-> path_part[j]]
  BY <1>1 DEF Copied
<1>4. QED
  BY <1>2, <1>3 DEF Copied

LEMMA NInvInit == PathInit => NInv
BY OInvInit DEF PathInit, NInv, Parsing

\* A step that neither links a part nor leaves the state of the pointer keeps
\* the beginnings of the names.
LEMMA ProgressKept ==
    ASSUME NEW at, Progress(at), UNCHANGED <<filename, parts>>,
           at[Len(parts) + 1] \in Starts => Reached(at[Len(parts) + 1])'
    PROVE  Progress(at)'
<1>0. at' = at
  OBVIOUS
<1>1. QED
  BY <1>0 DEF Progress, Starts, NamesAt

\* Len, positions and beginnings as numbers.
LEMMA NextName ==
    ASSUME NInv, NEW at, Progress(at)
    PROVE  /\ Len(parts) \in Nat /\ at[Len(parts) + 1] \in Starts
           /\ at[Len(parts) + 1] \in Nat /\ at[Len(parts) + 1] >= 4
           /\ at[Len(parts) + 1] <= Len(filename) + 2
<1>1. Len(parts) \in Nat /\ Len(filename) \in Nat
  BY Strings DEF NInv, OInv, PInv
<1>2. at[Len(parts) + 1] \in Starts
  BY <1>1 DEF Progress
<1>3. QED
  BY <1>1, <1>2 DEF Starts

\* The root: no name has been read and the first one is behind the drive.
LEMMA NInvRoot == NInv /\ path_parse => NInv'
<1> SUFFICES ASSUME NInv, path_parse PROVE NInv'
  OBVIOUS
<1>1. OInv'
  BY OInvParse DEF NInv, Parse
<1>2. parse = "start" /\ root = NUL /\ UNCHANGED <<filename, parts>> /\ PInv /\ refused = "none"
  BY DEF path_parse, NInv, OInv
<1>3. Len(filename) \in Nat /\ \A j \in 1..Len(filename) : filename[j] # NUL
  BY <1>2, Strings, PathAssumption DEF PInv
<1>4. CASE Len(filename) > MaxPath \/ ~path_valid_format
  <2>1. parse' = "done" /\ root' = root
    BY <1>3, <1>4, PathAssumption DEF path_parse
  <2>2. ~Valid'
    BY <1>2, <1>3, <1>4, PathAssumption DEF Valid, path_valid_format, CharAt
  <2>3. QED
    BY <1>1, <1>2, <2>1, <2>2 DEF NInv, Parsing
<1>5. CASE Len(filename) <= MaxPath /\ path_valid_format /\ root' = CharAt(0)
           /\ parse' = "part" /\ str_path' = 3
  <2>1. Len(filename) >= 3 /\ CharAt(0) = filename[1] /\ filename[1] # NUL
    BY <1>3, <1>5 DEF path_valid_format, CharAt
  <2>2. Valid'
    BY <1>2, <1>5 DEF Valid, path_valid_format, CharAt
  <2>3. parts' = <<>> /\ Len(parts') = 0
    BY <1>2 DEF NInv
  <2> DEFINE at == [m \in 1..1 |-> 4]
  <2>4. at \in [1..(0 + 1) -> Starts'] /\ at[1] = 4
    BY <1>2, <1>3, <2>1 DEF Starts
  <2>5. NamesAt(parts, at)'
    BY <2>3, <2>4 DEF NamesAt
  <2>6. Reached(4)'
    BY <1>5 DEF Reached
  <2> HIDE DEF at
  <2>7. Progress(at)'
    BY <2>3, <2>4, <2>5, <2>6 DEF Progress
  <2>8. QED
    BY <1>1, <1>2, <1>5, <2>1, <2>2, <2>7 DEF NInv, Parsing
<1>6. CASE parse' = "done" /\ root' = root /\ refused' = "root"
  BY <1>1, <1>2, <1>6 DEF NInv, Parsing
<1>7. QED
  BY <1>4, <1>5, <1>6 DEF path_parse, Refuse

\* The other steps of the parser leave the root alone.
LEMMA NInvFrom ==
    ASSUME NInv, Parsing, OInv', UNCHANGED <<filename, root>>,
           parse' \in {"part", "copy", "node", "done"},
           NEW at, Progress(at)'
    PROVE  NInv'
<1>1. Valid /\ root = filename[1] /\ root # NUL
  BY DEF NInv
<1>2. Valid'
  BY <1>1 DEF Valid, path_valid_format, CharAt
<1>3. QED
  BY <1>1, <1>2 DEF NInv, Parsing

LEMMA NInvBuffer == NInv /\ PartBuffer => NInv'
<1> SUFFICES ASSUME NInv, PartBuffer PROVE NInv'
  OBVIOUS
<1>1. OInv' /\ PInv
  BY OInvParse DEF NInv, Parse, OInv
<1>2. /\ parse = "part" /\ Parsing /\ parse' = "copy" /\ path_part' = <<>>
      /\ UNCHANGED <<filename, str_path, root, parts>>
  BY DEF PartBuffer, Parsing
<1>3. PICK at : Progress(at)
  BY <1>2 DEF NInv
<1> DEFINE s == at[Len(parts) + 1]
<1>4. s \in Nat /\ s >= 4 /\ str_path \in Nat /\ Len(filename) \in Nat
  BY <1>1, <1>3, NextName, CharAtEnd
<1>5. s = str_path + 1 \/ AtEnd(s)
  BY <1>2, <1>3 DEF Progress, Reached
<1> HIDE DEF s
<1>6. AtEnd(s) => AtEnd(s)'
  BY <1>2 DEF AtEnd, s
<1>7. s = str_path + 1 => (s <= str_path' + 1 /\ Copied(s, str_path)')
  BY <1>2, <1>4 DEF Copied, s
<1>8. Reached(s)'
  BY <1>2, <1>5, <1>6, <1>7 DEF Reached, s
<1>9. Progress(at)'
  BY <1>2, <1>3, <1>8, ProgressKept DEF s
<1>10. QED
  BY <1>1, <1>2, <1>9, NInvFrom

LEMMA NInvCopy == NInv /\ CopyChar => NInv'
<1> SUFFICES ASSUME NInv, CopyChar PROVE NInv'
  OBVIOUS
<1>1. OInv' /\ PInv
  BY OInvParse DEF NInv, Parse, OInv
<1>2. /\ parse = "copy" /\ Parsing /\ parse' = "copy"
      /\ path_part' = Append(path_part, CharAt(str_path))
      /\ str_path' = str_path + 1 /\ CharAt(str_path) # NUL /\ CharAt(str_path) # Slash
      /\ UNCHANGED <<filename, root, parts>>
  BY DEF CopyChar, Parsing
<1>3. PICK at : Progress(at)
  BY <1>2 DEF NInv
<1>4. PICK s \in Nat : s = at[Len(parts) + 1] /\ s >= 4
  BY <1>3, NextName
<1>5. /\ str_path \in Nat /\ Len(filename) \in Nat /\ str_path < Len(filename)
      /\ CharAt(str_path) = filename[str_path + 1]
  BY <1>1, <1>2, CharAtEnd
<1>6. s <= str_path + 1 /\ Copied(s, str_path)
  BY <1>2, <1>3, <1>4, <1>5 DEF Progress, Reached, AtEnd
<1>7. path_part \in Seq(Chars) /\ Len(path_part) \in Nat
  BY <1>1 DEF PInv
<1>8. /\ Len(path_part') = Len(path_part) + 1
      /\ \A j \in 1..Len(path_part) : path_part'[j] = path_part[j]
      /\ path_part'[Len(path_part) + 1] = CharAt(str_path)
  BY <1>2, <1>5, <1>7, InsideString DEF PInv
<1>9. Copied(s, str_path)'
  <2>1. Len(path_part') = str_path' - s + 1
    <3>1. Len(path_part) = str_path - s + 1
      BY <1>6 DEF Copied
    <3>2. Len(path_part') = Len(path_part) + 1 /\ str_path' = str_path + 1
      BY <1>2, <1>8
    <3>3. s \in Nat /\ str_path \in Nat
      BY <1>4, <1>5
    <3>4. QED
      BY <3>1, <3>2, <3>3
  <2>2. ASSUME NEW j \in 1..Len(path_part') PROVE path_part'[j] = filename[s + j - 1]
    <3>1. CASE j = Len(path_part) + 1
      <4>1. s + j - 1 = str_path + 1
        <5>1. Len(path_part) = str_path - s + 1
          BY <1>6 DEF Copied
        <5>2. \A a, b, c \in Int : a = b - c + 1 => c + (a + 1) - 1 = b + 1
          OBVIOUS
        <5>3. s \in Int /\ str_path \in Int /\ Len(path_part) \in Int
          BY <1>4, <1>5, <1>7
        <5>4. QED
          BY <3>1, <5>1, <5>2, <5>3, Zenon
      <4>2. QED
        BY <1>5, <1>8, <3>1, <4>1
    <3>2. CASE j # Len(path_part) + 1
      <4>1. j \in 1..Len(path_part)
        BY <1>7, <1>8, <3>2
      <4>2. QED
        BY <1>6, <1>8, <4>1 DEF Copied
    <3>3. QED
      BY <3>1, <3>2
  <2>3. ASSUME NEW j \in s..(str_path + 1) PROVE filename[j] # Slash
    <3>1. j = str_path + 1 \/ j \in s..str_path
      BY <1>4, <1>5
    <3>2. QED
      BY <1>2, <1>5, <1>6, <3>1 DEF Copied
  <2>4. QED
    BY <1>2, <2>1, <2>2, <2>3 DEF Copied
<1>10. Reached(s)'
  BY <1>2, <1>4, <1>5, <1>6, <1>9 DEF Reached
<1>11. Progress(at)'
  BY <1>2, <1>3, <1>4, <1>10, ProgressKept
<1>12. QED
  BY <1>1, <1>2, <1>11, NInvFrom

LEMMA NInvEnd == NInv /\ PartEnd => NInv'
<1> SUFFICES ASSUME NInv, PartEnd PROVE NInv'
  OBVIOUS
<1>1. OInv' /\ PInv
  BY OInvParse DEF NInv, Parse, OInv
<1>2. /\ parse = "copy" /\ Parsing /\ CharAt(str_path) \in {Slash, NUL}
      /\ str_path' = IF CharAt(str_path) = Slash THEN str_path + 1 ELSE str_path
      /\ UNCHANGED <<filename, root, parts, path_part, refused>>
  BY DEF PartEnd, Parsing
<1>3. PICK at : Progress(at)
  BY <1>2 DEF NInv
<1>4. PICK s \in Nat : s = at[Len(parts) + 1] /\ s >= 4
  BY <1>3, NextName
<1>5. /\ str_path \in Nat /\ Len(filename) \in Nat /\ str_path <= Len(filename)
      /\ CharAt(str_path) = NUL => str_path = Len(filename)
      /\ CharAt(str_path) = Slash => str_path < Len(filename) /\ filename[str_path + 1] = Slash
  BY <1>1, CharAtEnd, PathAssumption
<1>6. \/ AtEnd(s) /\ path_part = <<>>
      \/ s <= str_path + 1 /\ Copied(s, str_path)
  BY <1>2, <1>3, <1>4 DEF Progress, Reached
<1>7. path_part \in Seq(Chars) /\ Len(path_part) \in Nat
  BY <1>1 DEF PInv
<1>8. CASE path_part = <<>> /\ parse' = "done"
  <2>1. s = str_path + 1 \/ s = Len(filename) + 2
    BY <1>4, <1>5, <1>6, <1>7, <1>8 DEF AtEnd, Copied
  <2>2. NoNameAt(s)
    BY <1>2, <1>4, <1>5, <2>1 DEF NoNameAt
  <2>3. Reached(s)'
    BY <1>2, <1>8, <2>2 DEF Reached, NoNameAt
  <2>4. Progress(at)'
    BY <1>2, <1>3, <1>4, <2>3, ProgressKept
  <2>5. QED
    BY <1>1, <1>2, <1>8, <2>4, NInvFrom
<1>9. CASE refused = "string" /\ parse' = "done"
  <2>1. Reached(s)'
    BY <1>2, <1>9 DEF Reached
  <2>2. Progress(at)'
    BY <1>2, <1>3, <1>4, <2>1, ProgressKept
  <2>3. QED
    BY <1>1, <1>2, <1>9, <2>2, NInvFrom
<1>10. CASE path_part # <<>> /\ parse' = "node"
  <2>1. Len(path_part) # 0
    BY <1>7, <1>10
  <2>2. /\ Copied(s, str_path) /\ s <= str_path
        /\ s + Len(path_part) - 1 = str_path
    <3>1. Copied(s, str_path)
      BY <1>6, <1>10
    <3>2. Len(path_part) = str_path - s + 1
      BY <3>1 DEF Copied
    <3>3. QED
      BY <1>4, <1>5, <1>7, <2>1, <3>1, <3>2
  <2>3. \/ str_path = Len(filename) /\ str_path' = str_path
        \/ filename[str_path + 1] = Slash /\ str_path' = str_path + 1
    BY <1>2, <1>5
  <2>4. Copied(s, str_path) => Copied(s, s + Len(path_part) - 1)'
    BY <1>2, <2>2 DEF Copied
  <2>5. Reached(s)'
    BY <1>2, <1>5, <1>10, <2>2, <2>3, <2>4 DEF Reached
  <2>6. Progress(at)'
    BY <1>2, <1>3, <1>4, <2>5, ProgressKept
  <2>7. QED
    BY <1>1, <1>2, <1>10, <2>6, NInvFrom
<1>11. QED
  BY <1>8, <1>9, <1>10 DEF PartEnd

\* The part is linked: it is the next name, and the one after it begins behind
\* the slash or the zero byte that ended the copy.
LEMMA NInvNode == NInv /\ path_parse_path_part => NInv'
<1> SUFFICES ASSUME NInv, path_parse_path_part PROVE NInv'
  OBVIOUS
<1>1. OInv' /\ PInv /\ parts \in Seq(Seq(Chars)) /\ path_part \in Seq(Chars)
  BY OInvParse DEF NInv, Parse, OInv, PInv
<1>2. /\ parse = "node" /\ Parsing
      /\ UNCHANGED <<filename, root, path_part, str_path>>
  BY DEF path_parse_path_part, Parsing
<1>3. PICK at : Progress(at)
  BY <1>2 DEF NInv
<1>4. PICK s \in Nat : s = at[Len(parts) + 1] /\ s >= 4
  BY <1>3, NextName
<1>5. /\ str_path \in Nat /\ Len(filename) \in Nat /\ str_path <= Len(filename)
      /\ Len(parts) \in Nat
  BY <1>1, CharAtEnd
<1>6. PICK e \in Nat :
      /\ s <= e /\ e <= Len(filename) /\ Copied(s, e)
      /\ \/ e = Len(filename) /\ str_path = e
         \/ filename[e + 1] = Slash /\ str_path = e + 1
  <2> DEFINE e == s + Len(path_part) - 1
  <2>1. Len(path_part) \in Nat
    BY <1>1
  <2>2. /\ s <= e /\ e <= Len(filename) /\ Copied(s, e)
        /\ \/ e = Len(filename) /\ str_path = e
           \/ filename[e + 1] = Slash /\ str_path = e + 1
    BY <1>2, <1>3, <1>4 DEF Progress, Reached
  <2>3. QED
    BY <1>4, <2>1, <2>2
<1>7. path_part = SubSeq(filename, s, e)
  BY <1>1, <1>4, <1>6, CopiedIsSubSeq
<1>8. CASE parts' = Append(parts, path_part) /\ parse' = "part"
  <2>0. PICK n \in Nat : n = Len(parts) + 1
    BY <1>5
  <2>1. n \in Nat /\ n >= 1 /\ Len(parts') = n
    BY <1>1, <1>5, <1>8, <2>0
  <2> DEFINE to == [m \in 1..(n + 1) |-> IF m = n + 1 THEN e + 2 ELSE at[m]]
  <2>2. /\ \A m \in 1..Len(parts) : parts'[m] = parts[m]
        /\ parts'[n] = path_part
        /\ DOMAIN parts' = 1..n
    BY <1>1, <1>5, <1>8, <2>0
  <2>3. at \in [1..n -> Starts] /\ NamesAt(parts, at) /\ at[n] = s
    BY <1>3, <1>4, <2>0 DEF Progress
  <2>4. e + 2 \in Starts' /\ Starts' = Starts
    BY <1>2, <1>4, <1>5, <1>6 DEF Starts
  <2>5. to \in [1..(n + 1) -> Starts']
    <3>1. \A m \in 1..(n + 1) : m # n + 1 => m \in 1..n
      BY <2>1
    <3>2. QED
      BY <2>3, <2>4, <3>1
  <2>6. to[n + 1] = e + 2 /\ \A m \in 1..n : to[m] = at[m]
    <3>1. n + 1 \in 1..(n + 1) /\ \A m \in 1..n : m \in 1..(n + 1) /\ m # n + 1
      BY <2>1
    <3>2. QED
      BY <3>1
  <2> HIDE DEF to
  <2>6a. to' = to
    BY DEF to
  <2>7. NamesAt(parts, to)'
    <3>1. to[1] = 4
      BY <2>1, <2>3, <2>6 DEF NamesAt
    <3>2. ASSUME NEW m \in 1..n
          PROVE  /\ to[m] <= to[m + 1] - 2
                 /\ parts'[m] = SubSeq(filename, to[m], to[m + 1] - 2)
                 /\ \A j \in to[m]..(to[m + 1] - 2) : filename[j] # Slash
                 /\ to[m + 1] - 2 = Len(filename) \/ filename[to[m + 1] - 2 + 1] = Slash
      <4>1. CASE m = n
        <5>1. to[m] = s /\ to[m + 1] = e + 2 /\ e + 2 - 2 = e /\ parts'[m] = path_part
          BY <1>6, <2>1, <2>2, <2>3, <2>6, <4>1
        <5>2. \A j \in s..e : filename[j] # Slash
          BY <1>6 DEF Copied
        <5>3. QED
          BY <1>6, <1>7, <5>1, <5>2
      <4>2. CASE m # n
        <5>1. m \in 1..Len(parts) /\ m + 1 \in 1..n /\ m \in DOMAIN parts
          BY <1>1, <1>5, <2>0, <2>1, <4>2
        <5>2. to[m] = at[m] /\ to[m + 1] = at[m + 1] /\ parts'[m] = parts[m]
          BY <2>2, <2>6, <5>1
        <5>3. /\ at[m] <= at[m + 1] - 2
              /\ parts[m] = SubSeq(filename, at[m], at[m + 1] - 2)
              /\ \A j \in at[m]..(at[m + 1] - 2) : filename[j] # Slash
              /\ at[m + 1] - 2 = Len(filename) \/ filename[at[m + 1] - 2 + 1] = Slash
          BY <2>3, <5>1 DEF NamesAt
        <5>4. QED
          BY <5>2, <5>3
      <4>3. QED
        BY <4>1, <4>2
    <3>3. QED
      BY <1>2, <2>2, <2>6a, <3>1, <3>2 DEF NamesAt
  <2>8. Reached(e + 2)'
    <3>1. e + 2 = str_path + 1 \/ (e + 2 = Len(filename) + 2 /\ str_path = Len(filename))
      BY <1>5, <1>6
    <3>2. QED
      BY <1>2, <1>8, <3>1 DEF Reached, AtEnd
  <2>9. Progress(to)'
    <3>1. to[Len(parts') + 1] = e + 2
      BY <2>1, <2>6
    <3>2. Reached(to[Len(parts) + 1])'
      BY <2>8, <2>6a, <3>1
    <3>3. to \in [1..(Len(parts') + 1) -> Starts']
      BY <2>1, <2>5
    <3>4. QED
      BY <2>7, <2>6a, <3>2, <3>3 DEF Progress
  <2>10. QED
    BY <1>1, <1>2, <1>8, <2>9, NInvFrom
<1>9. CASE refused' = "node" /\ parse' = "done" /\ parts' = parts
  <2>1. Reached(s)'
    BY <1>9 DEF Reached
  <2>2. Progress(at)'
    BY <1>2, <1>3, <1>4, <1>9, <2>1, ProgressKept
  <2>3. QED
    BY <1>1, <1>2, <1>9, <2>2, NInvFrom
<1>10. QED
  BY <1>8, <1>9 DEF path_parse_path_part, Refuse

LEMMA NInvOpen == NInv /\ [OpenNext]_openVars => NInv'
<1> SUFFICES ASSUME NInv, [OpenNext]_openVars PROVE NInv'
  OBVIOUS
<1>1. CASE UNCHANGED pathVars
  <2>1. UNCHANGED <<filename, parse, str_path, path_part, root, parts, refused>>
    BY <1>1 DEF pathVars
  <2>2. OInv'
    BY OInvOpen DEF NInv
  <2>3. Valid' = Valid
    BY <2>1 DEF Valid, path_valid_format, CharAt
  <2>4. ASSUME NEW at, Progress(at) PROVE Progress(at)'
    BY <2>1, <2>4 DEF Progress, NamesAt, Starts, Reached, AtEnd, Copied, NoNameAt
  <2>5. QED
    BY <2>1, <2>2, <2>3, <2>4 DEF NInv, Parsing
<1>2. CASE ParsePath
  BY <1>2, NInvRoot, NInvBuffer, NInvCopy, NInvEnd, NInvNode DEF ParsePath, Parse
<1>3. CASE ReleasePath
  <2>1. OInv' /\ parse' \in {"freeing", "freed"}
    BY <1>3, OInvFree DEF ReleasePath, NInv, path_free
  <2>2. QED
    BY <2>1 DEF NInv, Parsing
<1>4. QED
  BY <1>1, <1>2, <1>3 DEF OpenNext, openVars, Mount, LookupPath, Walk

(***************************************************************************)
(* path_parse returns the drive and the names of the path, for strings of  *)
(* any length: the character loops of pparser.c cut the path at its        *)
(* slashes, up to the first empty name, and a refused kzalloc only ends    *)
(* the list early.                                                         *)
(***************************************************************************)
THEOREM ParseAlwaysExact == OpenSpec => []ParseExact
<1>1. OpenInit => NInv
  BY NInvInit DEF OpenInit
<1>2. NInv /\ [OpenNext]_openVars => NInv'
  BY NInvOpen
<1>3. NInv => ParseExact
  <2> SUFFICES ASSUME NInv, parse = "done"
               PROVE  /\ root # NUL => /\ Valid /\ root = filename[1]
                                       /\ Components(parts, refused = "none")
                      /\ refused = "none" /\ Valid => root # NUL
    BY DEF ParseExact
  <2>1. refused = "none" /\ Valid => root # NUL
    BY DEF NInv
  <2>2. ASSUME root # NUL
        PROVE  Valid /\ root = filename[1] /\ Components(parts, refused = "none")
    <3>1. Valid /\ root = filename[1]
      BY <2>2 DEF NInv
    <3>2. PICK at : Progress(at)
      BY <2>2 DEF NInv
    <3>3. QED
      BY <3>1, <3>2 DEF Progress, Reached, Components
  <2>3. QED
    BY <2>1, <2>2
<1>4. QED
  BY <1>1, <1>2, <1>3, PTL DEF OpenSpec

-----------------------------------------------------------------------------
(***************************************************************************)
(* The lookup (Fat16Lookup).                                               *)
(***************************************************************************)
\* The entries of a directory that a search visits.
Total(area) == Cardinality({j \in L!InUse(area) : ~L!IsDeleted(area[j])})

\* A struct fat_directory that holds what a search of the directory visits.
Loaded(d, area) ==
    /\ d.live = TRUE /\ d.total = Total(area)
    /\ Len(d.items) \in Nat /\ Total(area) <= Len(d.items)
    /\ \A j \in 1..Total(area) : d.items[j] = area[j]

\* What a search of the first m entries for a name may have found when kzallocs
\* were refused: nothing, a file without its clone, or an entry of that name,
\* a directory that is loaded or is not there.
Fits(x, area, m, name) ==
    \/ x.entry = None /\ (x = L!NoItem \/ x.type = "file")
    \/ \E j \in 1..m :
          /\ x.entry = area[j] /\ L!HasName(area[j], name)
          /\ L!IsSubdirectory(area[j]) =>
                /\ x.type = "directory"
                /\ Loaded(x.directory, L!AreaOf(area[j])) \/ (denied /\ x.directory.live = FALSE)
          /\ ~L!IsSubdirectory(area[j]) => x.type = "file"

\* A fat_item that was made for entry e, or NULL for None.
Describes(x, e) ==
    /\ x.entry = e
    /\ e = None => x = L!NoItem
    /\ e # None /\ L!IsSubdirectory(e) =>
          x.type = "directory" /\ Loaded(x.directory, L!AreaOf(e))
    /\ e # None /\ ~L!IsSubdirectory(e) => x.type = "file"

\* The count of a directory has come to the slot.
Counting(area, first) ==
    \E m \in 0..Len(area) :
        /\ slot = first + m /\ 1..m \subseteq L!InUse(area)
        /\ count = Cardinality({j \in 1..m : ~L!IsDeleted(area[j])})

\* w holds what the first parts of the path name, one more part at a time.
IsChain(w, path) ==
    /\ w[0] = L!Named(L!RootArea, path[1])
    /\ \A j \in 1..(Len(path) - 1) : w[j] = L!Below(w[j - 1], path[j + 1])

AtWork == look \in {"count", "load", "search"} /\ root_directory.live

\* c holds entries along the first n parts of a path, area is the directory
\* they lead to.
Along(c, n, p, area) ==
    /\ c \in [1..n -> Range(volume)] /\ L!Follows(c, p)
    /\ area = IF n = 0 THEN L!RootArea ELSE L!AreaOf(c[n])
    /\ n > 0 => L!IsSubdirectory(c[n])

\* n parts are behind the search, c holds the entries it found for them, and it
\* is in the directory area.
SearchPlace(c, n, area) ==
    /\ Along(c, n, parts, area)
    /\ base = (n = 0)
    /\ todo \in Seq(Seq(Chars)) /\ Len(todo) = Len(parts) - n
    /\ \A j \in 1..Len(todo) : todo[j] = parts[n + j]

\* k entries are behind it, and item is what it found among them; while a
\* subdirectory is counted and loaded, that is the last one.
SearchState(area) ==
    /\ Loaded(directory, area)
    /\ k \in 0..Total(area)
    /\ look = "search" => /\ Fits(item, area, k, todo[1])
                          /\ ~denied => Describes(item, L!LastNamed(area, 1..k, todo[1]))
    /\ look # "search" => /\ k >= 1 /\ L!IsSubdirectory(area[k]) /\ L!HasName(area[k], todo[1])
                          /\ L!LastNamed(area, 1..k, todo[1]) = area[k]
    /\ look = "count" => Counting(L!AreaOf(area[k]), L!SlotOf(area[k].cluster))
    /\ look = "load" => count = Total(L!AreaOf(area[k]))

\* When what is found must be what is named.
Exact == L!NoneDeleted /\ ~denied

SearchAt(w, c, n, area) ==
    SearchPlace(c, n, area) /\ SearchState(area) /\ (Exact /\ n > 0 => c[n] = w[n - 1])

SearchInv(w) ==
    /\ parse = "done" /\ look = "wild" => denied
    /\ AtWork => \E n \in 0..(Len(parts) - 1) : \E area \in L!Areas : \E c : SearchAt(w, c, n, area)
    /\ look = "found" /\ parse = "done" /\ parts # <<>> =>
          /\ item.entry # None => L!LeadsTo(parts, item.entry)
          /\ Exact => item.entry = w[Len(parts) - 1]
    /\ look = "unset" /\ parse = "done" /\ parts # <<>> /\ Exact => w[0] = None

MountInv ==
    /\ look \in {"count", "load", "mounted", "search", "found", "unset", "wild"}
    /\ root_directory.live \in BOOLEAN
    /\ root_directory.live => Loaded(root_directory, L!RootArea)
    /\ look \in {"mounted", "search", "found"} => root_directory.live
    /\ ~root_directory.live /\ look = "count" => Counting(L!RootArea, 1)
    /\ ~root_directory.live /\ look = "load" => count = Total(L!RootArea)
    /\ AtWork => parse = "done" /\ parts # <<>>

\* The inductive invariant.
LInv ==
    /\ volume \in Disks
    /\ L!Regular => MountInv /\ \A w : IsChain(w, parts) => SearchInv(w)
-----------------------------------------------------------------------------
Ends == {NUL, Space}

\* The bytes of a string are those before the first one that ends it.
LEMMA ProperString ==
    ASSUME NEW S, NEW s \in Seq(S), NEW m \in 1..Len(s), s[m] \in Ends,
           \A j \in 1..(m - 1) : s[j] \notin Ends
    PROVE  L!fat16_to_proper_string(s) = SubSeq(s, 1, m - 1)
<1> DEFINE E == {j \in DOMAIN s : s[j] \in Ends}
<1>1. E \in SUBSET Nat /\ m \in E /\ \A j \in E : m <= j
  BY DEF Ends
<1>2. L!fat16_to_proper_string(s) = SubSeq(s, 1, Min(E) - 1)
  BY DEF L!fat16_to_proper_string, L!Min, Min, Ends
<1> HIDE DEF E
<1>3. Min(E) = m
  <2>1. PICK x : x = Min(E) /\ x \in E /\ \A j \in E : x <= j
    BY <1>1, MinOf
  <2>2. x \in Nat /\ x <= m /\ m <= x
    BY <1>1, <2>1
  <2>3. QED
    BY <2>1, <2>2
<1>4. QED
  BY <1>2, <1>3

\* A field that is padded, or followed by something that ends it, is cut where
\* its padding begins.
LEMMA FieldEnds ==
    ASSUME NEW S, NEW a \in Seq(S), NEW b \in Seq(S), Len(b) >= 1,
           (\E j \in 1..Len(a) : a[j] \in Ends) \/ b[1] \in Ends
    PROVE  /\ L!fat16_to_proper_string(a \o b) = L!Field(a)
           /\ L!Field(a) \in Seq(S)
           /\ Len(a) >= 1 => (L!Field(a) = <<>> <=> a[1] \in Ends)
           /\ (\A j \in 1..Len(a) : a[j] \notin Ends) => L!Field(a) = a
<1> DEFINE E == {j \in Nat : 1 <= j /\ j <= Len(a) + 1 /\ (j <= Len(a) => a[j] \in Ends)}
<1>1. E \in SUBSET Nat /\ Len(a) + 1 \in E
  OBVIOUS
<1>2. PICK m \in E : \A j \in E : m <= j
  BY <1>1, LeastExists
<1>3. /\ m \in Nat /\ 1 <= m /\ m <= Len(a) + 1
      /\ m <= Len(a) => a[m] \in Ends
      /\ \A j \in 1..(m - 1) : a[j] \notin Ends
  BY <1>2
<1>4. (\E j \in 1..Len(a) : a[j] \in Ends) => m <= Len(a)
  BY <1>2
<1> HIDE DEF E
<1> DEFINE T == S \cup {Space}
<1>5. a \in Seq(T) /\ b \in Seq(T) /\ <<Space>> \in Seq(T)
  OBVIOUS
<1>6. ASSUME NEW c \in Seq(T), Len(c) >= 1, m <= Len(a) \/ c[1] \in Ends
      PROVE  L!fat16_to_proper_string(a \o c) = SubSeq(a, 1, m - 1)
  <2> HIDE DEF T
  <2>1. PICK s : s = a \o c
    OBVIOUS
  <2>2. /\ s \in Seq(T) /\ Len(s) = Len(a) + Len(c)
        /\ \A j \in 1..Len(a) : s[j] = a[j]
        /\ s[Len(a) + 1] = c[1]
    BY <1>5, <1>6, <2>1
  <2>3. m \in 1..Len(s) /\ s[m] \in Ends /\ \A j \in 1..(m - 1) : s[j] \notin Ends
    <3>1. m \in 1..Len(s) /\ \A j \in 1..(m - 1) : s[j] = a[j]
      BY <1>3, <1>6, <2>2
    <3>2. CASE m <= Len(a)
      <4>1. s[m] = a[m]
        BY <1>3, <2>2, <3>2
      <4>2. QED
        BY <1>3, <3>1, <3>2, <4>1
    <3>3. CASE m = Len(a) + 1
      <4>1. s[m] = c[1] /\ c[1] \in Ends
        BY <1>6, <2>2, <3>3
      <4>2. QED
        BY <1>3, <3>1, <4>1
    <3>4. QED
      BY <1>3, <3>2, <3>3
  <2>4. L!fat16_to_proper_string(s) = SubSeq(s, 1, m - 1)
    BY <2>2, <2>3, ProperString
  <2>5. SubSeq(s, 1, m - 1) = SubSeq(a, 1, m - 1)
    <3>1. \A j \in 1..(m - 1) : s[j] = a[j]
      BY <1>3, <2>2
    <3>2. QED
      BY <1>3, <1>5, <2>2, <3>1
  <2>6. QED
    BY <2>1, <2>4, <2>5
<1>7. L!Field(a) = SubSeq(a, 1, m - 1)
  <2>1. PICK c \in Seq(T) : c = <<Space>> /\ Len(c) = 1 /\ c[1] = Space
    BY <1>5
  <2>2. L!fat16_to_proper_string(a \o c) = SubSeq(a, 1, m - 1)
    <3>1. Space \in Ends
      BY DEF Ends
    <3> HIDE DEF T
    <3>2. c \in Seq(T) /\ Len(c) >= 1 /\ c[1] \in Ends
      BY <2>1, <3>1
    <3>3. QED
      BY <1>6, <3>2
  <2>3. QED
    BY <2>1, <2>2 DEF L!Field
<1>8. L!fat16_to_proper_string(a \o b) = SubSeq(a, 1, m - 1)
  <2> HIDE DEF T
  <2>1. QED
    BY <1>4, <1>5, <1>6
<1>9. /\ SubSeq(a, 1, m - 1) \in Seq(S) /\ Len(SubSeq(a, 1, m - 1)) = m - 1
      /\ m = Len(a) + 1 => SubSeq(a, 1, m - 1) = a
  BY <1>3
<1>10. Len(a) >= 1 => (SubSeq(a, 1, m - 1) = <<>> <=> a[1] \in Ends)
  <2>1. ASSUME Len(a) >= 1, a[1] \in Ends PROVE m = 1
    BY <1>3, <2>1
  <2>2. ASSUME Len(a) >= 1, m = 1 PROVE a[1] \in Ends
    BY <1>3, <2>2
  <2>3. SubSeq(a, 1, m - 1) = <<>> <=> m = 1
    BY <1>3, <1>9
  <2>4. QED
    BY <2>1, <2>2, <2>3
<1>11. (\A j \in 1..Len(a) : a[j] \notin Ends) => m = Len(a) + 1
  BY <1>3
<1>12. QED
  BY <1>7, <1>8, <1>9, <1>10, <1>11
LEMMA StringFacts ==
    ASSUME NEW s, IsString(s)
    PROVE  Len(s) \in Nat /\ Len(s) >= 1 /\ \E S : s \in Seq(S)
<1>1. PICK n \in Nat : n = Len(s) /\ n >= 1 /\ s = [j \in 1..n |-> s[j]]
  BY DEF IsString
<1> DEFINE S == {s[j] : j \in 1..n}
<1>2. s \in [1..n -> S]
  BY <1>1
<1> HIDE DEF S
<1>3. s \in Seq(S)
  BY <1>2
<1>4. QED
  BY <1>1, <1>3

\* The name that is made for an entry whose fields are padded.
LEMMA ProperName ==
    ASSUME NEW e, IsString(e.filename), IsString(e.ext), L!Padded(e)
    PROVE  L!fat16_get_full_relative_filename(e) = L!ShortName(e)
<1>1. PICK a, x, t : a = e.filename /\ x = e.ext /\ t = x \o <<e.attribute, NUL>>
  OBVIOUS
<1>2. PICK A, X : a \in Seq(A) /\ x \in Seq(X)
  BY <1>1, StringFacts
<1> DEFINE S == A \cup X \cup {e.attribute, NUL}
<1>3. a \in Seq(S) /\ x \in Seq(S) /\ <<e.attribute, NUL>> \in Seq(S)
  BY <1>2
<1>4. Len(a) \in Nat /\ Len(a) >= 1 /\ Len(x) \in Nat /\ Len(x) >= 1
  BY <1>1, StringFacts
<1> HIDE DEF S
<1>5. PICK u \in Seq(S) : u = <<e.attribute, NUL>> /\ Len(u) = 2 /\ u[1] = e.attribute /\ u[2] = NUL
  BY <1>3
<1>6. t = x \o u /\ t \in Seq(S) /\ Len(t) >= 1 /\ t[1] = x[1]
  BY <1>1, <1>3, <1>4, <1>5
<1>7. PICK z \in Seq(S) : Len(z) >= 1 /\ z[1] \in Ends
  <2>1. NUL \in S /\ NUL \in Ends
    BY DEF S, Ends
  <2>2. PICK z : z \in Seq(S) /\ Len(z) = 1 /\ z[1] = NUL
    <3>1. <<NUL>> \in Seq(S) /\ Len(<<NUL>>) = 1 /\ <<NUL>>[1] = NUL
      BY <2>1
    <3>2. QED
      BY <3>1, Zenon
  <2>3. QED
    BY <2>1, <2>2
<1>8. /\ L!Field(x) = <<>> <=> x[1] \in Ends
      /\ (\A j \in 1..Len(x) : x[j] \notin Ends) => L!Field(x) = x
  <2>1. x \in Seq(S) /\ Len(x) >= 1
    BY <1>3, <1>4
  <2>2. QED
    BY <1>7, <2>1, FieldEnds
<1>9. (\A j \in 1..Len(a) : a[j] \notin Ends) => L!Field(a) = a
  <2>1. a \in Seq(S)
    BY <1>3
  <2>2. QED
    BY <1>7, <2>1, FieldEnds
<1>10. L!fat16_to_proper_string(a \o t) = L!Field(a)
  <2>1. CASE \E j \in 1..Len(a) : a[j] \in Ends
    BY <1>3, <1>6, <2>1, FieldEnds
  <2>2. CASE ~ \E j \in 1..Len(a) : a[j] \in Ends
    <3>1. L!Field(x) = <<>>
      BY <1>1, <1>9, <2>2 DEF L!Padded
    <3>2. t[1] \in Ends
      BY <1>6, <1>8, <3>1
    <3>3. QED
      BY <1>3, <1>6, <3>2, FieldEnds
  <2>3. QED
    BY <2>1, <2>2
<1>11. L!fat16_to_proper_string(x \o u) = L!Field(x)
  <2>a. x \in Seq(S) /\ u \in Seq(S) /\ Len(u) >= 1 /\ u[1] = e.attribute
    BY <1>3, <1>5
  <2>1. CASE \E j \in 1..Len(x) : x[j] \in Ends
    BY <2>a, <2>1, FieldEnds
  <2>2. CASE ~ \E j \in 1..Len(x) : x[j] \in Ends
    <3>1. e.attribute \in Ends
      BY <1>1, <1>8, <2>2 DEF L!Padded, Ends
    <3>2. QED
      BY <2>a, <3>1, FieldEnds
  <2>3. QED
    BY <2>1, <2>2
<1>12. L!fat16_get_full_relative_filename(e) =
          IF x[1] \in Ends THEN L!fat16_to_proper_string(a \o t)
          ELSE L!fat16_to_proper_string(a \o t) \o <<Dot>> \o L!fat16_to_proper_string(t)
  BY <1>1 DEF L!fat16_get_full_relative_filename, Ends
<1>13. L!ShortName(e) = IF L!Field(x) = <<>> THEN L!Field(a) ELSE L!Field(a) \o <<Dot>> \o L!Field(x)
  BY <1>1 DEF L!ShortName
<1>14. QED
  BY <1>6, <1>8, <1>10, <1>11, <1>12, <1>13

-----------------------------------------------------------------------------
(***************************************************************************)
(* The slots.                                                              *)
(***************************************************************************)
IsEntry(e) ==
    /\ e # None /\ IsString(e.filename) /\ IsString(e.ext) /\ e.cluster \in Nat
    /\ L!IsSubdirectory(e) => e.cluster >= 2

LEMMA VolumeFacts ==
    ASSUME volume \in Disks
    PROVE  /\ Len(volume) \in Nat /\ DOMAIN volume = 1..Len(volume)
           /\ \A e \in Range(volume) : IsEntry(e)
           /\ L!IsBlank(L!BlankSlot)
           /\ \A s \in Nat \ {0} : L!At(s) \in Range(volume) \/ L!IsBlank(L!At(s))
<1>1. /\ Len(volume) \in Nat /\ Len(volume) >= 1 /\ DOMAIN volume = 1..Len(volume)
      /\ \A j \in DOMAIN volume : IsEntry(volume[j])
  BY DiskAssumption DEF IsEntry, L!IsSubdirectory
<1>2. \A e \in Range(volume) : IsEntry(e)
  BY <1>1 DEF Range
<1>3. L!IsBlank(L!BlankSlot)
  <2>1. IsString(volume[1].filename)
    BY <1>1 DEF IsEntry
  <2>2. L!NameLen \in Nat /\ L!NameLen >= 1
    BY <2>1, StringFacts DEF L!NameLen
  <2>3. QED
    BY <2>2 DEF L!IsBlank, L!BlankSlot
<1>4. ASSUME NEW s \in Nat \ {0} PROVE L!At(s) \in Range(volume) \/ L!IsBlank(L!At(s))
  <2>1. CASE s <= Len(volume)
    BY <1>1, <2>1 DEF L!At, Range
  <2>2. CASE ~(s <= Len(volume))
    BY <1>3, <2>2 DEF L!At
  <2>3. QED
    BY <2>1, <2>2
<1>5. QED
  BY <1>1, <1>2, <1>3, <1>4
LEMMA RootIsArea == L!RootArea \in L!Areas
BY DEF L!Areas

LEMMA AreaOfIsArea ==
    ASSUME NEW e \in Range(volume), L!IsSubdirectory(e)
    PROVE  L!AreaOf(e) \in L!Areas
BY DEF L!Areas, L!Range, Range

LEMMA SlotOfFacts ==
    ASSUME NEW c \in Nat, c >= 2
    PROVE  L!SlotOf(c) \in Nat \ {0}
<1>1. RootSlots \in Nat /\ ClusterSlots \in Nat
  BY DiskAssumption
<1>2. PICK a \in Nat : a = c - 2
  OBVIOUS
<1>3. a * ClusterSlots \in Nat
  BY <1>1
<1>4. L!SlotOf(c) = RootSlots + a * ClusterSlots + 1
  BY <1>2 DEF L!SlotOf
<1>5. QED
  BY <1>1, <1>3, <1>4

\* A directory is a run of slots.
IsRun(area, first, size) ==
    /\ first \in Nat \ {0} /\ size \in Nat \ {0}
    /\ DOMAIN area = 1..size /\ Len(area) = size
    /\ \A j \in 1..size : area[j] = L!At(first + j - 1)

LEMMA RunFacts ==
    ASSUME NEW first \in Nat \ {0}, NEW size \in Nat \ {0}
    PROVE  IsRun(L!Area(first, size), first, size)
<1> DEFINE area == L!Area(first, size)
<1>1. area = [j \in 1..size |-> L!At(first + j - 1)]
  BY DEF L!Area
<1> HIDE DEF area
<1>2. DOMAIN area = 1..size /\ \A j \in 1..size : area[j] = L!At(first + j - 1)
  BY <1>1
<1> DEFINE S == {L!At(first + j - 1) : j \in 1..size}
<1>3. area \in [1..size -> S]
  BY <1>1
<1> HIDE DEF S
<1>4. Len(area) = size
  BY <1>3
<1>5. QED
  BY <1>2, <1>4 DEF IsRun, area

LEMMA RootRun == IsRun(L!RootArea, 1, RootSlots)
BY RunFacts, DiskAssumption DEF L!RootArea

LEMMA DirRun ==
    ASSUME volume \in Disks, NEW e \in Range(volume), L!IsSubdirectory(e)
    PROVE  IsRun(L!AreaOf(e), L!SlotOf(e.cluster), ClusterSlots)
<1>1. e.cluster \in Nat /\ e.cluster >= 2
  BY VolumeFacts DEF IsEntry
<1>2. L!SlotOf(e.cluster) \in Nat \ {0} /\ ClusterSlots \in Nat \ {0}
  BY <1>1, SlotOfFacts, DiskAssumption
<1>3. QED
  BY <1>2, RunFacts DEF L!AreaOf

LEMMA AreaRuns ==
    ASSUME volume \in Disks, NEW area \in L!Areas
    PROVE  \E first, size : IsRun(area, first, size)
<1>1. CASE area = L!RootArea
  BY <1>1, RootRun
<1>2. CASE area # L!RootArea
  <2>1. PICK e \in Range(volume) : L!IsSubdirectory(e) /\ area = L!AreaOf(e)
    BY <1>2 DEF L!Areas, L!Range, Range
  <2>2. QED
    BY <2>1, DirRun
<1>3. QED
  BY <1>1, <1>2

\* The slots of a directory on a regular disk: b is the first blank one.
LEMMA AreaFacts ==
    ASSUME volume \in Disks, L!Regular, NEW area \in L!Areas
    PROVE  \E b \in 1..Len(area) :
              /\ Len(area) \in Nat /\ L!IsBlank(area[b])
              /\ L!InUse(area) = 1..(b - 1)
              /\ Total(area) \in 0..(b - 1)
              /\ \A j \in 1..(b - 1) :
                    /\ area[j] \in Range(volume) /\ ~L!IsBlank(area[j])
                    /\ IsEntry(area[j])
                    /\ L!fat16_get_full_relative_filename(area[j]) = L!ShortName(area[j])
<1>1. PICK first, size : IsRun(area, first, size)
  BY AreaRuns
<1>2. /\ first \in Nat \ {0} /\ size \in Nat \ {0} /\ DOMAIN area = 1..size /\ Len(area) = size
      /\ \A j \in 1..size : area[j] = L!At(first + j - 1)
  BY <1>1 DEF IsRun
<1> DEFINE B == {j \in DOMAIN area : L!IsBlank(area[j])}
<1>3. B # {} /\ \A j \in L!InUse(area) : L!Padded(area[j])
  BY DEF L!Regular
<1>4. L!InUse(area) = 1..(Min(B) - 1)
  BY DEF L!InUse, L!Min, Min
<1>5. B \in SUBSET Nat
  BY <1>2
<1>6. \A j \in 1..size : L!IsBlank(area[j]) <=> j \in B
  BY <1>2
<1>7. B \subseteq 1..size
  BY <1>2
<1> HIDE DEF B
<1>8. PICK b : b = Min(B) /\ b \in B /\ \A j \in B : b <= j
  BY <1>3, <1>5, MinOf
<1>9. b \in 1..size /\ L!IsBlank(area[b]) /\ L!InUse(area) = 1..(b - 1)
  BY <1>4, <1>6, <1>7, <1>8
<1>10. ASSUME NEW j \in 1..(b - 1)
       PROVE  /\ area[j] \in Range(volume) /\ ~L!IsBlank(area[j])
              /\ IsEntry(area[j])
              /\ L!fat16_get_full_relative_filename(area[j]) = L!ShortName(area[j])
  <2>1. j \in 1..size /\ ~(b <= j) /\ first + j - 1 \in Nat \ {0}
    BY <1>2, <1>9
  <2>2. ~L!IsBlank(area[j])
    BY <1>6, <1>8, <2>1
  <2>3. area[j] \in Range(volume)
    BY <1>2, <2>1, <2>2, VolumeFacts
  <2>4. IsEntry(area[j])
    BY <2>3, VolumeFacts
  <2>5. L!Padded(area[j])
    BY <1>3, <1>9
  <2>6. QED
    BY <2>2, <2>3, <2>4, <2>5, ProperName DEF IsEntry
<1>11. Total(area) \in 0..(b - 1)
  <2> DEFINE U == {j \in 1..(b - 1) : ~L!IsDeleted(area[j])}
  <2>1. Total(area) = Cardinality(U)
    BY <1>9 DEF Total
  <2>2. U \subseteq 1..(b - 1)
    OBVIOUS
  <2> HIDE DEF U
  <2>3. PICK n \in Nat : n = b - 1
    BY <1>9
  <2>4. IsFiniteSet(1..n) /\ Cardinality(1..n) = n
    <3>1. IsFiniteSet(1..n) /\ Cardinality(1..n) = IF 1 > n THEN 0 ELSE n - 1 + 1
      BY FS_Interval
    <3>2. QED
      BY <3>1
  <2>5. Cardinality(U) \in Nat /\ Cardinality(U) <= n
    BY <2>2, <2>3, <2>4, FS_Subset, FS_CardinalityType
  <2>6. QED
    BY <2>1, <2>3, <2>5
<1>12. QED
  BY <1>2, <1>9, <1>10, <1>11

-----------------------------------------------------------------------------
\* The last entry of a name among the first ones.
Same(e, name) == L!HasName(e, name)

LEMMA LastNamedFacts ==
    ASSUME NEW area, NEW name, NEW m \in Nat
    PROVE  /\ L!LastNamed(area, 1..0, name) = None
           /\ ~Same(area[m + 1], name) =>
                 L!LastNamed(area, 1..(m + 1), name) = L!LastNamed(area, 1..m, name)
           /\ Same(area[m + 1], name) => L!LastNamed(area, 1..(m + 1), name) = area[m + 1]
           /\ \/ L!LastNamed(area, 1..m, name) = None
              \/ \E j \in 1..m : L!LastNamed(area, 1..m, name) = area[j]
<1> DEFINE M(n) == {j \in 1..n : Same(area[j], name)}
<1>1. \A n \in Nat : L!LastNamed(area, 1..n, name) = IF M(n) = {} THEN None ELSE area[Max(M(n))]
  BY DEF L!LastNamed, Same, L!Max, Max
<1>2. L!LastNamed(area, 1..0, name) = None
  <2>1. M(0) = {}
    OBVIOUS
  <2>2. QED
    BY <1>1, <2>1
<1>3. ASSUME ~Same(area[m + 1], name)
      PROVE  L!LastNamed(area, 1..(m + 1), name) = L!LastNamed(area, 1..m, name)
  <2>1. M(m + 1) = M(m) /\ m + 1 \in Nat
    BY <1>3
  <2> HIDE DEF M
  <2>2. QED
    BY <1>1, <2>1
<1>4. ASSUME Same(area[m + 1], name)
      PROVE  L!LastNamed(area, 1..(m + 1), name) = area[m + 1]
  <2>1. PICK N : N = M(m + 1)
    OBVIOUS
  <2>2. m + 1 \in N /\ N \in SUBSET 0..(m + 1) /\ m + 1 \in Nat
    BY <1>4, <2>1
  <2>3. PICK x : x = Max(N) /\ x \in N /\ \A j \in N : j <= x
    BY <2>2, MaxOf
  <2>4. Max(N) = m + 1
    <3>1. x \in 0..(m + 1) /\ m + 1 <= x
      BY <2>2, <2>3
    <3>2. QED
      BY <2>3, <3>1
  <2> HIDE DEF M
  <2>5. QED
    BY <1>1, <2>1, <2>2, <2>4
<1>5. ASSUME L!LastNamed(area, 1..m, name) # None
      PROVE  \E j \in 1..m : L!LastNamed(area, 1..m, name) = area[j]
  <2>1. PICK N : N = M(m)
    OBVIOUS
  <2>2. N # {} /\ N \in SUBSET 0..m /\ N \subseteq 1..m
    <3>1. M(m) \in SUBSET 0..m /\ M(m) \subseteq 1..m
      OBVIOUS
    <3> HIDE DEF M
    <3>2. QED
      BY <1>1, <1>5, <2>1, <3>1
  <2> HIDE DEF M
  <2>3. Max(N) \in N
    BY <2>2, MaxOf
  <2>4. QED
    BY <1>1, <2>1, <2>2, <2>3
<1>6. QED
  BY <1>2, <1>3, <1>4, <1>5
-----------------------------------------------------------------------------
\* The directories stay what they are.
LEMMA SameVolume ==
    ASSUME volume' = volume
    PROVE  /\ L!Regular' <=> L!Regular
           /\ L!Areas' = L!Areas /\ L!RootArea' = L!RootArea
           /\ \A e : L!AreaOf(e)' = L!AreaOf(e)
           /\ \A e, name : L!Below(e, name)' = L!Below(e, name)
           /\ Range(volume)' = Range(volume)
           /\ L!NoneDeleted' <=> L!NoneDeleted
           /\ \A c, p : L!Follows(c, p)' <=> L!Follows(c, p)
<1>1. \A s : L!At(s)' = L!At(s)
  BY DEF L!At, L!BlankSlot, L!NameLen
<1>2. \A first, size : L!Area(first, size)' = L!Area(first, size)
  BY <1>1 DEF L!Area
<1>3. L!RootArea' = L!RootArea
  BY <1>2 DEF L!RootArea
<1>4. \A e : L!AreaOf(e)' = L!AreaOf(e)
  BY <1>2 DEF L!AreaOf
<1>5. Range(volume)' = Range(volume)
  BY DEF Range
<1>6. L!Areas' = L!Areas
  BY <1>3, <1>4 DEF L!Areas, L!Range
<1>7. L!Regular' <=> L!Regular
  BY <1>6 DEF L!Regular
<1>8. ASSUME NEW e, NEW name PROVE L!Below(e, name)' = L!Below(e, name)
  BY <1>4 DEF L!Below
<1>9. L!NoneDeleted' <=> L!NoneDeleted
  BY <1>6 DEF L!NoneDeleted
<1>10. ASSUME NEW c, NEW p PROVE L!Follows(c, p)' <=> L!Follows(c, p)
  BY <1>3, <1>4 DEF L!Follows
<1>11. QED
  BY <1>3, <1>4, <1>5, <1>6, <1>7, <1>8, <1>9, <1>10

\* One iteration of the count.
LEMMA CountStep ==
    ASSUME volume \in Disks, L!Regular, NEW area \in L!Areas, NEW first, NEW size,
           IsRun(area, first, size), Counting(area, first),
           L!fat16_get_total_items_for_directory
    PROVE  \/ look' = "count" /\ Counting(area, first)'
           \/ look' = "load" /\ count' = Total(area)
<1>1. PICK b \in 1..Len(area) :
          /\ Len(area) \in Nat /\ L!IsBlank(area[b]) /\ L!InUse(area) = 1..(b - 1)
          /\ \A j \in 1..(b - 1) : ~L!IsBlank(area[j])
  BY AreaFacts
<1>2. PICK m \in 0..Len(area) :
          /\ slot = first + m /\ 1..m \subseteq L!InUse(area)
          /\ count = Cardinality({j \in 1..m : ~L!IsDeleted(area[j])})
  BY DEF Counting
<1>3. /\ first \in Nat /\ size = Len(area)
      /\ \A j \in 1..Len(area) : area[j] = L!At(first + j - 1)
  BY DEF IsRun
<1>4. m <= b - 1 /\ m + 1 \in 1..Len(area)
  <2>1. CASE m = 0
    BY <1>1, <2>1
  <2>2. CASE m # 0
    <3>1. m \in 1..(b - 1)
      BY <1>1, <1>2, <2>2
    <3>2. QED
      BY <1>1, <3>1
  <2>3. QED
    BY <2>1, <2>2
<1>5. area[m + 1] = L!At(slot)
  <2>1. first + (m + 1) - 1 = slot
    BY <1>2, <1>3
  <2>2. QED
    BY <1>3, <1>4, <2>1
<1> DEFINE D(n) == {j \in 1..n : ~L!IsDeleted(area[j])}
<1>6. ASSUME NEW n \in Nat PROVE IsFiniteSet(D(n)) /\ Cardinality(D(n)) \in Nat
  <2>1. D(n) \subseteq 1..n /\ IsFiniteSet(1..n)
    BY FS_Interval
  <2>2. QED
    BY <2>1, FS_Subset, FS_CardinalityType
<1>7. slot' = slot + 1 /\ look = "count"
  BY DEF L!fat16_get_total_items_for_directory
<1>8. CASE L!IsBlank(L!At(slot))
  <2>1. look' = "load" /\ count' = count
    BY <1>8 DEF L!fat16_get_total_items_for_directory
  <2>2. m = b - 1
    BY <1>1, <1>2, <1>4, <1>5, <1>8
  <2>3. Total(area) = Cardinality(D(m))
    BY <1>1, <2>2 DEF Total
  <2>4. QED
    BY <1>2, <2>1, <2>3
<1>9. CASE ~L!IsBlank(L!At(slot))
  <2>1. m + 1 \in 1..(b - 1)
    BY <1>1, <1>2, <1>4, <1>5, <1>9
  <2>2. 1..(m + 1) \subseteq L!InUse(area) /\ m + 1 \in 0..Len(area)
    BY <1>1, <2>1
  <2>3. slot' = first + (m + 1)
    BY <1>2, <1>3, <1>7
  <2>4. look' = "count" /\ count' = Cardinality(D(m + 1))
    <3>1. CASE L!IsDeleted(L!At(slot))
      <4>1. look' = "count" /\ count' = count
        BY <1>7, <1>9, <3>1 DEF L!fat16_get_total_items_for_directory
      <4>2. D(m + 1) = D(m)
        BY <1>5, <3>1
      <4>3. QED
        BY <1>2, <4>1, <4>2
    <3>2. CASE ~L!IsDeleted(L!At(slot))
      <4>1. look' = "count" /\ count' = count + 1
        BY <1>7, <1>9, <3>2 DEF L!fat16_get_total_items_for_directory
      <4>2. D(m + 1) = D(m) \cup {m + 1} /\ m + 1 \notin D(m)
        BY <1>5, <3>2
      <4>3. IsFiniteSet(D(m)) /\ Cardinality(D(m)) \in Nat
        BY <1>6
      <4>4. count = Cardinality(D(m))
        BY <1>2
      <4> HIDE DEF D
      <4>5. Cardinality(D(m + 1)) = Cardinality(D(m)) + 1
        BY <4>2, <4>3, FS_AddElement
      <4>6. QED
        BY <4>1, <4>4, <4>5
    <3>3. QED
      BY <3>1, <3>2
  <2>5. Counting(area, first)'
    BY <2>2, <2>3, <2>4 DEF Counting
  <2>6. QED
    BY <2>4, <2>5
<1>10. QED
  BY <1>8, <1>9

\* Where no entry is deleted, a search visits all that are in use.
LEMMA NamedFacts ==
    ASSUME volume \in Disks, L!Regular, L!NoneDeleted, NEW area \in L!Areas, NEW name
    PROVE  L!Named(area, name) = L!LastNamed(area, 1..Total(area), name)
<1>1. PICK b \in 1..Len(area) : Len(area) \in Nat /\ L!InUse(area) = 1..(b - 1)
  BY AreaFacts
<1>2. {j \in L!InUse(area) : ~L!IsDeleted(area[j])} = 1..(b - 1)
  BY <1>1 DEF L!NoneDeleted
<1>3. PICK n \in Nat : n = b - 1
  BY <1>1
<1>4. Cardinality(1..n) = n
  <2>1. Cardinality(1..n) = IF 1 > n THEN 0 ELSE n - 1 + 1
    BY FS_Interval
  <2>2. QED
    BY <2>1
<1>5. Total(area) = n
  BY <1>2, <1>3, <1>4 DEF Total
<1>6. QED
  BY <1>2, <1>3, <1>5 DEF L!Named

LEMMA LastNamedIn ==
    ASSUME NEW area, NEW name, NEW m \in Nat, NEW S \in SUBSET (1..m)
    PROVE  \/ L!LastNamed(area, S, name) = None
           \/ \E j \in S : L!LastNamed(area, S, name) = area[j]
<1> DEFINE N == {j \in S : L!HasName(area[j], name)}
<1>1. L!LastNamed(area, S, name) = IF N = {} THEN None ELSE area[Max(N)]
  BY DEF L!LastNamed, L!Max, Max
<1>2. N \in SUBSET (0..m) /\ N \subseteq S
  <2>1. N \subseteq S
    OBVIOUS
  <2>2. S \subseteq 0..m
    OBVIOUS
  <2> HIDE DEF N
  <2>3. QED
    BY <2>1, <2>2
<1> HIDE DEF N
<1>3. N # {} => Max(N) \in N
  BY <1>2, MaxOf
<1>4. QED
  BY <1>1, <1>2, <1>3

\* One more entry at the end of what was found.
LEMMA FollowsMore ==
    ASSUME NEW n \in Nat, NEW c, NEW p, NEW area, Along(c, n, p, area),
           NEW j \in L!InUse(area), area[j] \in Range(volume), L!HasName(area[j], p[n + 1])
    PROVE  \E d \in [1..(n + 1) -> Range(volume)] : L!Follows(d, p) /\ d[n + 1] = area[j]
<1> USE DEF Along
<1> DEFINE d == [q \in 1..(n + 1) |-> IF q = n + 1 THEN area[j] ELSE c[q]]
<1>1. ASSUME NEW q \in 1..(n + 1), q # n + 1 PROVE q \in 1..n /\ d[q] = c[q]
  BY <1>1
<1>2. d \in [1..(n + 1) -> Range(volume)] /\ d[n + 1] = area[j] /\ DOMAIN d = 1..(n + 1)
  BY <1>1
<1> HIDE DEF d
<1>3. ASSUME NEW q \in 1..(n + 1)
      PROVE  LET a == IF q = 1 THEN L!RootArea ELSE L!AreaOf(d[q - 1])
             IN  /\ q > 1 => L!IsSubdirectory(d[q - 1])
                 /\ \E y \in L!InUse(a) : a[y] = d[q] /\ L!HasName(a[y], p[q])
  <2>1. CASE q = n + 1
    <3>1. CASE n = 0
      BY <1>2, <2>1, <3>1
    <3>2. CASE n # 0
      <4>1. q # 1 /\ q - 1 = n /\ n \in 1..(n + 1) /\ n # n + 1 /\ n > 0
        BY <2>1, <3>2
      <4>2. d[q - 1] = c[n]
        BY <1>1, <4>1
      <4>3. area = L!AreaOf(d[q - 1]) /\ L!IsSubdirectory(d[q - 1])
        BY <3>2, <4>1, <4>2
      <4>4. QED
        BY <1>2, <2>1, <4>1, <4>3
    <3>3. QED
      BY <3>1, <3>2
  <2>2. CASE q # n + 1
    <3>1. q \in 1..n /\ d[q] = c[q]
      BY <1>1, <2>2
    <3>2. LET a == IF q = 1 THEN L!RootArea ELSE L!AreaOf(c[q - 1])
          IN  /\ q > 1 => L!IsSubdirectory(c[q - 1])
              /\ \E y \in L!InUse(a) : a[y] = c[q] /\ L!HasName(a[y], p[q])
      BY <3>1 DEF L!Follows
    <3>3. q # 1 => d[q - 1] = c[q - 1]
      <4>1. q # 1 => q - 1 \in 1..(n + 1) /\ q - 1 # n + 1
        BY <3>1
      <4>2. QED
        BY <1>1, <4>1
    <3>4. QED
      BY <3>1, <3>2, <3>3
  <2>3. QED
    BY <2>1, <2>2
<1>4. L!Follows(d, p)
  BY <1>2, <1>3 DEF L!Follows
<1>5. QED
  BY <1>2, <1>4

\* What is below a file, or below nothing, is nothing.
LEMMA ChainStops ==
    ASSUME NEW w, NEW p, IsChain(w, p), Len(p) \in Nat, NEW n \in Nat, n < Len(p) - 1,
           w[n] = None \/ ~L!IsSubdirectory(w[n])
    PROVE  w[Len(p) - 1] = None
<1> DEFINE I == {q \in Nat : (n + 1) + q <= Len(p) - 1 => w[(n + 1) + q] = None}
<1>1. \A j \in 1..(Len(p) - 1) : w[j] = L!Below(w[j - 1], p[j + 1])
  BY DEF IsChain
<1>2. 0 \in I
  <2>1. n + 1 \in 1..(Len(p) - 1) /\ (n + 1) - 1 = n /\ (n + 1) + 0 = n + 1
    OBVIOUS
  <2>2. w[n + 1] = None
    BY <1>1, <2>1 DEF L!Below
  <2>3. QED
    BY <2>1, <2>2
<1>3. ASSUME NEW q \in Nat, q \in I PROVE q + 1 \in I
  <2> SUFFICES ASSUME (n + 1) + (q + 1) <= Len(p) - 1 PROVE w[(n + 1) + (q + 1)] = None
    OBVIOUS
  <2>1. PICK j \in 1..(Len(p) - 1) : j = (n + 1) + (q + 1) /\ j - 1 = (n + 1) + q
    OBVIOUS
  <2>2. w[j - 1] = None
    BY <1>3, <2>1
  <2>3. w[j] = None
    BY <1>1, <2>2 DEF L!Below
  <2>4. QED
    BY <2>1, <2>3
<1>4. Nat \subseteq I
  <2> HIDE DEF I
  <2>1. QED
    BY <1>2, <1>3, SetInduction
<1>5. PICK q \in Nat : (n + 1) + q = Len(p) - 1
  <2>1. (Len(p) - 1) - (n + 1) \in Nat /\ (n + 1) + ((Len(p) - 1) - (n + 1)) = Len(p) - 1
    OBVIOUS
  <2>2. QED
    BY <2>1
<1>6. (n + 1) + q <= Len(p) - 1 => w[(n + 1) + q] = None
  BY <1>4
<1>7. QED
  BY <1>5, <1>6
-----------------------------------------------------------------------------
(***************************************************************************)
(* The steps.                                                              *)
(***************************************************************************)
\* Mounting: the count and the load of the root directory.
LEMMA MountLook ==
    ASSUME volume \in Disks, L!Regular, MountInv, L!Mount
    PROVE  MountInv' /\ \A w : SearchInv(w)'
<1>1. /\ ~root_directory.live /\ volume' = volume
      /\ L!fat16_get_total_items_for_directory \/ L!fat16_get_root_directory
  BY DEF L!Mount, L!fat16_get_total_items_for_directory, L!fat16_get_root_directory
<1>2. PICK area : area = L!RootArea /\ area \in L!Areas
  BY RootIsArea
<1>3. L!RootArea' = area
  BY <1>1, <1>2, SameVolume
<1>4. IsRun(area, 1, RootSlots)
  BY <1>2, RootRun
<1>5. CASE L!fat16_get_total_items_for_directory
  <2>1. root_directory' = root_directory /\ look = "count"
    BY <1>5 DEF L!fat16_get_total_items_for_directory
  <2>2. Counting(area, 1)
    BY <1>1, <1>2, <2>1 DEF MountInv
  <2>3. \/ look' = "count" /\ Counting(area, 1)'
        \/ look' = "load" /\ count' = Total(area)
    BY <1>2, <1>4, <1>5, <2>2, CountStep
  <2>4. Counting(L!RootArea, 1)' <=> Counting(area, 1)'
    BY <1>3 DEF Counting
  <2>5. Total(L!RootArea)' = Total(area)
    BY <1>3 DEF Total
  <2>6. MountInv'
    BY <1>1, <2>1, <2>3, <2>4, <2>5 DEF MountInv, AtWork
  <2>7. QED
    BY <1>1, <2>1, <2>3, <2>6 DEF SearchInv, AtWork
<1>6. CASE L!fat16_get_root_directory
  <2>1. PICK all : all = [j \in 1..RootSlots |-> L!At(j)]
    OBVIOUS
  <2>2. /\ look = "load" /\ look' = "mounted"
        /\ root_directory' = [items |-> all, total |-> count, live |-> TRUE]
    BY <1>6, <2>1 DEF L!fat16_get_root_directory
  <2>3. count = Total(area)
    BY <1>1, <1>2, <2>2 DEF MountInv
  <2>4. RootSlots \in Nat /\ Total(area) \in 0..RootSlots
        /\ \A j \in 1..RootSlots : area[j] = L!At(1 + j - 1)
    BY <1>2, <1>4, AreaFacts DEF IsRun
  <2>5. Len(all) = RootSlots
    <3> DEFINE S == {L!At(j) : j \in 1..RootSlots}
    <3>1. all \in [1..RootSlots -> S]
      BY <2>1
    <3> HIDE DEF S
    <3>2. QED
      BY <2>4, <3>1
  <2>6. \A j \in 1..Total(area) : all[j] = area[j]
    BY <2>1, <2>4
  <2>7. Loaded(root_directory', area)
    BY <2>2, <2>3, <2>4, <2>5, <2>6 DEF Loaded
  <2>8. Loaded(root_directory, L!RootArea)'
    BY <1>3, <2>7 DEF Loaded, Total
  <2>9. root_directory'.live = TRUE
    BY <2>7 DEF Loaded
  <2>10. MountInv'
    BY <2>2, <2>8, <2>9 DEF MountInv, AtWork
  <2>11. QED
    BY <2>2, <2>10 DEF SearchInv, AtWork
<1>7. QED
  BY <1>1, <1>5, <1>6

LEMMA NothingDescribed == Describes(L!NoItem, None)
BY DEF Describes, L!NoItem

\* The beginning of a lookup.
LEMMA LookupLook ==
    ASSUME volume \in Disks, L!Regular, MountInv, parts \in Seq(Seq(Chars)), LookupPath
    PROVE  MountInv' /\ \A w : SearchInv(w)'
<1>1. /\ parse = "done" /\ parts # <<>> /\ parse' = parse /\ parts' = parts
      /\ look = "mounted" /\ look' = "search" /\ todo' = parts
      /\ directory' = root_directory /\ k' = 0 /\ item' = L!NoItem /\ base' = TRUE
      /\ volume' = volume /\ root_directory' = root_directory
  BY DEF LookupPath, L!Lookup, L!SearchIn, pathVars
<1>2. root_directory.live /\ Loaded(root_directory, L!RootArea)
  BY <1>1 DEF MountInv
<1>3. PICK area : area = L!RootArea /\ area \in L!Areas
  BY RootIsArea
<1>4. L!RootArea' = area /\ L!Areas' = L!Areas
  BY <1>1, <1>3, SameVolume
<1>5. MountInv'
  BY <1>1, <1>2, <1>3, <1>4 DEF MountInv, AtWork, Loaded, Total
<1>6. ASSUME NEW w PROVE SearchInv(w)'
  <2>1. Len(parts) \in Nat /\ Len(parts) >= 1 /\ 0 \in 0..(Len(parts) - 1)
    BY <1>1
  <2>2. PICK c : SearchPlace(c, 0, area)'
    <3>1. PICK c : c \in [1..0 -> Range(volume)'] /\ DOMAIN c = {}
      <4>1. [j \in 1..0 |-> 0] \in [1..0 -> Range(volume)'] /\ DOMAIN [j \in 1..0 |-> 0] = {}
        OBVIOUS
      <4>2. QED
        BY <4>1
    <3>2. L!Follows(c, parts)'
      BY <3>1 DEF L!Follows
    <3>3. todo' \in Seq(Seq(Chars)) /\ Len(todo') = Len(parts') - 0
      BY <1>1, <2>1
    <3>4. ASSUME NEW j \in 1..Len(todo') PROVE todo'[j] = parts'[0 + j]
      <4>1. 0 + j = j /\ todo' = parts'
        BY <1>1, <2>1
      <4>2. QED
        BY <4>1
    <3>5. area = L!RootArea' /\ base' = (0 = 0)
      BY <1>1, <1>4
    <3>6. PICK z : z = 0 /\ c \in [1..z -> Range(volume)'] /\ ~(z > 0)
      BY <3>1
    <3>7. SearchPlace(c, z, area)'
      BY <3>2, <3>3, <3>4, <3>5, <3>6 DEF SearchPlace, Along
    <3>8. QED
      BY <3>6, <3>7
  <2>3. Loaded(directory, area)'
    BY <1>1, <1>2, <1>3 DEF Loaded
  <2>4. Total(area) \in Nat
    BY <1>3, AreaFacts
  <2>5. PICK name : name = todo'[1]
    OBVIOUS
  <2>6. L!LastNamed(area, 1..0, name) = None
    BY LastNamedFacts
  <2>7. Describes(item, L!LastNamed(area, 1..k, todo[1]))' /\ Fits(item, area, k, todo[1])'
    BY <1>1, <2>5, <2>6, NothingDescribed DEF Describes, Fits, L!NoItem
  <2>8. SearchState(area)'
    BY <1>1, <2>3, <2>4, <2>7 DEF SearchState
  <2>9. SearchAt(w, c, 0, area)'
    BY <2>2, <2>8 DEF SearchAt
  <2>10. QED
    BY <1>1, <1>3, <1>4, <2>1, <2>9 DEF SearchInv
<1>7. QED
  BY <1>5, <1>6
\* The steps of the search: the place stays as long as the part does.
LEMMA PlaceStays ==
    ASSUME NEW c, NEW n, NEW area, SearchPlace(c, n, area),
           volume' = volume, todo' = todo, parts' = parts, base' = base
    PROVE  SearchPlace(c, n, area)'
<1>1. /\ L!RootArea' = L!RootArea /\ \A e : L!AreaOf(e)' = L!AreaOf(e)
      /\ Range(volume)' = Range(volume) /\ (L!Follows(c, parts)' <=> L!Follows(c, parts))
  <2>1. \A p : L!Follows(c, p)' <=> L!Follows(c, p)
    BY SameVolume
  <2>2. L!Follows(c, parts)' <=> L!Follows(c, parts)
    BY <2>1
  <2>3. QED
    BY <2>2, SameVolume
<1>2. QED
  BY <1>1 DEF SearchPlace, Along, L!IsSubdirectory

\* The subdirectory that is being counted or loaded.
LEMMA EntryFacts ==
    ASSUME volume \in Disks, L!Regular, NEW area \in L!Areas, SearchState(area), look # "search"
    PROVE  /\ k \in 1..Total(area) /\ area[k] \in Range(volume) /\ L!IsSubdirectory(area[k])
           /\ area[k] # None /\ L!AreaOf(area[k]) \in L!Areas
           /\ IsRun(L!AreaOf(area[k]), L!SlotOf(area[k].cluster), ClusterSlots)
           /\ L!Entry = area[k]
<1>1. k \in 1..Total(area) /\ L!IsSubdirectory(area[k])
  BY DEF SearchState
<1>2. area[k] \in Range(volume) /\ IsEntry(area[k])
  <2>1. PICK b \in 1..Len(area) :
            /\ Len(area) \in Nat /\ Total(area) \in 0..(b - 1)
            /\ \A j \in 1..(b - 1) : area[j] \in Range(volume) /\ IsEntry(area[j])
    BY AreaFacts
  <2>2. QED
    BY <1>1, <2>1
<1>3. L!Entry = area[k]
  BY <1>1 DEF SearchState, Loaded, L!Entry
<1>4. QED
  BY <1>1, <1>2, <1>3, AreaOfIsArea, DirRun DEF IsEntry

LEMMA CountLook ==
    ASSUME volume \in Disks, L!Regular, root_directory.live, NEW w, NEW c, NEW n \in 0..(Len(parts) - 1),
           NEW area \in L!Areas, SearchAt(w, c, n, area),
           parse' = parse, parts' = parts, L!fat16_get_total_items_for_directory
    PROVE  SearchInv(w)'
<1>1. /\ look = "count" /\ volume' = volume /\ todo' = todo /\ directory' = directory
      /\ k' = k /\ item' = item /\ root_directory' = root_directory
      /\ base' = base /\ denied' = denied
  BY DEF L!fat16_get_total_items_for_directory
<1>2. SearchPlace(c, n, area) /\ SearchState(area) /\ (Exact /\ n > 0 => c[n] = w[n - 1])
  BY DEF SearchAt
<1>3. PICK e, sub, first : e = area[k] /\ sub = L!AreaOf(e) /\ first = L!SlotOf(e.cluster)
  OBVIOUS
<1>4. sub \in L!Areas /\ IsRun(sub, first, ClusterSlots) /\ L!IsSubdirectory(e)
  BY <1>1, <1>2, <1>3, EntryFacts
<1>5. Counting(sub, first)
  BY <1>1, <1>2, <1>3 DEF SearchState
<1>6. \/ look' = "count" /\ Counting(sub, first)'
      \/ look' = "load" /\ count' = Total(sub)
  BY <1>4, <1>5, CountStep
<1>7. SearchPlace(c, n, area)'
  BY <1>1, <1>2, PlaceStays
<1>8. L!AreaOf(e)' = sub
  BY <1>1, <1>3, SameVolume
<1>9. /\ Loaded(directory, area) /\ k \in 0..Total(area) /\ k >= 1 /\ L!IsSubdirectory(e)
      /\ L!HasName(e, todo[1]) /\ L!LastNamed(area, 1..k, todo[1]) = e
  BY <1>1, <1>2, <1>3 DEF SearchState
<1>10. SearchState(area)'
  <2>1. Loaded(directory, area)' /\ (k \in 0..Total(area))'
    BY <1>1, <1>9 DEF Loaded, Total
  <2>2. /\ (k >= 1)' /\ L!IsSubdirectory(area[k])' /\ L!HasName(area[k], todo[1])'
        /\ (L!LastNamed(area, 1..k, todo[1]) = area[k])'
    BY <1>1, <1>3, <1>9 DEF L!IsSubdirectory
  <2>3. look' = "count" => Counting(L!AreaOf(area[k]), L!SlotOf(area[k].cluster))'
    BY <1>1, <1>3, <1>6, <1>8 DEF Counting
  <2>4. look' = "load" => (count = Total(L!AreaOf(area[k])))'
    BY <1>1, <1>3, <1>6, <1>8 DEF Total
  <2>5. QED
    BY <1>6, <2>1, <2>2, <2>3, <2>4 DEF SearchState
<1>11. L!Areas' = L!Areas /\ (Exact' => Exact)
  BY <1>1, SameVolume DEF Exact
<1>12. SearchAt(w, c, n, area)'
  BY <1>2, <1>7, <1>10, <1>11 DEF SearchAt
<1>13. QED
  BY <1>6, <1>11, <1>12 DEF SearchInv

LEMMA LoadLook ==
    ASSUME volume \in Disks, L!Regular, root_directory.live, NEW w, NEW c, NEW n \in 0..(Len(parts) - 1),
           NEW area \in L!Areas, SearchAt(w, c, n, area),
           parse' = parse, parts' = parts, L!fat16_load_fat_directory
    PROVE  SearchInv(w)'
<1>1. /\ look = "load" /\ volume' = volume /\ todo' = todo /\ directory' = directory
      /\ k' = k /\ root_directory' = root_directory /\ look' = "search" /\ base' = base
      /\ denied \/ denied' \/ denied' = denied
  BY DEF L!fat16_load_fat_directory
<1>2. SearchPlace(c, n, area) /\ SearchState(area) /\ (Exact /\ n > 0 => c[n] = w[n - 1])
  BY DEF SearchAt
<1>3. PICK e, sub, first : e = area[k] /\ sub = L!AreaOf(e) /\ first = L!SlotOf(e.cluster)
  OBVIOUS
<1>4. /\ sub \in L!Areas /\ IsRun(sub, first, ClusterSlots) /\ L!IsSubdirectory(e)
      /\ e # None /\ L!Entry = e
  BY <1>1, <1>2, <1>3, EntryFacts
<1>5. count = Total(sub)
  BY <1>1, <1>2, <1>3 DEF SearchState
<1>6. /\ ClusterSlots \in Nat \ {0} /\ first \in Nat /\ count \in Nat /\ count < ClusterSlots
      /\ \A j \in 1..ClusterSlots : sub[j] = L!At(first + j - 1)
  <2>1. PICK b \in 1..Len(sub) : Len(sub) \in Nat /\ Total(sub) \in 0..(b - 1)
    BY <1>4, AreaFacts
  <2>2. /\ ClusterSlots \in Nat \ {0} /\ first \in Nat /\ Len(sub) = ClusterSlots
        /\ \A j \in 1..ClusterSlots : sub[j] = L!At(first + j - 1)
    BY <1>4 DEF IsRun
  <2>3. QED
    BY <1>5, <2>1, <2>2
<1>7. PICK all : all = [j \in 1..count |-> L!At(first + ((j - 1) % ClusterSlots))]
  OBVIOUS
<1>8. PICK live \in BOOLEAN :
          /\ item' = [type |-> "directory", entry |-> e,
                      directory |-> [items |-> all, total |-> count, live |-> live]]
          /\ (live /\ denied' = denied) \/ (~live /\ denied' = TRUE)
  <2>1. ~(count > ClusterSlots)
    BY <1>6
  <2>2. PICK live \in BOOLEAN :
          /\ item' = [type |-> "directory", entry |-> L!Entry,
                      directory |-> [items |-> [j \in 1..count |->
                                         L!At(L!SlotOf(L!Entry.cluster) + ((j - 1) % ClusterSlots))],
                                     total |-> count, live |-> live]]
          /\ (live /\ denied' = denied) \/ (~live /\ denied' = TRUE)
    <3>1. PICK live \in BOOLEAN :
            /\ item' = [type |-> "directory", entry |-> L!Entry,
                        directory |-> [items |-> [j \in 1..count |->
                                           L!At(L!SlotOf(L!Entry.cluster) + ((j - 1) % ClusterSlots))],
                                       total |-> count, live |-> live]]
            /\ \/ live /\ denied' = denied
               \/ ~live /\ count > ClusterSlots /\ denied' = denied
               \/ ~live /\ denied' = TRUE
      BY Zenon DEF L!fat16_load_fat_directory
    <3>2. QED
      <4>1. (live /\ denied' = denied) \/ (~live /\ denied' = TRUE)
        BY <2>1, <3>1
      <4>2. QED
        BY <3>1, <4>1, Zenon
  <2>3. QED
    BY <1>3, <1>4, <1>7, <2>2
<1>9. PICK sd : sd = [items |-> all, total |-> count, live |-> live]
  OBVIOUS
<1>10. live => Loaded(sd, sub)
  <2>1. Len(all) = count
    <3> DEFINE S == {L!At(first + ((j - 1) % ClusterSlots)) : j \in 1..count}
    <3>1. all \in [1..count -> S]
      BY <1>7
    <3> HIDE DEF S
    <3>2. QED
      BY <1>6, <3>1
  <2>2. ASSUME NEW j \in 1..count PROVE all[j] = sub[j]
    <3>1. PICK a \in Nat : a = j - 1 /\ a < ClusterSlots
      BY <1>6
    <3>2. a % ClusterSlots = a
      <4>1. PICK z \in Nat : z = ClusterSlots /\ z # 0 /\ a < z
        BY <1>6, <3>1
      <4>2. QED
        BY <4>1
    <3>3. all[j] = L!At(first + a) /\ sub[j] = L!At(first + j - 1) /\ first + j - 1 = first + a
      BY <1>6, <1>7, <3>1, <3>2
    <3>4. QED
      BY <3>3
  <2>3. QED
    BY <1>5, <1>6, <1>9, <2>1, <2>2 DEF Loaded
<1>11. SearchPlace(c, n, area)'
  BY <1>1, <1>2, PlaceStays
<1>12. L!AreaOf(e)' = sub
  BY <1>1, <1>3, SameVolume
<1>13. /\ Loaded(directory, area) /\ k \in 0..Total(area) /\ k >= 1 /\ k \in Int
       /\ L!HasName(e, todo[1]) /\ L!LastNamed(area, 1..k, todo[1]) = e
  BY <1>1, <1>2, <1>3 DEF SearchState
<1>14. ASSUME ~denied' PROVE Describes(item, L!LastNamed(area, 1..k, todo[1]))'
  <2>1. live /\ item' = [type |-> "directory", entry |-> e, directory |-> sd]
    BY <1>8, <1>9, <1>14
  <2>2. Describes(item, e)'
    BY <1>4, <1>10, <1>12, <2>1 DEF Describes, L!IsSubdirectory, Loaded, Total
  <2>3. L!LastNamed(area, 1..k, todo[1])' = e
    BY <1>1, <1>13
  <2>4. QED
    BY <2>2, <2>3 DEF Describes, L!IsSubdirectory, L!AreaOf, L!SlotOf
<1>15. Fits(item, area, k, todo[1])'
  <2>1. /\ item'.entry = e /\ item'.type = "directory" /\ item'.directory = sd
        /\ Loaded(sd, sub) \/ (denied' /\ sd.live = FALSE)
    BY <1>8, <1>9, <1>10
  <2>2. k \in 1..k /\ e = area[k]
    BY <1>3, <1>13
  <2>3. Loaded(sd, L!AreaOf(e)') <=> Loaded(sd, sub)
    BY <1>12
  <2>4. /\ (item.entry = area[k])' /\ L!HasName(area[k], todo[1])' /\ L!IsSubdirectory(area[k])'
        /\ (item.type = "directory")' /\ (k \in 1..k)'
        /\ Loaded(item.directory, L!AreaOf(area[k]))' \/ (denied /\ item.directory.live = FALSE)'
    BY <1>1, <1>3, <1>4, <1>13, <2>1, <2>2, <2>3 DEF Loaded, Total, L!IsSubdirectory
  <2>5. QED
    BY <2>4 DEF Fits
<1>16. SearchState(area)'
  BY <1>1, <1>13, <1>14, <1>15 DEF SearchState, Loaded, Total
<1>17. L!Areas' = L!Areas /\ (Exact' => Exact)
  BY <1>1, <1>8, SameVolume DEF Exact
<1>18. SearchAt(w, c, n, area)'
  BY <1>2, <1>11, <1>16, <1>17 DEF SearchAt
<1>19. QED
  BY <1>1, <1>17, <1>18 DEF SearchInv
\* One entry of the directory.
LEMMA FindLook ==
    ASSUME volume \in Disks, L!Regular, root_directory.live, NEW w, NEW c, NEW n \in 0..(Len(parts) - 1),
           NEW area \in L!Areas, SearchAt(w, c, n, area), parts \in Seq(Seq(Chars)),
           parse' = parse, parts' = parts, L!fat16_find_item_in_directory
    PROVE  SearchInv(w)'
<1>1. /\ look = "search" /\ volume' = volume /\ todo' = todo /\ directory' = directory
      /\ k < directory.total /\ k' = k + 1 /\ root_directory' = root_directory /\ base' = base
  BY DEF L!fat16_find_item_in_directory, L!Searching
<1>2. SearchPlace(c, n, area) /\ SearchState(area) /\ (Exact /\ n > 0 => c[n] = w[n - 1])
  BY DEF SearchAt
<1>3. /\ Loaded(directory, area) /\ k \in 0..Total(area)
      /\ Fits(item, area, k, todo[1])
      /\ ~denied => Describes(item, L!LastNamed(area, 1..k, todo[1]))
  BY <1>1, <1>2 DEF SearchState
<1>4. PICK m \in Nat : m = k /\ m + 1 \in 1..Total(area)
  <2>1. Total(area) \in Nat
    BY AreaFacts
  <2>2. QED
    BY <1>1, <1>3, <2>1 DEF Loaded
<1>5. PICK e : e = area[m + 1] /\ e = directory.items[k + 1] /\ ~(k >= Len(directory.items))
  <2>1. PICK t, l \in Nat : t = Total(area) /\ l = Len(directory.items) /\ t <= l
    <3>1. Total(area) \in Nat
      BY AreaFacts
    <3>2. QED
      BY <1>3, <3>1 DEF Loaded
  <2>2. directory.items[m + 1] = area[m + 1]
    BY <1>3, <1>4 DEF Loaded
  <2>3. ~(m >= l)
    BY <1>4, <2>1
  <2>4. QED
    BY <1>4, <2>1, <2>2, <2>3
<1>6. /\ e \in Range(volume) /\ IsEntry(e)
      /\ L!fat16_get_full_relative_filename(e) = L!ShortName(e)
  <2>1. PICK b \in 1..Len(area) :
            /\ Len(area) \in Nat /\ Total(area) \in 0..(b - 1)
            /\ \A j \in 1..(b - 1) :
                  /\ area[j] \in Range(volume) /\ IsEntry(area[j])
                  /\ L!fat16_get_full_relative_filename(area[j]) = L!ShortName(area[j])
    BY AreaFacts
  <2>2. m + 1 \in 1..(b - 1)
    BY <1>4, <2>1
  <2>3. QED
    BY <1>5, <2>1, <2>2
<1>7. PICK name : name = todo[1] /\ name = Head(todo)
  <2>1. todo \in Seq(Seq(Chars)) /\ Len(todo) >= 1
    BY <1>2 DEF SearchPlace, Along
  <2>2. QED
    BY <2>1
<1>8. L!istrncmp(L!fat16_get_full_relative_filename(e), Head(todo)) <=> Same(e, name)
  BY <1>6, <1>7 DEF L!istrncmp, L!HasName, Same
<1>9. \/ ~Same(e, name) /\ UNCHANGED <<look, slot, count, item, denied>>
      \/ Same(e, name) /\ item' \in L!Refused(e) /\ denied' = TRUE /\ look' = look
      \/ /\ Same(e, name) /\ L!IsSubdirectory(e) /\ denied' = denied
         /\ look' = "count" /\ slot' = L!SlotOf(e.cluster) /\ count' = 0
      \/ /\ Same(e, name) /\ ~L!IsSubdirectory(e) /\ look' = look /\ denied' = denied
         /\ item' = [type |-> "file", entry |-> e]
  BY <1>5, <1>8 DEF L!fat16_find_item_in_directory
<1>10. SearchPlace(c, n, area)'
  BY <1>1, <1>2, PlaceStays
<1>11. L!Areas' = L!Areas /\ (\A x : L!AreaOf(x)' = L!AreaOf(x)) /\ (Exact' => Exact)
  BY <1>1, <1>9, SameVolume DEF Exact
<1>12. Loaded(directory, area)' /\ (k \in 0..Total(area))'
  <2>1. Loaded(directory', area)
    BY <1>1, <1>3
  <2>2. m + 1 \in 0..Total(area)
    BY <1>4
  <2>3. k' \in 0..Total(area)
    BY <1>1, <1>4, <2>2
  <2>4. QED
    BY <2>1, <2>3 DEF Loaded, Total
<1>13. /\ ~Same(e, name) => L!LastNamed(area, 1..(m + 1), name) = L!LastNamed(area, 1..m, name)
       /\ Same(e, name) => L!LastNamed(area, 1..(m + 1), name) = e
  <2>1. /\ ~Same(area[m + 1], name) =>
              L!LastNamed(area, 1..(m + 1), name) = L!LastNamed(area, 1..m, name)
        /\ Same(area[m + 1], name) => L!LastNamed(area, 1..(m + 1), name) = area[m + 1]
    BY LastNamedFacts
  <2>2. QED
    BY <1>5, <2>1
<1>14. L!LastNamed(area, 1..k, todo[1])' = L!LastNamed(area, 1..(m + 1), name)
  BY <1>1, <1>4, <1>7
<1>15. ASSUME SearchState(area)', look' \in {"search", "count"} PROVE SearchInv(w)'
  <2>1. SearchAt(w, c, n, area)'
    BY <1>2, <1>10, <1>11, <1>15 DEF SearchAt
  <2>2. QED
    BY <1>11, <1>15, <2>1 DEF SearchInv
\* What was found stays found; an entry that is found is the one just looked at.
<1>16. ASSUME item' = item, denied' = denied PROVE Fits(item, area, k, todo[1])'
  <2>1. CASE item.entry = None /\ (item = L!NoItem \/ item.type = "file")
    BY <1>16, <2>1 DEF Fits, L!NoItem
  <2>2. ASSUME NEW j \in 1..k, item.entry = area[j], L!HasName(area[j], todo[1]),
               L!IsSubdirectory(area[j]) =>
                   /\ item.type = "directory"
                   /\ \/ Loaded(item.directory, L!AreaOf(area[j]))
                      \/ denied /\ item.directory.live = FALSE,
               ~L!IsSubdirectory(area[j]) => item.type = "file"
        PROVE  Fits(item, area, k, todo[1])'
    <3>1. j \in 1..(m + 1)
      BY <1>4
    <3>2. /\ j \in 1..k' /\ (item.entry = area[j])' /\ L!HasName(area[j], todo[1])'
          /\ L!IsSubdirectory(area[j])' =>
                 /\ (item.type = "directory")'
                 /\ Loaded(item.directory, L!AreaOf(area[j]))' \/ (denied /\ item.directory.live = FALSE)'
          /\ ~L!IsSubdirectory(area[j])' => (item.type = "file")'
      BY <1>1, <1>4, <1>11, <1>16, <2>2, <3>1 DEF Loaded, Total, L!IsSubdirectory
    <3>3. QED
      BY <3>2 DEF Fits
  <2>3. QED
    BY <1>3, <2>1, <2>2 DEF Fits
<1>17. ASSUME Same(e, name), (item.entry = e)',
              L!IsSubdirectory(e) =>
                  /\ item'.type = "directory" /\ denied' /\ item'.directory.live = FALSE,
              ~L!IsSubdirectory(e) => item'.type = "file"
       PROVE  Fits(item, area, k, todo[1])'
  <2>1. k' \in 1..k' /\ area[k'] = e
    BY <1>1, <1>4, <1>5
  <2>2. (item.entry = area[k])' /\ L!HasName(area[k], todo[1])' /\ (k \in 1..k)'
    BY <1>1, <1>7, <1>17, <2>1 DEF Same
  <2>3. /\ L!IsSubdirectory(area[k])' => (item.type = "directory" /\ denied /\ item.directory.live = FALSE)'
        /\ ~L!IsSubdirectory(area[k])' => (item.type = "file")'
    BY <1>17, <2>1 DEF L!IsSubdirectory
  <2>4. QED
    BY <2>2, <2>3 DEF Fits
<1>18. CASE ~Same(e, name) /\ UNCHANGED <<look, slot, count, item, denied>>
  <2>1. PICK f : f = L!LastNamed(area, 1..m, name) /\ f = L!LastNamed(area, 1..k, todo[1])
    BY <1>4, <1>7
  <2>2. ~denied => Describes(item, f)'
    BY <1>3, <1>11, <1>18, <2>1 DEF Describes, L!IsSubdirectory
  <2>3. L!LastNamed(area, 1..k, todo[1])' = f
    BY <1>13, <1>14, <1>18, <2>1
  <2>4. ~denied => Describes(item, L!LastNamed(area, 1..k, todo[1]))'
    BY <2>2, <2>3 DEF Describes, L!IsSubdirectory, L!AreaOf, L!SlotOf
  <2>5. Fits(item, area, k, todo[1])'
    BY <1>16, <1>18
  <2>6. SearchState(area)'
    BY <1>1, <1>12, <1>18, <2>4, <2>5 DEF SearchState
  <2>7. QED
    BY <1>1, <1>15, <1>18, <2>6
<1>19. CASE /\ Same(e, name) /\ L!IsSubdirectory(e) /\ denied' = denied
            /\ look' = "count" /\ slot' = L!SlotOf(e.cluster) /\ count' = 0
  <2>1. PICK sub, first : sub = L!AreaOf(e) /\ first = L!SlotOf(e.cluster)
    OBVIOUS
  <2>2. IsRun(sub, first, ClusterSlots)
    BY <1>6, <1>19, <2>1, DirRun
  <2>3. Counting(sub, first)'
    <3>1. 0 \in 0..Len(sub) /\ slot' = first + 0 /\ 1..0 \subseteq L!InUse(sub)
      BY <1>19, <2>1, <2>2 DEF IsRun
    <3>2. {j \in 1..0 : ~L!IsDeleted(sub[j])} = {}
      OBVIOUS
    <3>3. count' = Cardinality({j \in 1..0 : ~L!IsDeleted(sub[j])})
      BY <1>19, <3>2, FS_EmptySet
    <3>4. QED
      BY <3>1, <3>3 DEF Counting
  <2>4. (area[k])' = e
    BY <1>1, <1>4, <1>5
  <2>5. /\ (L!LastNamed(area, 1..k, todo[1]) = area[k])' /\ (k >= 1)' /\ L!IsSubdirectory(area[k])'
        /\ L!HasName(area[k], todo[1])'
    BY <1>1, <1>4, <1>7, <1>13, <1>14, <1>19, <2>4 DEF L!IsSubdirectory, Same
  <2>6. Counting(L!AreaOf(area[k]), L!SlotOf(area[k].cluster))'
    <3>1. L!AreaOf(area[k])' = sub /\ L!SlotOf(area[k].cluster)' = first
      BY <1>11, <2>1, <2>4 DEF L!AreaOf, L!SlotOf
    <3>2. QED
      BY <2>3, <3>1 DEF Counting
  <2>7. SearchState(area)'
    BY <1>12, <1>19, <2>5, <2>6 DEF SearchState
  <2>8. QED
    BY <1>15, <1>19, <2>7
<1>20. CASE /\ Same(e, name) /\ ~L!IsSubdirectory(e) /\ look' = look /\ denied' = denied
            /\ item' = [type |-> "file", entry |-> e]
  <2>1. Describes(item, e)'
    BY <1>6, <1>20 DEF Describes, L!IsSubdirectory, IsEntry
  <2>2. L!LastNamed(area, 1..k, todo[1])' = e
    BY <1>13, <1>14, <1>20
  <2>3. Describes(item, L!LastNamed(area, 1..k, todo[1]))'
    BY <2>1, <2>2 DEF Describes, L!IsSubdirectory, L!AreaOf, L!SlotOf
  <2>4. Fits(item, area, k, todo[1])'
    BY <1>17, <1>20
  <2>5. SearchState(area)'
    BY <1>1, <1>12, <1>20, <2>3, <2>4 DEF SearchState
  <2>6. QED
    BY <1>1, <1>15, <1>20, <2>5
<1>21. CASE Same(e, name) /\ item' \in L!Refused(e) /\ denied' = TRUE /\ look' = look
  <2>1. \/ item' = L!NoItem
        \/ L!IsSubdirectory(e) /\ item' = [type |-> "directory", entry |-> e, directory |-> L!Unloaded]
        \/ ~L!IsSubdirectory(e) /\ item' = [type |-> "file", entry |-> None]
    BY <1>21 DEF L!Refused
  <2>2. Fits(item, area, k, todo[1])'
    <3>1. CASE item' = L!NoItem \/ item' = [type |-> "file", entry |-> None]
      BY <3>1 DEF Fits, L!NoItem
    <3>2. CASE L!IsSubdirectory(e) /\ item' = [type |-> "directory", entry |-> e, directory |-> L!Unloaded]
      BY <1>17, <1>21, <3>2 DEF L!Unloaded
    <3>3. QED
      BY <2>1, <3>1, <3>2
  <2>3. SearchState(area)'
    BY <1>1, <1>12, <1>21, <2>2 DEF SearchState
  <2>4. QED
    BY <1>1, <1>15, <1>21, <2>3
<1>22. QED
  BY <1>9, <1>18, <1>19, <1>20, <1>21

\* The end of a part.
LEMMA PartLook ==
    ASSUME volume \in Disks, L!Regular, root_directory.live, NEW w, NEW c, NEW n \in 0..(Len(parts) - 1),
           NEW area \in L!Areas, SearchAt(w, c, n, area), parts \in Seq(Seq(Chars)),
           IsChain(w, parts), parse' = parse, parts' = parts, L!fat16_get_directory_entry
    PROVE  SearchInv(w)'
<1>1. /\ look = "search" /\ volume' = volume /\ ~(k < directory.total)
      /\ root_directory' = root_directory /\ denied' = denied
  BY DEF L!fat16_get_directory_entry, L!Searching
<1>2. SearchPlace(c, n, area) /\ SearchState(area) /\ (Exact /\ n > 0 => c[n] = w[n - 1])
  BY DEF SearchAt
<1>3. PICK m \in Nat : m = Len(parts) /\ n \in 0..(m - 1) /\ n \in Nat
  OBVIOUS
<1>4. /\ todo \in Seq(Seq(Chars)) /\ Len(todo) = m - n /\ Len(todo) >= 1
      /\ \A j \in 1..Len(todo) : todo[j] = parts[n + j]
      /\ todo[1] = parts[n + 1]
      /\ c \in [1..n -> Range(volume)] /\ L!Follows(c, parts)
      /\ n > 0 => L!IsSubdirectory(c[n])
      /\ area = IF n = 0 THEN L!RootArea ELSE L!AreaOf(c[n])
      /\ base = (n = 0)
  BY <1>2, <1>3 DEF SearchPlace, Along
<1>5. PICK b \in 1..Len(area) :
          /\ Len(area) \in Nat /\ Total(area) \in 0..(b - 1) /\ L!InUse(area) = 1..(b - 1)
          /\ \A j \in 1..(b - 1) : area[j] \in Range(volume) /\ IsEntry(area[j])
  BY AreaFacts
<1>6. /\ k = Total(area) /\ Fits(item, area, k, todo[1])
      /\ ~denied => Describes(item, L!LastNamed(area, 1..k, todo[1]))
  BY <1>1, <1>2, <1>5 DEF SearchState, Loaded
<1>7. Exact => L!LastNamed(area, 1..k, todo[1]) = w[n]
  <2> SUFFICES ASSUME Exact PROVE L!LastNamed(area, 1..k, todo[1]) = w[n]
    OBVIOUS
  <2>1. L!LastNamed(area, 1..k, todo[1]) = L!Named(area, parts[n + 1])
    BY <1>4, <1>6, NamedFacts DEF Exact
  <2>2. CASE n = 0
    BY <1>4, <2>1, <2>2 DEF IsChain
  <2>3. CASE n # 0
    <3>1. n \in 1..(Len(parts) - 1) /\ n > 0 /\ n \in 1..n
      BY <1>3, <2>3
    <3>2. w[n] = L!Below(w[n - 1], parts[n + 1])
      BY <3>1 DEF IsChain
    <3>3. w[n - 1] = c[n] /\ c[n] # None /\ L!IsSubdirectory(c[n])
      BY <1>2, <1>4, <3>1, VolumeFacts DEF IsEntry
    <3>4. QED
      BY <1>4, <2>1, <2>3, <3>2, <3>3 DEF L!Below
  <2>4. QED
    BY <2>2, <2>3
<1>8. /\ Exact => Describes(item, w[n])
      /\ Exact' <=> Exact
  BY <1>1, <1>6, <1>7, SameVolume DEF Exact
\* An entry that was found is one more along the path.
<1>9. ASSUME item.entry # None
      PROVE  \E j \in 1..(b - 1) :
                /\ item.entry = area[j] /\ L!HasName(area[j], parts[n + 1]) /\ area[j] \in Range(volume)
                /\ L!IsSubdirectory(area[j]) =>
                      /\ item.type = "directory"
                      /\ \/ Loaded(item.directory, L!AreaOf(area[j]))
                         \/ denied /\ item.directory.live = FALSE
                /\ ~L!IsSubdirectory(area[j]) => item.type = "file"
                /\ \E d \in [1..(n + 1) -> Range(volume)] : L!Follows(d, parts) /\ d[n + 1] = area[j]
  <2>1. PICK j \in 1..k :
            /\ item.entry = area[j] /\ L!HasName(area[j], parts[n + 1])
            /\ L!IsSubdirectory(area[j]) =>
                  /\ item.type = "directory"
                  /\ \/ Loaded(item.directory, L!AreaOf(area[j]))
                     \/ denied /\ item.directory.live = FALSE
            /\ ~L!IsSubdirectory(area[j]) => item.type = "file"
    BY <1>4, <1>6, <1>9 DEF Fits
  <2>2. j \in 1..(b - 1)
    <3>1. PICK x \in Nat : x = Total(area) /\ x <= b - 1
      BY <1>5
    <3>2. QED
      BY <1>5, <1>6, <3>1
  <2>3. j \in L!InUse(area) /\ area[j] \in Range(volume)
    BY <1>5, <2>2
  <2>4. \E d \in [1..(n + 1) -> Range(volume)] : L!Follows(d, parts) /\ d[n + 1] = area[j]
    <3>1. n \in Nat
      BY <1>3
    <3>2. Along(c, n, parts, area)
      BY <1>2 DEF SearchPlace
    <3>3. L!HasName(area[j], parts[n + 1])
      BY <2>1
    <3>4. QED
      BY <2>3, <3>1, <3>2, <3>3, FollowsMore
  <2>5. QED
    BY <2>1, <2>2, <2>3, <2>4
<1>10. CASE item = L!NoItem
  <2>1. /\ look' = (IF base THEN "unset" ELSE "found") /\ item' = item
    BY <1>10 DEF L!fat16_get_directory_entry
  <2>2. item'.entry = None /\ (Exact => w[n] = None)
    BY <1>8, <1>10, <2>1 DEF Describes, L!NoItem
  <2>3. CASE n = 0
    BY <1>4, <1>8, <2>1, <2>2, <2>3 DEF SearchInv, AtWork
  <2>4. CASE n # 0
    <3>1. look' = "found"
      BY <1>4, <2>1, <2>4
    <3>2. Exact => w[Len(parts) - 1] = None
      <4>1. CASE n = m - 1
        BY <1>3, <2>2, <4>1
      <4>2. CASE n # m - 1
        <5>1. n \in Nat /\ n < Len(parts) - 1 /\ Len(parts) \in Nat
          BY <1>3, <4>2
        <5>2. QED
          BY <2>2, <5>1, ChainStops
      <4>3. QED
        BY <4>1, <4>2
    <3>3. QED
      BY <1>8, <2>2, <3>1, <3>2 DEF SearchInv, AtWork
  <2>5. QED
    BY <2>3, <2>4
<1>11. CASE item # L!NoItem /\ Len(todo) = 1
  <2>1. look' = "found" /\ item' = item
    BY <1>11 DEF L!fat16_get_directory_entry
  <2>2. n + 1 = Len(parts) /\ n = Len(parts) - 1
    <3>1. m - n = 1
      BY <1>4, <1>11
    <3>2. QED
      BY <1>3, <3>1
  <2>3. item'.entry # None => L!LeadsTo(parts, item.entry)'
    <3> SUFFICES ASSUME item.entry # None PROVE L!LeadsTo(parts, item.entry)'
      BY <2>1
    <3>1. PICK d \in [1..(n + 1) -> Range(volume)] : L!Follows(d, parts) /\ d[n + 1] = item.entry
      BY <1>9
    <3>2. L!Follows(d, parts)' /\ Range(volume)' = Range(volume)
      <4>1. \A p : L!Follows(d, p)' <=> L!Follows(d, p)
        BY <1>1, SameVolume
      <4>2. QED
        BY <1>1, <3>1, <4>1, SameVolume
    <3>3. QED
      BY <1>1, <2>1, <2>2, <3>1, <3>2 DEF L!LeadsTo, L!Range, Range
  <2>4. Exact => item'.entry = w[Len(parts) - 1]
    BY <1>8, <2>1, <2>2 DEF Describes
  <2>5. QED
    BY <1>8, <2>1, <2>3, <2>4 DEF SearchInv, AtWork
<1>12. CASE item # L!NoItem /\ Len(todo) # 1 /\ item.type = "file"
  <2>1. look' = "found" /\ item' = L!NoItem /\ item'.entry = None
    BY <1>12 DEF L!fat16_get_directory_entry, L!NoItem
  <2>2. Exact => w[Len(parts) - 1] = None
    <3> SUFFICES ASSUME Exact PROVE w[Len(parts) - 1] = None
      OBVIOUS
    <3>1. w[n] = None \/ ~L!IsSubdirectory(w[n])
      BY <1>8, <1>12 DEF Describes
    <3>2. n \in Nat /\ n < Len(parts) - 1 /\ Len(parts) \in Nat
      BY <1>3, <1>4, <1>12
    <3>3. QED
      BY <3>1, <3>2, ChainStops
  <2>3. QED
    BY <1>8, <2>1, <2>2 DEF SearchInv, AtWork
<1>13. CASE item # L!NoItem /\ Len(todo) # 1 /\ item.type # "file"
  <2>1. item.entry # None
    <3>1. PICK j \in 1..k : item.entry = area[j]
      BY <1>6, <1>13 DEF Fits
    <3>2. j \in 1..(b - 1)
      <4>1. PICK x \in Nat : x = k /\ x <= b - 1
        BY <1>5, <1>6
      <4>2. QED
        BY <1>5, <3>1, <4>1
    <3>3. QED
      BY <1>5, <3>1, <3>2 DEF IsEntry
  <2>2. PICK j \in 1..(b - 1) :
            /\ item.entry = area[j] /\ L!HasName(area[j], parts[n + 1]) /\ area[j] \in Range(volume)
            /\ L!IsSubdirectory(area[j]) =>
                  /\ item.type = "directory"
                  /\ \/ Loaded(item.directory, L!AreaOf(area[j]))
                     \/ denied /\ item.directory.live = FALSE
            /\ ~L!IsSubdirectory(area[j]) => item.type = "file"
            /\ \E d \in [1..(n + 1) -> Range(volume)] : L!Follows(d, parts) /\ d[n + 1] = area[j]
    BY <1>9, <2>1
  <2>3. PICK e : e = area[j] /\ e = item.entry
    BY <2>2
  <2>4. L!IsSubdirectory(e) /\ e \in Range(volume) /\ item.type = "directory"
    BY <1>13, <2>2, <2>3
  <2>5. CASE ~item.directory.live
    <3>1. look' = "wild" /\ denied
      BY <1>13, <2>2, <2>3, <2>4, <2>5 DEF L!fat16_get_directory_entry, Loaded
    <3>2. QED
      BY <1>1, <3>1 DEF SearchInv, AtWork
  <2>6. CASE item.directory.live
    <3>1. Loaded(item.directory, L!AreaOf(e))
      BY <2>2, <2>3, <2>4, <2>6
    <3>2. /\ todo' = Tail(todo) /\ directory' = item.directory /\ k' = 0 /\ item' = L!NoItem
          /\ look' = "search" /\ base' = FALSE
      BY <1>1, <1>13, <2>4, <2>6 DEF L!fat16_get_directory_entry, L!SearchIn
    <3>3. PICK sub : sub = L!AreaOf(e) /\ sub \in L!Areas
      BY <2>4, AreaOfIsArea
    <3>4. L!AreaOf(e)' = sub /\ L!Areas' = L!Areas /\ Range(volume)' = Range(volume)
      BY <1>1, <3>3, SameVolume
    <3>5. PICK p \in Nat : p = n + 1 /\ p \in 0..(Len(parts) - 1) /\ p # 0 /\ p - 1 = n /\ p > 0
      <4>1. m - n # 1 /\ m - n >= 1
        BY <1>4, <1>13
      <4>2. n + 1 \in Nat /\ n + 1 \in 0..(m - 1) /\ n + 1 # 0 /\ (n + 1) - 1 = n /\ n + 1 > 0
        BY <1>3, <4>1
      <4>3. QED
        BY <1>3, <4>2
    <3>6. PICK d \in [1..p -> Range(volume)] : L!Follows(d, parts) /\ d[p] = e
      BY <2>2, <2>3, <3>5
    <3>7. SearchPlace(d, p, sub)'
      <4>1. /\ todo' \in Seq(Seq(Chars)) /\ Len(todo') = m - p
            /\ \A y \in 1..Len(todo') : todo'[y] = todo[y + 1]
        <5>1. PICK t \in Seq(Seq(Chars)) : t = todo /\ Len(t) = m - n /\ Len(t) >= 1
          BY <1>4
        <5>2. /\ Tail(t) \in Seq(Seq(Chars)) /\ Len(Tail(t)) = Len(t) - 1
              /\ \A y \in 1..(Len(t) - 1) : Tail(t)[y] = t[y + 1]
          BY <5>1
        <5>3. (m - n) - 1 = m - p
          BY <1>3, <3>5
        <5>4. QED
          BY <3>2, <5>1, <5>2, <5>3
      <4>7. \A y \in 1..(m - p) : y + 1 \in 1..(m - n) /\ n + (y + 1) = p + y
        BY <1>3, <3>5
      <4>2. ASSUME NEW y \in 1..Len(todo') PROVE todo'[y] = parts'[p + y]
        <5>1. y + 1 \in 1..Len(todo) /\ n + (y + 1) = p + y
          <6>1. y \in 1..(m - p)
            BY <4>1
          <6>2. y + 1 \in 1..(m - n) /\ n + (y + 1) = p + y
            BY <4>7, <6>1
          <6>3. QED
            BY <1>4, <6>2
        <5>2. QED
          BY <1>4, <4>1, <5>1
      <4>3. sub = L!AreaOf(d[p])' /\ L!IsSubdirectory(d[p])'
        BY <2>4, <3>4, <3>6 DEF L!IsSubdirectory
      <4>4. L!Follows(d, parts)'
        <5>1. \A x : L!Follows(d, x)' <=> L!Follows(d, x)
          BY <1>1, SameVolume
        <5>2. QED
          BY <3>6, <5>1
      <4>5. base' = (p = 0)
        BY <3>2, <3>5
      <4>6. QED
        BY <1>3, <3>4, <3>5, <3>6, <4>1, <4>2, <4>3, <4>4, <4>5 DEF SearchPlace, Along
    <3>8. Total(sub) \in Nat
      BY <3>3, AreaFacts
    <3>9. PICK name : name = todo'[1]
      OBVIOUS
    <3>10. L!LastNamed(sub, 1..0, name) = None
      BY LastNamedFacts
    <3>11. Describes(item, L!LastNamed(sub, 1..k, todo[1]))' /\ Fits(item, sub, k, todo[1])'
      BY <3>2, <3>9, <3>10, NothingDescribed DEF Describes, Fits, L!NoItem
    <3>12. SearchState(sub)'
      <4>1. Loaded(directory', sub) /\ k' \in 0..Total(sub)
        BY <3>1, <3>2, <3>3, <3>8
      <4>2. Loaded(directory, sub)' /\ (k \in 0..Total(sub))'
        BY <4>1 DEF Loaded, Total
      <4>3. QED
        BY <3>2, <3>11, <4>2 DEF SearchState
    <3>13. Exact => d[p] = w[p - 1]
      BY <1>8, <2>3, <3>5, <3>6 DEF Describes
    <3>14. SearchAt(w, d, p, sub)'
      BY <1>8, <3>7, <3>12, <3>13 DEF SearchAt
    <3>15. QED
      BY <3>2, <3>3, <3>4, <3>5, <3>14 DEF SearchInv
  <2>7. QED
    BY <2>5, <2>6
<1>14. QED
  BY <1>10, <1>11, <1>12, <1>13
\* What the parts of a path name, one after the other, ends at Target.
LEMMA ChainExists ==
    ASSUME volume \in Disks, L!Regular, NEW p, NEW n \in Nat, Len(p) - 1 = n
    PROVE  \E w : IsChain(w, p) /\ L!Target(p) = w[n]
<1> DEFINE T == Range(volume) \cup {None}
           t == L!Named(L!RootArea, p[1])
           G(w) == w = [q \in 0..(Len(p) - 1) |-> IF q = 0 THEN t ELSE L!Below(w[q - 1], p[q + 1])]
           Step == [q \in 1..n |-> [v \in T |-> L!Below(v, p[q + 1])]]
           at == CHOOSE w : G(w)
<1>1. ASSUME NEW area \in L!Areas, NEW name PROVE L!Named(area, name) \in T
  <2>1. PICK b \in 1..Len(area) :
            /\ Len(area) \in Nat /\ L!InUse(area) = 1..(b - 1)
            /\ \A j \in 1..(b - 1) : area[j] \in Range(volume)
    BY AreaFacts
  <2>2. PICK m \in Nat : m = b - 1
    BY <2>1
  <2>3. PICK S \in SUBSET (1..m) : S = {j \in L!InUse(area) : ~L!IsDeleted(area[j])}
    BY <2>1, <2>2
  <2>4. \/ L!LastNamed(area, S, name) = None
        \/ \E j \in S : L!LastNamed(area, S, name) = area[j]
    BY LastNamedIn
  <2>5. L!Named(area, name) = L!LastNamed(area, S, name)
    BY <2>3 DEF L!Named
  <2>6. QED
    BY <2>1, <2>2, <2>4, <2>5
<1>2. t \in T
  BY <1>1, RootIsArea
<1>3. ASSUME NEW v \in T, NEW name PROVE L!Below(v, name) \in T
  <2>1. CASE v = None \/ ~L!IsSubdirectory(v)
    BY <2>1 DEF L!Below
  <2>2. CASE v # None /\ L!IsSubdirectory(v)
    <3>1. L!AreaOf(v) \in L!Areas
      BY <1>3, <2>2, AreaOfIsArea
    <3>2. L!Below(v, name) = L!Named(L!AreaOf(v), name)
      BY <2>2 DEF L!Below
    <3>3. QED
      BY <1>1, <3>1, <3>2
  <2>3. QED
    BY <2>1, <2>2
<1>4. L!Target(p) = at[n]
  BY DEF L!Target
<1> HIDE DEF t, T
<1>5. Step \in [1..n -> [T -> T]] /\ \A q \in 1..n, v \in T : Step[q][v] = L!Below(v, p[q + 1])
  BY <1>3
<1> HIDE DEF Step
<1>6. PICK w \in [0..n -> T] : w[0] = t /\ \A q \in 1..n : w[q] = Step[q][w[q - 1]]
  <2>1. \E w \in [0..n -> T] : Iterates(w, n, t, Step)
    BY <1>2, <1>5, IterationExists
  <2>2. QED
    BY <2>1 DEF Iterates
<1>7. \A q \in 1..n : w[q] = L!Below(w[q - 1], p[q + 1])
  <2>1. ASSUME NEW q \in 1..n PROVE w[q - 1] \in T
    <3>1. q - 1 \in 0..n
      OBVIOUS
    <3>2. QED
      BY <3>1
  <2>2. QED
    BY <1>5, <1>6, <2>1
<1>8. G(w)
  <2>1. ASSUME NEW q \in 0..n
        PROVE  w[q] = IF q = 0 THEN t ELSE L!Below(w[q - 1], p[q + 1])
    <3>1. q = 0 \/ q \in 1..n
      OBVIOUS
    <3>2. QED
      BY <1>6, <1>7, <3>1
  <2>2. w = [q \in 0..n |-> IF q = 0 THEN t ELSE L!Below(w[q - 1], p[q + 1])]
    BY <2>1
  <2>3. QED
    BY <2>2
<1>9. G(at)
  <2> HIDE DEF G
  <2>1. QED
    BY <1>8
<1>10. at[0] = t /\ \A q \in 1..n : at[q] = L!Below(at[q - 1], p[q + 1])
  <2> HIDE DEF at
  <2>1. 0 \in 0..n /\ \A q \in 1..n : q \in 0..n /\ q # 0
    OBVIOUS
  <2>2. QED
    BY <1>9, <2>1
<1> HIDE DEF at, G
<1>11. IsChain(at, p)
  BY <1>10 DEF IsChain, t
<1>12. QED
  BY <1>4, <1>11

LEMMA LInvInit == OpenInit => LInv
<1> SUFFICES ASSUME OpenInit PROVE LInv
  OBVIOUS
<1>1. /\ volume \in Disks /\ look = "count" /\ slot = 1 /\ count = 0
      /\ root_directory.live = FALSE
  BY DEF OpenInit, L!Init, L!Unloaded
<1>2. Counting(L!RootArea, 1)
  <2>1. 0 \in 0..Len(L!RootArea) /\ slot = 1 + 0 /\ 1..0 \subseteq L!InUse(L!RootArea)
    BY <1>1, RootRun DEF IsRun
  <2>2. {j \in 1..0 : ~L!IsDeleted(L!RootArea[j])} = {}
    OBVIOUS
  <2>3. count = Cardinality({j \in 1..0 : ~L!IsDeleted(L!RootArea[j])})
    BY <1>1, <2>2, FS_EmptySet
  <2>4. QED
    BY <2>1, <2>3 DEF Counting
<1>3. MountInv
  BY <1>1, <1>2 DEF MountInv, AtWork
<1>4. QED
  BY <1>1, <1>3 DEF LInv, SearchInv, AtWork

LEMMA LInvWalk ==
    ASSUME volume \in Disks, L!Regular, MountInv, parts \in Seq(Seq(Chars)), Walk,
           NEW w, IsChain(w, parts), SearchInv(w)
    PROVE  SearchInv(w)'
<1>1. /\ parse = "done" /\ root_directory.live /\ parse' = parse /\ parts' = parts
      /\ \/ L!fat16_get_total_items_for_directory \/ L!fat16_load_fat_directory
         \/ L!fat16_find_item_in_directory \/ L!fat16_get_directory_entry
  BY DEF Walk, L!Walk, pathVars
<1>2. AtWork
  BY <1>1 DEF AtWork, L!fat16_get_total_items_for_directory, L!fat16_load_fat_directory,
              L!fat16_find_item_in_directory, L!fat16_get_directory_entry
<1>3. PICK n \in 0..(Len(parts) - 1) : \E area \in L!Areas : \E c : SearchAt(w, c, n, area)
  BY <1>2 DEF SearchInv
<1>3a. PICK area \in L!Areas : \E c : SearchAt(w, c, n, area)
  BY <1>3
<1>4. PICK c : SearchAt(w, c, n, area)
  BY <1>3a
<1>5. CASE L!fat16_get_total_items_for_directory
  BY <1>1, <1>4, <1>5, CountLook
<1>6. CASE L!fat16_load_fat_directory
  BY <1>1, <1>4, <1>6, LoadLook
<1>7. CASE L!fat16_find_item_in_directory
  BY <1>1, <1>4, <1>7, FindLook
<1>8. CASE L!fat16_get_directory_entry
  BY <1>1, <1>4, <1>8, PartLook
<1>9. QED
  BY <1>1, <1>5, <1>6, <1>7, <1>8

LEMMA LInvOpen ==
    ASSUME LInv, parts \in Seq(Seq(Chars)), [OpenNext]_openVars
    PROVE  LInv'
<1>1. volume' = volume
  BY DEF OpenNext, openVars, lookupVars, Mount, L!Mount, ParsePath, LookupPath, L!Lookup, Walk, L!Walk,
         ReleasePath, L!fat16_get_total_items_for_directory, L!fat16_get_root_directory,
         L!fat16_load_fat_directory, L!fat16_find_item_in_directory, L!fat16_get_directory_entry
<1>2. volume \in Disks /\ volume' \in Disks
  BY <1>1 DEF LInv
<1> SUFFICES ASSUME L!Regular'
             PROVE  MountInv' /\ \A w : IsChain(w, parts)' => SearchInv(w)'
  BY <1>2 DEF LInv
<1>3. L!Regular /\ L!RootArea' = L!RootArea /\ \A e : L!AreaOf(e)' = L!AreaOf(e)
  BY <1>1, SameVolume
<1>4. MountInv /\ \A w : IsChain(w, parts) => SearchInv(w)
  BY <1>3 DEF LInv
<1>5. ASSUME NEW w, IsChain(w, parts)', parts' = parts PROVE IsChain(w, parts)
  <2>1. \A e, name : L!Below(e, name)' = L!Below(e, name)
    BY <1>1, SameVolume
  <2>2. QED
    BY <1>3, <1>5, <2>1 DEF IsChain, L!Named
<1>6. CASE UNCHANGED openVars
  <2>1. UNCHANGED <<volume, look, slot, count, root_directory, todo, directory, k, item, base, denied,
                    parts, parse>>
    BY <1>6 DEF openVars, lookupVars, pathVars
  <2>2. MountInv'
    BY <1>3, <1>4, <2>1 DEF MountInv, AtWork, Loaded, Total, Counting
  <2>3. ASSUME NEW w, SearchInv(w) PROVE SearchInv(w)'
    <3>1. L!Areas' = L!Areas
      BY <1>1, SameVolume
    <3>2. Exact' <=> Exact
      BY <2>1, SameVolume DEF Exact
    <3>3. ASSUME NEW n, NEW area, NEW c, SearchAt(w, c, n, area) PROVE SearchAt(w, c, n, area)'
      <4>1. SearchPlace(c, n, area)'
        BY <2>1, <3>3, PlaceStays DEF SearchAt
      <4>2. SearchState(area)'
        <5>1. SearchState(area)
          BY <3>3 DEF SearchAt
        <5>2. Loaded(directory, area)' /\ (k \in 0..Total(area))'
          BY <2>1, <5>1 DEF SearchState, Loaded, Total
        <5>3. look = "search" /\ ~denied => Describes(item, L!LastNamed(area, 1..k, todo[1]))'
          BY <1>3, <2>1, <5>1 DEF SearchState, Describes, L!IsSubdirectory
        <5>4. look # "search" => /\ (k >= 1)' /\ L!IsSubdirectory(area[k])' /\ L!HasName(area[k], todo[1])'
                                 /\ (L!LastNamed(area, 1..k, todo[1]) = area[k])'
          BY <2>1, <5>1 DEF SearchState, L!IsSubdirectory
        <5>5. look = "count" => Counting(L!AreaOf(area[k]), L!SlotOf(area[k].cluster))'
          BY <1>3, <2>1, <5>1 DEF SearchState, Counting
        <5>6. look = "load" => (count = Total(L!AreaOf(area[k])))'
          BY <1>3, <2>1, <5>1 DEF SearchState, Total
        <5>7. look = "search" => Fits(item, area, k, todo[1])'
          BY <1>3, <2>1, <5>1 DEF SearchState, Fits, Loaded, Total, L!IsSubdirectory, L!NoItem
        <5>8. QED
          BY <2>1, <5>2, <5>3, <5>4, <5>5, <5>6, <5>7 DEF SearchState
      <4>3. QED
        BY <2>1, <3>2, <3>3, <4>1, <4>2 DEF SearchAt
    <3>4. ASSUME L!LeadsTo(parts, item.entry) PROVE L!LeadsTo(parts, item.entry)'
      <4>1. \A c, p : L!Follows(c, p)' <=> L!Follows(c, p)
        BY <1>1, SameVolume
      <4>2. L!Range(volume)' = L!Range(volume)
        BY <2>1 DEF L!Range
      <4>3. PICK c \in [1..Len(parts) -> L!Range(volume)] :
                L!Follows(c, parts) /\ c[Len(parts)] = item.entry
        BY <3>4 DEF L!LeadsTo
      <4>4. L!Follows(c, parts)' /\ c \in [1..Len(parts') -> L!Range(volume)'] /\ c[Len(parts')] = item'.entry
        BY <2>1, <4>1, <4>2, <4>3
      <4>5. QED
        BY <4>4 DEF L!LeadsTo
    <3>5. QED
      BY <2>1, <2>3, <3>1, <3>2, <3>3, <3>4 DEF SearchInv, AtWork
  <2>4. QED
    BY <1>4, <1>5, <2>1, <2>2, <2>3
<1>7. CASE Mount
  BY <1>2, <1>3, <1>4, <1>7, MountLook DEF Mount
<1>8. CASE ParsePath
  <2>1. look = "mounted" /\ UNCHANGED <<volume, look, root_directory>>
    BY <1>8 DEF ParsePath, lookupVars
  <2>2. MountInv'
    BY <1>3, <1>4, <2>1 DEF MountInv, AtWork, Loaded, Total
  <2>3. QED
    BY <2>1, <2>2 DEF SearchInv, AtWork
<1>9. CASE LookupPath
  BY <1>2, <1>3, <1>4, <1>9, LookupLook
<1>10. CASE Walk
  <2>1. /\ parse' = parse /\ parts' = parts /\ root_directory' = root_directory /\ root_directory.live
        /\ parse = "done" /\ AtWork
        /\ look' \in {"count", "load", "search", "found", "unset", "wild"}
    BY <1>10 DEF Walk, L!Walk, pathVars, AtWork, L!fat16_get_total_items_for_directory,
                 L!fat16_load_fat_directory, L!fat16_find_item_in_directory,
                 L!fat16_get_directory_entry
  <2>2. MountInv'
    BY <1>3, <1>4, <2>1 DEF MountInv, AtWork, Loaded, Total
  <2>3. ASSUME NEW w, IsChain(w, parts)' PROVE SearchInv(w)'
    <3>1. IsChain(w, parts) /\ SearchInv(w)
      BY <1>4, <1>5, <2>1, <2>3
    <3>2. QED
      BY <1>2, <1>3, <1>4, <1>10, <3>1, LInvWalk
  <2>4. QED
    BY <2>2, <2>3
<1>11. CASE ReleasePath
  <2>1. /\ look \notin {"count", "load", "search"} /\ parse' \in {"freeing", "freed"}
        /\ UNCHANGED <<volume, look, root_directory>>
    BY <1>11 DEF ReleasePath, path_free, lookupVars
  <2>2. MountInv'
    BY <1>3, <1>4, <2>1 DEF MountInv, AtWork, Loaded, Total
  <2>3. QED
    BY <2>1, <2>2 DEF SearchInv, AtWork
<1>12. QED
  BY <1>6, <1>7, <1>8, <1>9, <1>10, <1>11 DEF OpenNext

LEMMA LInvExact ==
    ASSUME LInv, parts \in Seq(Seq(Chars))
    PROVE  LookupExact
<1> SUFFICES ASSUME parse = "done", parts # <<>>, L!Regular
             PROVE  /\ look = "wild" => denied
                    /\ look = "found" /\ item.entry # None => L!LeadsTo(parts, item.entry)
                    /\ Exact => /\ look = "found" => item.entry = L!Target(parts)
                                /\ look = "unset" => L!Named(L!RootArea, parts[1]) = None
  BY DEF LookupExact, L!FindsTarget, Exact
<1>1. PICK n \in Nat : Len(parts) - 1 = n
  <2>1. Len(parts) - 1 \in Nat
    OBVIOUS
  <2>2. QED
    BY <2>1
<1>2. PICK w : IsChain(w, parts) /\ L!Target(parts) = w[n]
  BY <1>1, ChainExists DEF LInv
<1>3. SearchInv(w) /\ w[0] = L!Named(L!RootArea, parts[1])
  BY <1>2 DEF LInv, IsChain
<1>4. QED
  BY <1>1, <1>2, <1>3 DEF SearchInv

(***************************************************************************)
(* For every disk, directories of every size and every path, if every      *)
(* directory has a blank slot and padded names: a lookup stays within the  *)
(* entries that were loaded and finds only what has the names of the path, *)
(* whichever kzallocs are refused (look "wild" needs one); without refusal *)
(* and deleted entries it ends at the last entry of these names.           *)
(***************************************************************************)
THEOREM LookupAlwaysExact == OpenSpec => []LookupExact
<1>1. OpenInit => OInv /\ LInv
  BY OInvInit, LInvInit DEF OpenInit
<1>2. OInv /\ LInv /\ [OpenNext]_openVars => (OInv /\ LInv)'
  BY OInvOpen, LInvOpen DEF OInv
<1>3. OInv /\ LInv => LookupExact
  BY LInvExact DEF OInv
<1>4. QED
  BY <1>1, <1>2, <1>3, PTL DEF OpenSpec

-----------------------------------------------------------------------------
(***************************************************************************)
(* The virtual file system (Files), for every volume, every size of the    *)
(* table and of the heap, and whatever the two locals that are read before *)
(* they are assigned hold.                                                 *)
(***************************************************************************)
LEMMA ConstantFacts ==
    /\ MaxObjects \in Nat /\ MaxOpens \in Nat
    /\ MaxDescriptors \in Nat /\ MaxDescriptors >= 2
    /\ UINT32 \in Nat \ {0} /\ Offsets \subseteq Int
    /\ Root \in DOMAIN Directory /\ DOMAIN Directory \subseteq Nodes
    /\ NULL \notin Objects /\ NULL \notin Nodes /\ NULL # Elsewhere /\ Elsewhere \notin Objects
    /\ "fat16" # NULL /\ "fat_private" # NULL /\ "unset" # NULL
BY FilesAssumption DEF Nodes

LEMMA PathFacts ==
    ASSUME NEW p \in Paths
    PROVE  /\ Len(p) \in Nat /\ DOMAIN p = 1..Len(p) /\ p = [q \in 1..Len(p) |-> p[q]]
           /\ \A q \in DOMAIN p : p[q] # Deleted
           /\ \E S : p \in Seq(S)
<1>1. Len(p) \in Nat /\ p = [q \in 1..Len(p) |-> p[q]] /\ \A q \in DOMAIN p : p[q] # Deleted
  BY FilesAssumption
<1>2. PICK n \in Nat : n = Len(p)
  BY <1>1
<1>3. DOMAIN p = 1..n
  BY <1>1, <1>2
<1> DEFINE S == {p[q] : q \in 1..n}
<1>4. p \in [1..n -> S]
  BY <1>1, <1>2
<1> HIDE DEF S
<1>5. p \in Seq(S)
  BY <1>4
<1>6. QED
  BY <1>1, <1>2, <1>3, <1>5

LEMMA DirectoryFacts ==
    ASSUME NEW d \in DOMAIN Directory
    PROVE  /\ Len(Directory[d]) \in Nat /\ DOMAIN Directory[d] = 1..Len(Directory[d])
           /\ \A y \in DOMAIN Directory[d] :
                 /\ Directory[d][y] = [name |-> Directory[d][y].name, node |-> Directory[d][y].node]
                 /\ Directory[d][y].node \in Nodes
           /\ \A x, y \in DOMAIN Directory[d] :
                 Directory[d][x].name = Directory[d][y].name /\ Directory[d][x].name # Deleted => x = y
BY FilesAssumption

\* The entries that are counted are entries of the directory.
LEMMA TotalFacts ==
    ASSUME NEW d \in DOMAIN Directory
    PROVE  /\ fat16_get_total_items_for_directory(d) \in 0..Len(Directory[d])
           /\ (\A j \in DOMAIN Directory[d] : Directory[d][j].name # Deleted)
                 => fat16_get_total_items_for_directory(d) = Len(Directory[d])
<1> DEFINE U == {j \in DOMAIN Directory[d] : Directory[d][j].name # Deleted}
<1>1. PICK n \in Nat : n = Len(Directory[d]) /\ DOMAIN Directory[d] = 1..n
  BY DirectoryFacts
<1>2. IsFiniteSet(1..n) /\ Cardinality(1..n) = n
  <2>1. IsFiniteSet(1..n) /\ Cardinality(1..n) = IF 1 > n THEN 0 ELSE n - 1 + 1
    BY FS_Interval
  <2>2. QED
    BY <2>1
<1>3. U \subseteq 1..n
  BY <1>1
<1>4. fat16_get_total_items_for_directory(d) = Cardinality(U)
  BY DEF fat16_get_total_items_for_directory
<1>5. (\A j \in DOMAIN Directory[d] : Directory[d][j].name # Deleted) => U = 1..n
  BY <1>1
<1> HIDE DEF U
<1>6. Cardinality(U) \in Nat /\ Cardinality(U) <= n
  BY <1>2, <1>3, FS_Subset, FS_CardinalityType
<1>7. QED
  BY <1>1, <1>2, <1>4, <1>5, <1>6

\* What the lookup has found after some parts of a path.
WalkSet ==
    {w \in [at : {"item", "none", "lost", "wild"}, node : Nodes \cup {NULL},
            body : {"held", "null", "freed"}] : w.at \in {"item", "lost"} => w.node \in Nodes}

\* A search in a directory gives an item of one of its entries of that name, or
\* nothing; if there is such an entry and no allocation is refused, a whole item.
LEMMA FoundFacts ==
    ASSUME NEW d \in DOMAIN Directory, NEW name, NEW fails,
           NEW w, w = fat16_find_item_in_directory(d, name, fails)
    PROVE  /\ w \in WalkSet /\ w.at \in {"item", "none"}
           /\ w.at = "item" =>
                \E j \in DOMAIN Directory[d] : Directory[d][j] = [name |-> name, node |-> w.node]
           /\ Matches(d, name) # {} /\ fails = "none" => w.at = "item" /\ w.body = "held"
<1>1. PICK n \in Nat : /\ n = fat16_get_total_items_for_directory(d) /\ n <= Len(Directory[d])
                       /\ Len(Directory[d]) \in Nat
  BY TotalFacts, DirectoryFacts
<1>2. CASE Matches(d, name) = {}
  <2>1. w = [at |-> "none", node |-> NULL, body |-> "null"]
    BY <1>2 DEF fat16_find_item_in_directory, NoItem
  <2>2. QED
    BY <1>2, <2>1 DEF WalkSet
<1>3. CASE Matches(d, name) # {}
  <2> DEFINE m == Max(Matches(d, name))
             v == Directory[d][m].node
  <2>1. Matches(d, name) \in SUBSET (0..n)
    BY <1>1 DEF Matches
  <2>2. m \in Matches(d, name)
    BY <1>3, <2>1, MaxOf
  <2>3. m \in DOMAIN Directory[d] /\ Directory[d][m].name = name
    BY <1>1, <2>2, DirectoryFacts DEF Matches
  <2>4. v \in Nodes /\ Directory[d][m] = [name |-> name, node |-> v]
    BY <2>3, DirectoryFacts
  <2>5. w = fat16_new_fat_item_for_directory_item(v, fails)
    BY <1>3 DEF fat16_find_item_in_directory
  <2> HIDE DEF m, v
  <2>6. \/ fails = "item" /\ w = [at |-> "none", node |-> NULL, body |-> "null"]
        \/ \E y \in {"held", "null", "freed"} :
              /\ w = [at |-> "item", node |-> v, body |-> y]
              /\ fails = "none" => y = "held"
    BY <2>5 DEF fat16_new_fat_item_for_directory_item, NoItem, Item
  <2>7. CASE fails = "item" /\ w = [at |-> "none", node |-> NULL, body |-> "null"]
    BY <2>7 DEF WalkSet
  <2>8. CASE \E y \in {"held", "null", "freed"} :
                /\ w = [at |-> "item", node |-> v, body |-> y]
                /\ fails = "none" => y = "held"
    <3>1. PICK y \in {"held", "null", "freed"} :
             w = [at |-> "item", node |-> v, body |-> y] /\ (fails = "none" => y = "held")
      BY <2>8
    <3>2. w.at = "item" /\ w.node = v /\ w.body = y
      BY <3>1
    <3>3. w \in WalkSet
      BY <2>4, <3>1 DEF WalkSet
    <3>4. QED
      BY <2>3, <2>4, <3>1, <3>2, <3>3
  <2>9. QED
    BY <2>6, <2>7, <2>8
<1>4. QED
  BY <1>2, <1>3

\* One part of a path.
LEMMA WalkPartFacts ==
    ASSUME NEW w \in WalkSet, NEW name, NEW fails, NEW v, v = WalkPart(w, name, fails)
    PROVE  /\ v \in WalkSet
           /\ v.at = "item" =>
                 /\ w.at = "item" /\ w.node \in DOMAIN Directory
                 /\ \E j \in DOMAIN Directory[w.node] :
                       Directory[w.node][j] = [name |-> name, node |-> v.node]
           /\ w.at = "item" /\ w.body = "held" /\ w.node \in DOMAIN Directory =>
                 v = fat16_find_item_in_directory(w.node, name, fails)
<1>1. CASE w.at # "item"
  <2>1. v = w
    BY <1>1 DEF WalkPart
  <2>2. QED
    BY <1>1, <2>1
<1>2. CASE w.at = "item" /\ w.node \notin DOMAIN Directory
  <2>1. v = [w EXCEPT !.at = "lost"]
    BY <1>2 DEF WalkPart, IsDirectory
  <2>2. v.at = "lost" /\ v.node = w.node /\ v \in WalkSet
    BY <1>2, <2>1 DEF WalkSet
  <2>3. QED
    BY <1>2, <2>2
<1>3. CASE w.at = "item" /\ w.node \in DOMAIN Directory /\ w.body # "held"
  <2>1. v = [w EXCEPT !.at = "wild"]
    BY <1>3 DEF WalkPart, IsDirectory
  <2>2. v.at = "wild" /\ v \in WalkSet
    BY <1>3, <2>1 DEF WalkSet
  <2>3. QED
    BY <1>3, <2>2
<1>4. CASE w.at = "item" /\ w.node \in DOMAIN Directory /\ w.body = "held"
  <2>1. v = fat16_find_item_in_directory(w.node, name, fails)
    BY <1>4 DEF WalkPart, IsDirectory
  <2>2. PICK d \in DOMAIN Directory : d = w.node
    BY <1>4
  <2>3. /\ v \in WalkSet /\ v.at \in {"item", "none"}
        /\ v.at = "item" =>
             \E j \in DOMAIN Directory[d] : Directory[d][j] = [name |-> name, node |-> v.node]
    BY <2>1, <2>2, FoundFacts
  <2>4. QED
    BY <1>4, <2>1, <2>2, <2>3
<1>5. QED
  BY <1>1, <1>2, <1>3, <1>4

\* An item is lost at a file, and stays lost.
LEMMA WalkPartLost ==
    ASSUME NEW w \in WalkSet, NEW name, NEW fails, WalkPart(w, name, fails).at = "lost"
    PROVE  w.at \in {"item", "lost"} /\ (w.at = "item" => w.node \notin DOMAIN Directory)
<1>1. CASE w.at # "item"
  <2>1. WalkPart(w, name, fails) = w
    BY <1>1 DEF WalkPart
  <2>2. QED
    BY <1>1, <2>1
<1>2. CASE w.at = "item" /\ w.node \in DOMAIN Directory
  <2>1. CASE w.body # "held"
    <3>1. WalkPart(w, name, fails) = [w EXCEPT !.at = "wild"]
      BY <1>2, <2>1 DEF WalkPart, IsDirectory
    <3>2. [w EXCEPT !.at = "wild"].at = "wild"
      BY DEF WalkSet
    <3>3. QED
      BY <3>1, <3>2
  <2>2. CASE w.body = "held"
    <3>1. PICK v : v = WalkPart(w, name, fails)
      OBVIOUS
    <3>2. v = fat16_find_item_in_directory(w.node, name, fails)
      BY <1>2, <2>2, <3>1 DEF WalkPart, IsDirectory
    <3>3. v.at \in {"item", "none"}
      BY <1>2, <3>2, FoundFacts
    <3>4. QED
      BY <3>1, <3>3
  <2>3. QED
    BY <2>1, <2>2
<1>3. QED
  BY <1>1, <1>2

(***************************************************************************)
(* The walk along a path: an item that it comes to is one of the node that *)
(* the parts up to there name, and it loses one only where the path goes   *)
(* on after a file.                                                        *)
(***************************************************************************)
IsWalk(w, p, r) ==
    /\ w \in [0..Len(p) -> WalkSet]
    /\ w[0] = Item(Root, "held")
    /\ \A q \in 1..Len(p) : w[q] = WalkPart(w[q - 1], p[q], FailsAt(r, q))

LEMMA WalkExists ==
    ASSUME NEW p, Len(p) \in Nat, NEW r
    PROVE  \E w : /\ IsWalk(w, p, r)
                  /\ fat16_get_directory_entry(p, r) =
                        IF w[1] = NoItem THEN [NoItem EXCEPT !.at = "unset"] ELSE w[Len(p)]
<1> DEFINE t == Item(Root, "held")
           G(w) == w = [q \in 0..Len(p) |->
                          IF q = 0 THEN t ELSE WalkPart(w[q - 1], p[q], FailsAt(r, q))]
           Step == [q \in 1..Len(p) |-> [v \in WalkSet |-> WalkPart(v, p[q], FailsAt(r, q))]]
           walk == CHOOSE w : G(w)
<1>1. t \in WalkSet
  BY ConstantFacts DEF WalkSet, Item
<1>2. Step \in [1..Len(p) -> [WalkSet -> WalkSet]]
  BY WalkPartFacts
<1>3. \A q \in 1..Len(p), v \in WalkSet : Step[q][v] = WalkPart(v, p[q], FailsAt(r, q))
  OBVIOUS
<1>4. fat16_get_directory_entry(p, r) =
         IF walk[1] = NoItem THEN [NoItem EXCEPT !.at = "unset"] ELSE walk[Len(p)]
  BY DEF fat16_get_directory_entry
<1> HIDE DEF t, Step
<1>5. PICK w \in [0..Len(p) -> WalkSet] : w[0] = t /\ \A q \in 1..Len(p) : w[q] = Step[q][w[q - 1]]
  <2>1. \E w \in [0..Len(p) -> WalkSet] : Iterates(w, Len(p), t, Step)
    BY <1>1, <1>2, IterationExists
  <2>2. QED
    BY <2>1 DEF Iterates
<1>6. \A q \in 1..Len(p) : w[q] = WalkPart(w[q - 1], p[q], FailsAt(r, q))
  <2>1. ASSUME NEW q \in 1..Len(p) PROVE w[q - 1] \in WalkSet
    <3>1. q - 1 \in 0..Len(p)
      OBVIOUS
    <3>2. QED
      BY <3>1
  <2>2. QED
    BY <1>3, <1>5, <2>1
<1>7. G(w)
  <2>1. ASSUME NEW q \in 0..Len(p)
        PROVE  w[q] = IF q = 0 THEN t ELSE WalkPart(w[q - 1], p[q], FailsAt(r, q))
    <3>1. q = 0 \/ q \in 1..Len(p)
      OBVIOUS
    <3>2. QED
      BY <1>5, <1>6, <3>1
  <2>2. QED
    BY <2>1
<1>8. G(walk)
  <2> HIDE DEF G
  <2>1. QED
    BY <1>7
<1>9. /\ walk[0] = t
      /\ \A q \in 1..Len(p) : walk[q] = WalkPart(walk[q - 1], p[q], FailsAt(r, q))
  <2> HIDE DEF walk
  <2>1. 0 \in 0..Len(p) /\ \A q \in 1..Len(p) : q \in 0..Len(p) /\ q # 0
    OBVIOUS
  <2>2. QED
    BY <1>8, <2>1
<1> HIDE DEF walk, G
<1> DEFINE I == {q \in Nat : q <= Len(p) => walk[q] \in WalkSet}
<1>10. Nat \subseteq I
  <2>1. 0 \in I
    BY <1>1, <1>9
  <2>2. ASSUME NEW q \in Nat, q \in I PROVE q + 1 \in I
    <3> SUFFICES ASSUME q + 1 <= Len(p) PROVE walk[q + 1] \in WalkSet
      OBVIOUS
    <3>1. walk[q] \in WalkSet /\ q + 1 \in 1..Len(p) /\ (q + 1) - 1 = q
      BY <2>2
    <3>2. WalkPart(walk[q], p[q + 1], FailsAt(r, q + 1)) \in WalkSet
      BY <3>1, WalkPartFacts
    <3>3. walk[q + 1] = WalkPart(walk[q], p[q + 1], FailsAt(r, q + 1))
      BY <1>9, <3>1
    <3>4. QED
      BY <3>2, <3>3
  <2> HIDE DEF I
  <2>3. QED
    BY <2>1, <2>2, SetInduction
<1>11. walk \in [0..Len(p) -> WalkSet]
  <2>1. \A q \in 0..Len(p) : walk[q] \in WalkSet
    BY <1>10
  <2>2. walk = [q \in 0..Len(p) |-> walk[q]]
    BY <1>8 DEF G
  <2>3. QED
    BY <2>1, <2>2
<1>12. QED
  BY <1>4, <1>9, <1>11 DEF t, IsWalk

LEMMA WalkNames ==
    ASSUME NEW p, Len(p) \in Nat, NEW r, NEW w, IsWalk(w, p, r),
           NEW n \in 0..Len(p), w[n].at = "item",
           NEW s, Len(s) = n, DOMAIN s = 1..n, \A q \in 1..n : s[q] = p[q]
    PROVE  Names(s, w[n].node)
<1>1. /\ \A q \in 0..Len(p) : w[q] \in WalkSet
      /\ w[0].node = Root
      /\ \A q \in 1..Len(p) : w[q] = WalkPart(w[q - 1], p[q], FailsAt(r, q))
  BY DEF IsWalk, Item
<1>2. ASSUME NEW q \in 1..n, w[q].at = "item"
      PROVE  /\ w[q - 1].at = "item" /\ w[q - 1].node \in DOMAIN Directory
             /\ \E j \in DOMAIN Directory[w[q - 1].node] :
                   Directory[w[q - 1].node][j] = [name |-> p[q], node |-> w[q].node]
  <2>1. q - 1 \in 0..Len(p) /\ q \in 1..Len(p)
    OBVIOUS
  <2>2. PICK u \in WalkSet : u = w[q - 1]
    BY <1>1, <2>1
  <2>3. PICK v : v = w[q] /\ v = WalkPart(u, p[q], FailsAt(r, q)) /\ v.at = "item"
    BY <1>1, <1>2, <2>1, <2>2
  <2>4. /\ u.at = "item" /\ u.node \in DOMAIN Directory
        /\ \E j \in DOMAIN Directory[u.node] : Directory[u.node][j] = [name |-> p[q], node |-> v.node]
    BY <2>3, WalkPartFacts
  <2>5. QED
    BY <2>2, <2>3, <2>4
<1> DEFINE I == {q \in Nat : q <= n => w[n - q].at = "item"}
<1>3. Nat \subseteq I
  <2>1. 0 \in I
    OBVIOUS
  <2>2. ASSUME NEW q \in Nat, q \in I PROVE q + 1 \in I
    <3> SUFFICES ASSUME q + 1 <= n PROVE w[n - (q + 1)].at = "item"
      OBVIOUS
    <3>1. n - q \in 1..n /\ (n - q) - 1 = n - (q + 1) /\ w[n - q].at = "item"
      BY <2>2
    <3>2. QED
      BY <1>2, <3>1
  <2> HIDE DEF I
  <2>3. QED
    BY <2>1, <2>2, SetInduction
<1>4. ASSUME NEW q \in 0..n PROVE w[q].at = "item" /\ w[q].node \in Nodes
  <2>1. PICK m \in Nat : m = n - q /\ n - m = q /\ m <= n
    <3>1. n - q \in Nat /\ n - (n - q) = q /\ n - q <= n
      OBVIOUS
    <3>2. QED
      BY <3>1
  <2>2. w[q].at = "item"
    BY <1>3, <2>1
  <2>3. w[q] \in WalkSet
    BY <1>1
  <2>4. QED
    BY <2>2, <2>3 DEF WalkSet
<1> HIDE DEF I
<1> DEFINE chain == [q \in 0..n |-> w[q].node]
<1>5. \A q \in 0..n : chain[q] = w[q].node /\ chain[q] \in Nodes
  BY <1>4
<1>6. chain \in [0..Len(s) -> Nodes]
  BY <1>5
<1> HIDE DEF chain
<1>7. chain[0] = Root /\ chain[Len(s)] = w[n].node
  BY <1>1, <1>5
<1>8. ASSUME NEW q \in DOMAIN s
      PROVE  /\ IsDirectory(chain[q - 1])
             /\ \E j \in DOMAIN Directory[chain[q - 1]] :
                   Directory[chain[q - 1]][j] = [name |-> s[q], node |-> chain[q]]
  <2>1. q \in 1..n /\ q \in 0..n /\ q - 1 \in 0..n /\ s[q] = p[q] /\ w[q].at = "item"
    BY <1>4
  <2>2. chain[q] = w[q].node /\ chain[q - 1] = w[q - 1].node
    BY <1>5, <2>1
  <2>3. QED
    BY <1>2, <2>1, <2>2 DEF IsDirectory
<1>9. QED
  BY <1>6, <1>7, <1>8 DEF Names

\* Where an item is lost the path goes on after a file.
LEMMA LostThroughFile ==
    ASSUME NEW p \in Paths, NEW r, NEW w, IsWalk(w, p, r), w[Len(p)].at = "lost"
    PROVE  p \in ThroughFile
<1>1. PICK n \in Nat : n = Len(p) /\ DOMAIN p = 1..n
  BY PathFacts
<1>2. PICK S : p \in Seq(S)
  BY PathFacts
<1>3. /\ \A q \in 0..n : w[q] \in WalkSet
      /\ w[0] = [at |-> "item", node |-> Root, body |-> "held"]
      /\ \A q \in 1..n : w[q] = WalkPart(w[q - 1], p[q], FailsAt(r, q))
  BY <1>1 DEF IsWalk, Item
<1>a. ASSUME NEW q \in 0..n, q + 1 \in 1..n, w[q + 1].at = "lost"
      PROVE  /\ w[q] \in WalkSet /\ w[q].at \in {"item", "lost"}
             /\ w[q].at = "item" => w[q].node \notin DOMAIN Directory
  <2>1. PICK u \in WalkSet : u = w[q]
    BY <1>3
  <2>2. WalkPart(u, p[q + 1], FailsAt(r, q + 1)).at = "lost"
    <3>1. w[q + 1] = WalkPart(w[(q + 1) - 1], p[q + 1], FailsAt(r, q + 1)) /\ (q + 1) - 1 = q
      BY <1>3, <1>a
    <3>2. QED
      BY <1>a, <2>1, <3>1
  <2>3. u.at \in {"item", "lost"} /\ (u.at = "item" => u.node \notin DOMAIN Directory)
    BY <2>2, WalkPartLost
  <2>4. QED
    BY <2>1, <2>3
<1> DEFINE Goal == \E m \in 1..(n - 1) : w[m].at = "item" /\ w[m].node \notin DOMAIN Directory
           I == {q \in Nat : q <= n /\ w[q].at = "lost" => Goal}
<1>4. 0 \in I
  BY <1>3
<1>5. ASSUME NEW q \in Nat, q \in I PROVE q + 1 \in I
  <2> SUFFICES ASSUME q + 1 <= n, w[q + 1].at = "lost" PROVE Goal
    OBVIOUS
  <2>1. q \in 0..n /\ q + 1 \in 1..n /\ (q + 1) - 1 = q
    OBVIOUS
  <2>2. PICK u \in WalkSet : u = w[q] /\ u.at \in {"item", "lost"}
                              /\ (u.at = "item" => u.node \notin DOMAIN Directory)
    BY <1>a, <2>1
  <2>5. CASE u.at = "lost"
    BY <1>5, <2>1, <2>2, <2>5
  <2>6. CASE u.at = "item"
    <3>1. q # 0
      BY <1>3, <2>2, <2>6, ConstantFacts
    <3>2. q \in 1..(n - 1) /\ w[q].at = "item" /\ w[q].node \notin DOMAIN Directory
      BY <2>1, <2>2, <2>6, <3>1
    <3>3. QED
      BY <3>2
  <2>7. QED
    BY <2>2, <2>5, <2>6
<1>6. Nat \subseteq I
  <2> HIDE DEF I
  <2>1. QED
    BY <1>4, <1>5, SetInduction
<1>7. PICK m \in 1..(n - 1) : w[m].at = "item" /\ w[m].node \notin DOMAIN Directory
  BY <1>1, <1>6
<1> DEFINE s == SubSeq(p, 1, m)
<1>8. Len(s) = m /\ DOMAIN s = 1..m /\ \A j \in 1..m : s[j] = p[j]
  BY <1>1, <1>2
<1>9. w[m].node \in DOMAIN Filesize
  <2>1. w[m] \in WalkSet
    BY <1>3
  <2>2. QED
    BY <1>7, <2>1 DEF WalkSet, Nodes
<1> HIDE DEF s
<1>10. Names(s, w[m].node)
  <2>1. m \in 0..Len(p) /\ Len(p) \in Nat
    BY <1>1
  <2>2. QED
    BY <1>7, <1>8, <2>1, WalkNames
<1>11. QED
  BY <1>1, <1>9, <1>10 DEF ThroughFile, s

\* What the lookup of a path returns.
LEMMA PathEntryFacts ==
    ASSUME NEW p \in Paths, p # <<>>, NEW r, NEW e, e = fat16_get_directory_entry(p, r)
    PROVE  /\ e.at \in {"item", "none", "lost", "wild", "unset"}
           /\ e.body \in {"held", "null", "freed"}
           /\ e.at \in {"item", "lost"} => e.node \in Nodes
           /\ e.at = "item" => Names(p, e.node)
           /\ e.at = "lost" => p \in ThroughFile
<1>1. PICK n \in Nat : n = Len(p) /\ DOMAIN p = 1..n
  BY PathFacts
<1>2. PICK w : /\ IsWalk(w, p, r)
               /\ e = IF w[1] = NoItem THEN [NoItem EXCEPT !.at = "unset"] ELSE w[Len(p)]
  BY <1>1, WalkExists
<1>3. CASE w[1] = NoItem
  <2>1. e = [at |-> "unset", node |-> NULL, body |-> "null"]
    BY <1>2, <1>3 DEF NoItem
  <2>2. QED
    BY <2>1
<1>4. CASE w[1] # NoItem
  <2>1. e = w[n] /\ w[n] \in WalkSet /\ n \in 0..Len(p)
    BY <1>1, <1>2, <1>4 DEF IsWalk
  <2>2. e.at = "item" => Names(p, e.node)
    BY <1>1, <1>2, <2>1, WalkNames
  <2>3. e.at = "lost" => p \in ThroughFile
    BY <1>1, <1>2, <2>1, LostThroughFile
  <2>4. QED
    BY <2>1, <2>2, <2>3 DEF WalkSet
<1>5. QED
  BY <1>3, <1>4

-----------------------------------------------------------------------------
(***************************************************************************)
(* The inductive invariant.  Three kinds of pointers own an object each:   *)
(* the entries of the table, the field item of a fat_file_descriptor and   *)
(* what a fat_item points to.  A pointer leads to a live object of the     *)
(* right kind that no other pointer of its kind leads to, unless its       *)
(* address is stray; this speaks of every object, not only of those that   *)
(* the table leads to.                                                     *)
(***************************************************************************)
Sound(P, T, S) ==
    /\ \A x \in DOMAIN P : P[x] \in Objects \ S => P[x] \in T
    /\ \A x, y \in DOMAIN P : x # y /\ P[x] = P[y] /\ P[x] \in Objects => P[x] \in S

ItemAt == [d \in DOMAIN descs |-> descs[d].item]
BodyAt == [o \in DOMAIN items |-> items[o].body]

TableSound == Sound(filedescriptors, DOMAIN descs, stray)
DescsSound == Sound(ItemAt, DOMAIN items, stray)
ItemsSound == Sound(BodyAt, DOMAIN bodies, stray)

\* What fat_file_descriptor d refers to is what its path names.
NamesNode(d) ==
    descs[d].item \in Objects \ stray /\ items[descs[d].item].body \notin stray =>
        \E n \in Nodes : Names(descs[d].path, n) /\ RefersTo(descs[d].item, n)

NamesInv == \A d \in DOMAIN descs : NamesNode(d)

DiskInv == disk.filesystem = "fat16" => disk.fs_private # NULL

FInv == TypeOK /\ TableSound /\ DescsSound /\ ItemsSound /\ NamesInv /\ DiskInv

DescType == [item : Objects \cup {Elsewhere}, pos : 0..(UINT32 - 1), path : Paths \cup {<<>>}]
ItemType == [type : {"file", "directory"}, body : Objects \cup {NULL}]

\* TypeOK of the objects.
ObjectTypes ==
    /\ DOMAIN descs \subseteq Objects /\ DOMAIN items \subseteq Objects /\ DOMAIN bodies \subseteq Objects
    /\ stray \subseteq Objects \cup {Elsewhere}
    /\ \A d \in DOMAIN descs : descs[d] \in DescType
    /\ \A o \in DOMAIN items : items[o] \in ItemType
    /\ \A o \in DOMAIN bodies : bodies[o] \in Nodes
    /\ DOMAIN descs \cap DOMAIN items = {}
    /\ DOMAIN bodies \cap (DOMAIN descs \cup DOMAIN items) = {}

OtherTypes ==
    /\ disk \in [filesystem : {NULL, "unset", "fat16"}, fs_private : {NULL, "fat_private"}]
    /\ filedescriptors \in [Fds -> Objects \cup {NULL}]
    /\ paths \in 0..MaxOpens
    /\ ret \in -7..MaxDescriptors

LEMMA TypeFacts == TypeOK <=> ObjectTypes /\ OtherTypes
BY DEF TypeOK, ObjectTypes, OtherTypes, DescType, ItemType, Live, EUNIMP

LEMMA FieldTypes ==
    ASSUME ObjectTypes
    PROVE  /\ \A d \in DOMAIN descs :
                 /\ descs[d].item \in Objects \cup {Elsewhere} /\ descs[d].item # NULL
                 /\ descs[d].pos \in 0..(UINT32 - 1)
           /\ \A o \in DOMAIN items : items[o].body \in Objects \cup {NULL}
           /\ NULL \notin DOMAIN descs /\ NULL \notin DOMAIN items /\ NULL \notin DOMAIN bodies
           /\ Elsewhere \notin DOMAIN items /\ NULL \notin stray
<1>1. \A d \in DOMAIN descs : descs[d].item \in Objects \cup {Elsewhere} /\ descs[d].pos \in 0..(UINT32 - 1)
  BY DEF ObjectTypes, DescType
<1>2. \A o \in DOMAIN items : items[o].body \in Objects \cup {NULL}
  BY DEF ObjectTypes, ItemType
<1>3. QED
  BY <1>1, <1>2, ConstantFacts DEF ObjectTypes

\* Fewer pointers, or pointers to more objects, or more stray addresses.
LEMMA SoundFewer ==
    ASSUME NEW P, NEW T, NEW S, Sound(P, T, S), NEW Q, NEW T2, NEW S2, S \subseteq S2,
           DOMAIN Q \subseteq DOMAIN P,
           \A x \in DOMAIN Q : Q[x] = P[x] \/ Q[x] \notin Objects,
           \A x \in DOMAIN Q : Q[x] \in Objects \ S2 /\ Q[x] \in T => Q[x] \in T2
    PROVE  Sound(Q, T2, S2)
BY DEF Sound

\* One pointer more, to a new object.
LEMMA SoundMore ==
    ASSUME NEW P, NEW T, NEW S, Sound(P, T, S), NEW Q, NEW T2, NEW S2, S \subseteq S2, T \subseteq T2,
           NEW h, DOMAIN Q = DOMAIN P \cup {h},
           \A x \in DOMAIN P \ {h} : Q[x] = P[x],
           Q[h] \in Objects \ S2 => Q[h] \in T2 \ T
    PROVE  Sound(Q, T2, S2)
<1>1. ASSUME NEW x \in DOMAIN Q, Q[x] \in Objects \ S2 PROVE Q[x] \in T2
  BY <1>1 DEF Sound
<1>2. ASSUME NEW x \in DOMAIN Q, NEW y \in DOMAIN Q, x # y, Q[x] = Q[y], Q[x] \in Objects, Q[x] \notin S2
      PROVE  FALSE
  <2>1. CASE x # h /\ y # h
    BY <1>2, <2>1 DEF Sound
  <2>2. CASE x = h
    BY <1>2, <2>2 DEF Sound
  <2>3. CASE y = h
    BY <1>2, <2>3 DEF Sound
  <2>4. QED
    BY <2>1, <2>2, <2>3
<1>3. QED
  BY <1>1, <1>2 DEF Sound

\* A fat_file_descriptor that stays refers to the same node as before.
LEMMA NamesKept ==
    ASSUME ObjectTypes, DescsSound, ItemsSound, DescsSound', ItemsSound', stray \subseteq stray',
           \A o \in DOMAIN items : o \in DOMAIN items' => items'[o] = items[o],
           \A o \in DOMAIN bodies : o \in DOMAIN bodies' => bodies'[o] = bodies[o],
           NEW d \in DOMAIN descs, d \in DOMAIN descs', NamesNode(d),
           descs'[d].item = descs[d].item, descs'[d].path = descs[d].path
    PROVE  NamesNode(d)'
<1> SUFFICES ASSUME descs'[d].item \in Objects \ stray', items'[descs'[d].item].body \notin stray'
             PROVE  \E n \in Nodes :
                       /\ Names(descs'[d].path, n)
                       /\ items'[descs'[d].item].type = IF IsDirectory(n) THEN "directory" ELSE "file"
                       /\ items'[descs'[d].item].body # NULL => bodies'[items'[descs'[d].item].body] = n
  BY DEF NamesNode, RefersTo
<1>1. PICK x : x = descs[d].item /\ x \in Objects \ stray' /\ x \in Objects \ stray
  OBVIOUS
<1>2. x \in DOMAIN items
  BY <1>1 DEF DescsSound, Sound, ItemAt
<1>3. x \in DOMAIN items'
  <2>1. DOMAIN ItemAt' = DOMAIN descs' /\ ItemAt'[d] = x
    BY <1>1 DEF ItemAt
  <2>2. QED
    BY <1>1, <2>1 DEF DescsSound, Sound
<1>4. items'[x] = items[x] /\ items[x].body \notin stray' /\ items[x].body \notin stray
  BY <1>1, <1>2, <1>3
<1>5. PICK n \in Nodes : Names(descs[d].path, n) /\ RefersTo(x, n)
  BY <1>1, <1>4 DEF NamesNode
<1>6. ASSUME items[x].body # NULL PROVE bodies'[items[x].body] = n
  <2>1. PICK y : y = items[x].body /\ y \in Objects
    BY <1>2, <1>6, FieldTypes
  <2>2. y \in DOMAIN bodies
    BY <1>2, <1>4, <2>1 DEF ItemsSound, Sound, BodyAt
  <2>3. y \in DOMAIN bodies'
    <3>1. DOMAIN BodyAt' = DOMAIN items' /\ BodyAt'[x] = y
      BY <1>3, <1>4, <2>1 DEF BodyAt
    <3>2. QED
      BY <1>3, <1>4, <2>1, <3>1 DEF ItemsSound, Sound
  <2>4. QED
    BY <1>5, <1>6, <2>1, <2>2, <2>3 DEF RefersTo
<1>7. QED
  BY <1>1, <1>4, <1>5, <1>6 DEF RefersTo

(***************************************************************************)
(* The addresses that a descriptor leads to, and what a step that changes  *)
(* other objects leaves of it.                                             *)
(***************************************************************************)
LEMMA ReachIff ==
    ASSUME ObjectTypes, NEW fd \in Fds, NEW x,
           NEW d, d = filedescriptors[fd]
    PROVE  x \in Reach(fd) <=>
              /\ x # NULL
              /\ \/ x = d
                 \/ d \in DOMAIN descs /\ x = descs[d].item
                 \/ d \in DOMAIN descs /\ descs[d].item \in DOMAIN items /\ x = items[descs[d].item].body
BY FieldTypes DEF Reach

\* An address that is not stray is that of an object of the right kind.
LEMMA ReachKinds ==
    ASSUME FInv, NEW fd \in Fds, NEW x \in Objects \ stray, x \in Reach(fd),
           NEW d, d = filedescriptors[fd]
    PROVE  \/ x = d /\ d \in DOMAIN descs
           \/ d \in DOMAIN descs /\ x = descs[d].item /\ x \in DOMAIN items
           \/ /\ d \in DOMAIN descs /\ descs[d].item \in DOMAIN items
              /\ x = items[descs[d].item].body /\ x \in DOMAIN bodies
<1>1. ObjectTypes /\ OtherTypes /\ TableSound /\ DescsSound /\ ItemsSound
  BY TypeFacts DEF FInv
<1>2. filedescriptors \in [Fds -> Objects \cup {NULL}]
  BY <1>1 DEF OtherTypes
<1>3. \/ x = d
      \/ d \in DOMAIN descs /\ x = descs[d].item
      \/ d \in DOMAIN descs /\ descs[d].item \in DOMAIN items /\ x = items[descs[d].item].body
  BY <1>1, ReachIff
<1>4. CASE x = d
  BY <1>1, <1>2, <1>4 DEF TableSound, Sound
<1>5. CASE d \in DOMAIN descs /\ x = descs[d].item
  BY <1>1, <1>5 DEF DescsSound, Sound, ItemAt
<1>6. CASE d \in DOMAIN descs /\ descs[d].item \in DOMAIN items /\ x = items[descs[d].item].body
  BY <1>1, <1>6 DEF ItemsSound, Sound, BodyAt
<1>7. QED
  BY <1>3, <1>4, <1>5, <1>6

LEMMA ReachLive ==
    ASSUME FInv, NEW fd \in Fds, NEW x \in Objects \ stray, x \in Reach(fd)
    PROVE  x \in Live
BY ReachKinds DEF Live

\* What a descriptor without stray addresses leads to, no other one does.
LEMMA Separate ==
    ASSUME FInv, NEW a \in Fds, NEW b \in Fds, a # b, Reach(a) \cap stray = {},
           NEW x \in Objects, x \in Reach(a), x \in Reach(b)
    PROVE  FALSE
<1>1. ObjectTypes /\ OtherTypes /\ TableSound /\ DescsSound /\ ItemsSound
  BY TypeFacts DEF FInv
<1>2. filedescriptors \in [Fds -> Objects \cup {NULL}] /\ x \notin stray
  BY <1>1 DEF OtherTypes
<1>3. PICK d, e : d = filedescriptors[a] /\ e = filedescriptors[b]
  OBVIOUS
<1>4. \/ x = d /\ d \in DOMAIN descs
      \/ d \in DOMAIN descs /\ x = descs[d].item /\ x \in DOMAIN items
      \/ /\ d \in DOMAIN descs /\ descs[d].item \in DOMAIN items
         /\ x = items[descs[d].item].body /\ x \in DOMAIN bodies
  BY <1>2, <1>3, ReachKinds
<1>5. \/ x = e /\ e \in DOMAIN descs
      \/ e \in DOMAIN descs /\ x = descs[e].item /\ x \in DOMAIN items
      \/ /\ e \in DOMAIN descs /\ descs[e].item \in DOMAIN items
         /\ x = items[descs[e].item].body /\ x \in DOMAIN bodies
  BY <1>2, <1>3, ReachKinds
<1>6. /\ DOMAIN descs \cap DOMAIN items = {} /\ DOMAIN bodies \cap DOMAIN descs = {}
      /\ DOMAIN bodies \cap DOMAIN items = {} /\ DOMAIN descs \subseteq Objects
      /\ DOMAIN items \subseteq Objects
  BY <1>1 DEF ObjectTypes
<1>7. d # e /\ d \notin stray
  <2>1. d \in DOMAIN descs /\ d # NULL
    BY <1>1, <1>4, FieldTypes
  <2>2. d \in Reach(a)
    BY <1>1, <1>3, <2>1, ReachIff
  <2>3. QED
    BY <1>1, <1>2, <1>3, <1>6, <2>1, <2>2 DEF TableSound, Sound
<1>8. CASE x = d
  BY <1>4, <1>5, <1>6, <1>7, <1>8
<1>9. CASE x \in DOMAIN items
  <2>1. d \in DOMAIN descs /\ e \in DOMAIN descs /\ descs[d].item = x /\ descs[e].item = x
    BY <1>4, <1>5, <1>6, <1>9
  <2>2. QED
    BY <1>1, <1>2, <1>7, <2>1 DEF DescsSound, Sound, ItemAt
<1>10. CASE x \in DOMAIN bodies
  <2>1. /\ d \in DOMAIN descs /\ descs[d].item \in DOMAIN items /\ x = items[descs[d].item].body
        /\ e \in DOMAIN descs /\ descs[e].item \in DOMAIN items /\ x = items[descs[e].item].body
    BY <1>4, <1>5, <1>6, <1>10
  <2>2. descs[d].item \in Reach(a)
    BY <1>1, <1>3, <2>1, ReachIff, FieldTypes
  <2>3. descs[d].item \notin stray /\ descs[d].item \in Objects
    BY <1>6, <2>1, <2>2
  <2>4. descs[d].item # descs[e].item
    BY <1>1, <1>7, <2>1, <2>3 DEF DescsSound, Sound, ItemAt
  <2>5. QED
    BY <1>1, <1>2, <2>1, <2>4 DEF ItemsSound, Sound, BodyAt
<1>11. QED
  BY <1>4, <1>8, <1>9, <1>10

\* Only objects at the addresses U come, go or change.
ChangesOnly(U) ==
    /\ \A o : o \notin U => (o \in DOMAIN descs' <=> o \in DOMAIN descs)
    /\ \A o \in DOMAIN descs : o \notin U => descs'[o] = descs[o]
    /\ \A o : o \notin U => (o \in DOMAIN items' <=> o \in DOMAIN items)
    /\ \A o \in DOMAIN items : o \notin U => items'[o] = items[o]
    /\ \A o : o \notin U => (o \in DOMAIN bodies' <=> o \in DOMAIN bodies)
    /\ \A o \in DOMAIN bodies : o \notin U => bodies'[o] = bodies[o]

SameView(fd) == View(fd)' = View(fd) /\ Reach(fd)' = Reach(fd)

LEMMA Untouched ==
    ASSUME ObjectTypes, NEW fd \in Fds, filedescriptors'[fd] = filedescriptors[fd],
           NEW U, NULL \notin U, ChangesOnly(U), Reach(fd) \cap U = {}
    PROVE  SameView(fd)
<1>1. PICK d : d = filedescriptors[fd] /\ d = filedescriptors'[fd]
  OBVIOUS
<1>2. /\ \A o : o \notin U => (o \in DOMAIN descs' <=> o \in DOMAIN descs)
      /\ \A o \in DOMAIN descs : o \notin U => descs'[o] = descs[o]
  BY DEF ChangesOnly
<1>3. /\ \A o : o \notin U => (o \in DOMAIN items' <=> o \in DOMAIN items)
      /\ \A o \in DOMAIN items : o \notin U => items'[o] = items[o]
  BY DEF ChangesOnly
<1>4. /\ \A o : o \notin U => (o \in DOMAIN bodies' <=> o \in DOMAIN bodies)
      /\ \A o \in DOMAIN bodies : o \notin U => bodies'[o] = bodies[o]
  BY DEF ChangesOnly
<1>5. NULL \notin DOMAIN descs /\ NULL \notin DOMAIN items /\ NULL \notin DOMAIN bodies
      /\ NULL \notin DOMAIN descs' /\ NULL \notin DOMAIN items' /\ NULL \notin DOMAIN bodies'
  BY <1>2, <1>3, <1>4, FieldTypes
<1>6. d \notin U /\ (d \in DOMAIN descs => descs[d].item \notin U /\ descs[d].item # NULL)
  BY <1>1, ReachIff, FieldTypes
<1>7. CASE d \notin DOMAIN descs
  <2>1. d \notin DOMAIN descs'
    BY <1>2, <1>6, <1>7
  <2>2. View(fd) = <<NULL>> /\ View(fd)' = <<NULL>>
    BY <1>1, <1>7, <2>1 DEF View, Intact
  <2>3. Reach(fd) = {d, NULL} \ {NULL} /\ Reach(fd)' = {d, NULL} \ {NULL}
    BY <1>1, <1>5, <1>7, <2>1 DEF Reach
  <2>4. QED
    BY <2>2, <2>3 DEF SameView
<1>8. CASE d \in DOMAIN descs /\ descs[d].item \notin DOMAIN items
  <2>1. d \in DOMAIN descs' /\ descs'[d] = descs[d] /\ descs[d].item \notin DOMAIN items'
    BY <1>2, <1>3, <1>6, <1>8
  <2>2. View(fd) = <<NULL>> /\ View(fd)' = <<NULL>>
    BY <1>1, <1>8, <2>1 DEF View, Intact
  <2>3. Reach(fd) = {d, descs[d].item, NULL} \ {NULL} /\ Reach(fd)' = {d, descs[d].item, NULL} \ {NULL}
    BY <1>1, <1>8, <2>1 DEF Reach
  <2>4. QED
    BY <2>2, <2>3 DEF SameView
<1>9. CASE d \in DOMAIN descs /\ descs[d].item \in DOMAIN items
  <2>1. PICK x, y : x = descs[d].item /\ y = items[x].body /\ x \in DOMAIN items
    BY <1>9
  <2>2. /\ d \in DOMAIN descs' /\ descs'[d] = descs[d]
        /\ x \in DOMAIN items' /\ items'[x] = items[x]
    BY <1>2, <1>3, <1>6, <1>9, <2>1
  <2>3. y \notin U
    BY <1>1, <1>9, <2>1, ReachIff
  <2>4. Restrict(bodies', {y} \cap DOMAIN bodies') = Restrict(bodies, {y} \cap DOMAIN bodies)
    <3>1. {y} \cap DOMAIN bodies' = {y} \cap DOMAIN bodies
      BY <1>4, <2>3
    <3>2. \A o \in {y} \cap DOMAIN bodies : bodies'[o] = bodies[o]
      BY <1>4, <2>3
    <3>3. QED
      BY <3>1, <3>2 DEF Restrict
  <2>5. View(fd) = <<d, descs[d], items[x], Restrict(bodies, {y} \cap DOMAIN bodies)>>
    BY <1>1, <1>9, <2>1 DEF View, Intact, ItemOf
  <2>6. View(fd)' = <<d, descs[d], items[x], Restrict(bodies', {y} \cap DOMAIN bodies')>>
    BY <1>1, <2>1, <2>2 DEF View, Intact, ItemOf
  <2>7. Reach(fd) = {d, x, y} \ {NULL} /\ Reach(fd)' = {d, x, y} \ {NULL}
    BY <1>1, <1>9, <2>1, <2>2 DEF Reach
  <2>8. QED
    BY <2>4, <2>5, <2>6, <2>7 DEF SameView
<1>10. QED
  BY <1>7, <1>8, <1>9

(***************************************************************************)
(* What a step shows: the invariant again; all descriptors but one, c, of  *)
(* those that lead to no stray address, are as they were; and, as long as  *)
(* there is no stray address, every object is one that c leads to or was   *)
(* there before and not led to by c, unless the call is an excused one.    *)
(***************************************************************************)
Framed(c) == \A fd \in Fds \ {c} : Reach(fd) \cap stray' = {} => SameView(fd)

Saved(c) == \A x \in Live' : x \in Reach(c)' \/ (x \in Live /\ x \notin Reach(c))

Excused ==
    \/ FreeFds = {} /\ paths' # paths
    \/ paths' # paths /\ ret' # 0 /\ filedescriptors' = filedescriptors
    \/ \E path \in ThroughFile : \E r \in Refusals(path, 0, "r") : fopen(path, 0, "r", r)

Good == FInv' /\ \E c \in Fds : Framed(c) /\ (stray' = {} => Saved(c) \/ Excused)

LEMMA OneIsAnEntry == 1 \in Fds
BY ConstantFacts DEF Fds

\* What kfree leaves.
LEMMA FreedFacts ==
    ASSUME NEW S, Freed(S)
    PROVE  /\ DOMAIN descs' = DOMAIN descs \ S /\ \A o \in DOMAIN descs' : descs'[o] = descs[o]
           /\ DOMAIN items' = DOMAIN items \ S /\ \A o \in DOMAIN items' : items'[o] = items[o]
           /\ DOMAIN bodies' = DOMAIN bodies \ S /\ \A o \in DOMAIN bodies' : bodies'[o] = bodies[o]
BY DEF Freed, Without, Restrict

\* Freeing what no pointer that stays leads to, but for stray addresses, keeps
\* the invariant.
LEMMA FreeStep ==
    ASSUME FInv, NEW S, Freed(S), OtherTypes', DiskInv',
           stray \subseteq stray', stray' \subseteq Objects \cup {Elsewhere},
           \A fd \in Fds : filedescriptors'[fd] \in {filedescriptors[fd], NULL},
           \A fd \in Fds : filedescriptors'[fd] \in (S \cap Objects) => filedescriptors'[fd] \in stray',
           \A d \in DOMAIN descs \ S : descs[d].item \in (S \cap Objects) => descs[d].item \in stray',
           \A o \in DOMAIN items \ S : items[o].body \in (S \cap Objects) => items[o].body \in stray'
    PROVE  FInv'
<1>1. ObjectTypes /\ OtherTypes /\ TableSound /\ DescsSound /\ ItemsSound /\ NamesInv
  BY TypeFacts DEF FInv
<1>2. /\ DOMAIN descs' = DOMAIN descs \ S /\ \A o \in DOMAIN descs' : descs'[o] = descs[o]
      /\ DOMAIN items' = DOMAIN items \ S /\ \A o \in DOMAIN items' : items'[o] = items[o]
      /\ DOMAIN bodies' = DOMAIN bodies \ S /\ \A o \in DOMAIN bodies' : bodies'[o] = bodies[o]
  BY FreedFacts
<1>3. ObjectTypes'
  BY <1>1, <1>2 DEF ObjectTypes
<1>4. TypeOK'
  <2>1. (TypeOK <=> ObjectTypes /\ OtherTypes)'
    BY TypeFacts, PTL
  <2>2. QED
    BY <1>3, <2>1
<1>5. TableSound'
  <2>1. DOMAIN filedescriptors = Fds /\ DOMAIN filedescriptors' = Fds
    BY <1>1 DEF OtherTypes
  <2>2. \A x \in Fds : filedescriptors'[x] = filedescriptors[x] \/ filedescriptors'[x] \notin Objects
    BY ConstantFacts
  <2>3. \A x \in Fds : filedescriptors'[x] \in Objects \ stray' /\ filedescriptors'[x] \in DOMAIN descs
                          => filedescriptors'[x] \in DOMAIN descs'
    BY <1>2
  <2>4. Sound(filedescriptors', DOMAIN descs', stray')
    BY <1>1, <2>1, <2>2, <2>3, SoundFewer DEF TableSound
  <2>5. QED
    BY <2>4 DEF TableSound, Sound
<1>6. DescsSound'
  <2> DEFINE P == ItemAt
             Q == [d \in DOMAIN descs' |-> descs'[d].item]
  <2>1. DOMAIN P = DOMAIN descs /\ \A d \in DOMAIN descs : P[d] = descs[d].item
    BY DEF ItemAt
  <2>2. DOMAIN Q = DOMAIN descs' /\ \A d \in DOMAIN descs' : Q[d] = descs'[d].item
    OBVIOUS
  <2>3. Sound(P, DOMAIN items, stray)
    BY <1>1 DEF DescsSound
  <2> HIDE DEF P, Q
  <2>4. Sound(Q, DOMAIN items', stray')
    BY <1>2, <2>1, <2>2, <2>3, SoundFewer
  <2>5. Q = ItemAt'
    BY DEF Q, ItemAt
  <2>6. QED
    BY <2>4, <2>5 DEF DescsSound, Sound
<1>7. ItemsSound'
  <2> DEFINE P == BodyAt
             Q == [o \in DOMAIN items' |-> items'[o].body]
  <2>1. DOMAIN P = DOMAIN items /\ \A o \in DOMAIN items : P[o] = items[o].body
    BY DEF BodyAt
  <2>2. DOMAIN Q = DOMAIN items' /\ \A o \in DOMAIN items' : Q[o] = items'[o].body
    OBVIOUS
  <2>3. Sound(P, DOMAIN bodies, stray)
    BY <1>1 DEF ItemsSound
  <2> HIDE DEF P, Q
  <2>4. Sound(Q, DOMAIN bodies', stray')
    BY <1>2, <2>1, <2>2, <2>3, SoundFewer
  <2>5. Q = BodyAt'
    BY DEF Q, BodyAt
  <2>6. QED
    BY <2>4, <2>5 DEF ItemsSound, Sound
<1>8. NamesInv'
  <2>1. ASSUME NEW d \in DOMAIN descs' PROVE NamesNode(d)'
    <3>1. d \in DOMAIN descs /\ descs'[d] = descs[d] /\ NamesNode(d)
      BY <1>1, <1>2 DEF NamesInv
    <3>2. QED
      BY <1>1, <1>2, <1>6, <1>7, <3>1, NamesKept
  <2>2. QED
    BY <2>1 DEF NamesInv
<1>9. QED
  BY <1>4, <1>5, <1>6, <1>7, <1>8 DEF FInv

\* The descriptors that lead to none of what is freed are as they were.
LEMMA FreeFrame ==
    ASSUME FInv, NEW S, Freed(S), NEW c \in Fds,
           \A fd \in Fds \ {c} : filedescriptors'[fd] = filedescriptors[fd],
           \A fd \in Fds \ {c} : Reach(fd) \cap stray' = {} => Reach(fd) \cap (S \ {NULL}) = {}
    PROVE  Framed(c)
<1>1. ObjectTypes
  BY TypeFacts DEF FInv
<1>2. NULL \notin DOMAIN descs /\ NULL \notin DOMAIN items /\ NULL \notin DOMAIN bodies
  BY <1>1, FieldTypes
<1>3. ChangesOnly(S \ {NULL})
  <2>1. /\ DOMAIN descs' = DOMAIN descs \ S /\ \A o \in DOMAIN descs' : descs'[o] = descs[o]
        /\ DOMAIN items' = DOMAIN items \ S /\ \A o \in DOMAIN items' : items'[o] = items[o]
        /\ DOMAIN bodies' = DOMAIN bodies \ S /\ \A o \in DOMAIN bodies' : bodies'[o] = bodies[o]
    BY FreedFacts
  <2>2. QED
    BY <1>2, <2>1 DEF ChangesOnly
<1>4. QED
  BY <1>1, <1>3, Untouched DEF Framed

\* A call that leaves the objects and the table alone.
LEMMA QuietStep ==
    ASSUME FInv, descs' = descs, items' = items, bodies' = bodies, filedescriptors' = filedescriptors,
           stray \subseteq stray', stray' \subseteq Objects \cup {Elsewhere}, OtherTypes', DiskInv'
    PROVE  Good
<1>1. ObjectTypes /\ OtherTypes /\ TableSound /\ DescsSound /\ ItemsSound /\ NamesInv
  BY TypeFacts DEF FInv
<1>2. ObjectTypes'
  BY <1>1 DEF ObjectTypes
<1>3. TypeOK'
  <2>1. (TypeOK <=> ObjectTypes /\ OtherTypes)'
    BY TypeFacts, PTL
  <2>2. QED
    BY <1>2, <2>1
<1>4. TableSound' /\ DescsSound' /\ ItemsSound'
  BY <1>1 DEF TableSound, DescsSound, ItemsSound, Sound, ItemAt, BodyAt
<1>5. NamesInv'
  BY <1>1 DEF NamesInv, NamesNode, RefersTo
<1>6. FInv'
  BY <1>3, <1>4, <1>5 DEF FInv
<1>7. \A fd \in Fds : SameView(fd)
  BY DEF SameView, View, Reach, Intact, ItemOf
<1>8. Framed(1) /\ Saved(1)
  <2>1. Live' = Live /\ Reach(1)' = Reach(1)
    BY <1>7, OneIsAnEntry DEF SameView, Live
  <2>2. QED
    BY <1>7, <2>1 DEF Framed, Saved
<1>9. QED
  BY <1>6, <1>8, OneIsAnEntry DEF Good

-----------------------------------------------------------------------------
(***************************************************************************)
(* The steps.                                                              *)
(***************************************************************************)
LEMMA MountStep ==
    ASSUME FInv, NEW recognised \in BOOLEAN, disk_search_and_init(recognised)
    PROVE  Good
<1>1. OtherTypes /\ ObjectTypes
  BY TypeFacts DEF FInv
<1>2. /\ filedescriptors' = filedescriptors /\ descs' = descs /\ items' = items
      /\ bodies' = bodies /\ stray' = stray /\ paths' = paths /\ ret' = ret
  BY DEF disk_search_and_init, objects
<1>3. disk' = [filesystem |-> IF recognised THEN "fat16" ELSE NULL,
               fs_private |-> IF recognised THEN "fat_private" ELSE NULL]
  BY DEF disk_search_and_init, fat16_resolve, fs_resolve
<1>4. OtherTypes' /\ DiskInv'
  BY <1>1, <1>2, <1>3, ConstantFacts DEF OtherTypes, DiskInv
<1>5. stray' \subseteq Objects \cup {Elsewhere}
  BY <1>1, <1>2 DEF ObjectTypes
<1>6. QED
  BY <1>2, <1>4, <1>5, QuietStep

\* A call that changes nothing but what it returns.
LEMMA QuietCall ==
    ASSUME FInv, UNCHANGED <<disk, filedescriptors, descs, items, bodies, stray, paths>>,
           ret' \in -7..MaxDescriptors
    PROVE  Good
<1>1. OtherTypes /\ ObjectTypes /\ DiskInv
  BY TypeFacts DEF FInv
<1>2. OtherTypes' /\ DiskInv' /\ stray' \subseteq Objects \cup {Elsewhere}
  BY <1>1 DEF OtherTypes, DiskInv, ObjectTypes
<1>3. QED
  BY <1>2, QuietStep

LEMMA QueryStep ==
    ASSUME FInv, NEW fd \in 0..MaxDescriptors,
           (\E size, nmemb \in 0..1 : fread(fd, size, nmemb)) \/ fstat(fd)
    PROVE  Good
<1>1. UNCHANGED <<disk, filedescriptors, descs, items, bodies, stray, paths>>
  BY DEF fread, fstat, objects
<1>2. ret' \in -7..MaxDescriptors
  <2>1. ret' \in {-1, -2, 0, 1}
    BY DEF fread, fstat, fat16_stat, BadDescriptor, EIO, EINVARG
  <2>2. QED
    BY <2>1, ConstantFacts
<1>3. QED
  BY <1>1, <1>2, QuietCall

\* A descriptor with live objects is one of the table.
LEMMA IntactFacts ==
    ASSUME FInv, NEW fd \in 0..MaxDescriptors, Intact(file_get_descriptor(fd))
    PROVE  /\ fd \in Fds /\ file_get_descriptor(fd) = filedescriptors[fd]
           /\ filedescriptors[fd] \in DOMAIN descs /\ filedescriptors[fd] # NULL
           /\ descs[filedescriptors[fd]].item \in DOMAIN items
<1>1. NULL \notin DOMAIN descs /\ MaxDescriptors \in Nat
  BY TypeFacts, FieldTypes, ConstantFacts DEF FInv
<1>2. file_get_descriptor(fd) \in DOMAIN descs
  BY DEF Intact
<1>3. ~(fd <= 0 \/ fd >= MaxDescriptors)
  BY <1>1, <1>2 DEF file_get_descriptor
<1>4. file_get_descriptor(fd) = filedescriptors[fd] /\ fd \in Fds
  BY <1>1, <1>3 DEF file_get_descriptor, Fds
<1>5. QED
  BY <1>1, <1>2, <1>4 DEF Intact

LEMMA FcloseStep ==
    ASSUME FInv, NEW fd \in 0..MaxDescriptors, fclose(fd)
    PROVE  Good
<1>1. ObjectTypes /\ OtherTypes /\ TableSound /\ DescsSound /\ ItemsSound /\ DiskInv
  BY TypeFacts DEF FInv
<1>2. disk' = disk /\ stray' = stray /\ paths' = paths
  BY DEF fclose
<1>3. CASE BadDescriptor(fd, EIO)
  <2>1. ret' = -1 /\ UNCHANGED <<filedescriptors, descs, items, bodies>>
    BY <1>3 DEF BadDescriptor, EIO
  <2>2. ret' \in -7..MaxDescriptors
    BY <2>1, ConstantFacts
  <2>3. QED
    BY <1>2, <2>1, <2>2, QuietCall
<1>4. CASE ~BadDescriptor(fd, EIO)
  <2>1. PICK d : d = file_get_descriptor(fd) /\ Intact(d) /\ fat16_close(d)
                 /\ file_free_descriptor(fd) /\ ret' = 0
    BY <1>4 DEF fclose
  <2>2. fd \in Fds /\ d = filedescriptors[fd] /\ d \in DOMAIN descs /\ descs[d].item \in DOMAIN items
    BY <2>1, IntactFacts
  <2>3. PICK x, y : x = descs[d].item /\ y = items[x].body /\ x \in DOMAIN items
    BY <2>2
  <2> DEFINE S == {d, x, y}
  <2>4. Freed(S)
    BY <2>1, <2>3 DEF fat16_close, ItemOf
  <2>5. filedescriptors' = [filedescriptors EXCEPT ![fd] = NULL]
    BY <2>1 DEF file_free_descriptor
  <2>6. OtherTypes' /\ DiskInv'
    <3>1. ret' \in -7..MaxDescriptors
      BY <2>1, ConstantFacts
    <3>2. filedescriptors' \in [Fds -> Objects \cup {NULL}]
      BY <1>1, <2>5 DEF OtherTypes
    <3>3. QED
      BY <1>1, <1>2, <3>1, <3>2 DEF OtherTypes, DiskInv
  <2>7. filedescriptors \in [Fds -> Objects \cup {NULL}]
    BY <1>1 DEF OtherTypes
  <2>8. \A b \in Fds : filedescriptors'[b] = IF b = fd THEN NULL ELSE filedescriptors[b]
    BY <2>5, <2>7
  <2>9. /\ d \in Objects /\ x \in Objects /\ y \in Objects \cup {NULL} /\ NULL \notin Objects
        /\ DOMAIN descs \cap DOMAIN items = {} /\ DOMAIN bodies \cap DOMAIN descs = {}
        /\ DOMAIN bodies \cap DOMAIN items = {}
    BY <1>1, <2>2, <2>3, FieldTypes, ConstantFacts DEF ObjectTypes
  <2>10. y \in Objects \ stray => y \in DOMAIN bodies
    BY <1>1, <2>3 DEF ItemsSound, Sound, BodyAt
  <2>11. ASSUME NEW b \in Fds, filedescriptors'[b] \in S \cap Objects, filedescriptors'[b] \notin stray
         PROVE  FALSE
    <3>1. b # fd /\ filedescriptors'[b] = filedescriptors[b]
      BY <2>8, <2>9, <2>11
    <3>2. filedescriptors[b] \in DOMAIN descs
      BY <1>1, <2>7, <2>11, <3>1 DEF TableSound, Sound
    <3>3. filedescriptors[b] = d
      BY <2>3, <2>9, <2>10, <2>11, <3>1, <3>2
    <3>4. QED
      BY <1>1, <2>2, <2>7, <2>9, <2>11, <3>1, <3>3 DEF TableSound, Sound
  <2>12. ASSUME NEW e \in DOMAIN descs \ S, descs[e].item \in S \cap Objects, descs[e].item \notin stray
         PROVE  FALSE
    <3>1. descs[e].item \in DOMAIN items
      BY <1>1, <2>12 DEF DescsSound, Sound, ItemAt
    <3>2. descs[e].item = x
      BY <2>2, <2>9, <2>10, <2>12, <3>1
    <3>3. QED
      BY <1>1, <2>2, <2>3, <2>9, <2>12, <3>2 DEF DescsSound, Sound, ItemAt
  <2>13. ASSUME NEW o \in DOMAIN items \ S, items[o].body \in S \cap Objects, items[o].body \notin stray
         PROVE  FALSE
    <3>1. items[o].body \in DOMAIN bodies
      BY <1>1, <2>13 DEF ItemsSound, Sound, BodyAt
    <3>2. items[o].body = y
      BY <2>2, <2>3, <2>9, <2>13, <3>1
    <3>3. QED
      BY <1>1, <2>3, <2>9, <2>13, <3>2 DEF ItemsSound, Sound, BodyAt
  <2>14. Reach(fd) = S \ {NULL}
    BY <2>2, <2>3 DEF Reach
  <2> HIDE DEF S
  <2>15. stray \subseteq stray' /\ stray' \subseteq Objects \cup {Elsewhere}
    BY <1>1, <1>2 DEF ObjectTypes
  <2>16. \A b \in Fds : filedescriptors'[b] \in {filedescriptors[b], NULL}
    BY <2>8
  <2>17. FInv'
    BY <1>2, <2>4, <2>6, <2>11, <2>12, <2>13, <2>15, <2>16, FreeStep
  <2>18. Framed(fd)
    <3>1. S \ {NULL} \subseteq Objects
      BY <2>9 DEF S
    <3>2. ASSUME NEW b \in Fds \ {fd}, Reach(b) \cap stray' = {} PROVE Reach(b) \cap (S \ {NULL}) = {}
      BY <1>2, <2>2, <2>14, <3>1, <3>2, Separate
    <3>3. \A b \in Fds \ {fd} : filedescriptors'[b] = filedescriptors[b]
      BY <2>8
    <3>4. QED
      BY <2>2, <2>4, <3>2, <3>3, FreeFrame
  <2>19. Saved(fd)
    <3>1. Live' = Live \ S
      BY <2>4, FreedFacts DEF Live
    <3>2. QED
      BY <2>14, <3>1 DEF Saved
  <2>20. QED
    BY <2>2, <2>17, <2>18, <2>19 DEF Good
<1>5. QED
  BY <1>3, <1>4

LEMMA FseekStep ==
    ASSUME FInv, NEW fd \in 0..MaxDescriptors, NEW off \in Offsets, NEW whence,
           fseek(fd, off, whence)
    PROVE  Good
<1>1. ObjectTypes /\ OtherTypes /\ TableSound /\ DescsSound /\ ItemsSound /\ NamesInv /\ DiskInv
  BY TypeFacts DEF FInv
<1>2. /\ filedescriptors' = filedescriptors /\ items' = items /\ bodies' = bodies
      /\ stray' = stray /\ disk' = disk /\ paths' = paths
  BY DEF fseek
<1>3. CASE BadDescriptor(fd, EIO)
  <2>1. ret' = -1 /\ descs' = descs
    BY <1>3 DEF BadDescriptor, EIO
  <2>2. ret' \in -7..MaxDescriptors
    BY <2>1, ConstantFacts
  <2>3. QED
    BY <1>2, <2>1, <2>2, QuietCall
<1>4. CASE ~BadDescriptor(fd, EIO)
  <2> DEFINE e == file_get_descriptor(fd)
             z == IF whence = "SEEK_SET" THEN 0 ELSE descs[e].pos
  <2>1. /\ Intact(e) /\ \E size \in Sizes(e) : ret' = -SeekRefused(e, off, whence, size)
        /\ descs' = descs \/ descs' = [descs EXCEPT ![e].pos = (z + off) % UINT32]
    BY <1>4 DEF fseek
  <2>2. ret' \in -7..MaxDescriptors
    <3>1. PICK size : ret' = -SeekRefused(e, off, whence, size)
      BY <2>1
    <3> HIDE DEF e
    <3>2. SeekRefused(e, off, whence, size) \in {0, 1, 2, 7}
      BY DEF SeekRefused, EIO, EINVARG, EUNIMP
    <3>3. PICK code \in {0, 1, 2, 7} : ret' = -code
      BY <3>1, <3>2
    <3>4. QED
      BY <3>3, ConstantFacts
  <2>3. fd \in Fds /\ e = filedescriptors[fd] /\ e \in DOMAIN descs /\ e # NULL
    BY <2>1, IntactFacts
  <2> HIDE DEF e
  <2>4. CASE descs' = descs
    BY <1>2, <2>2, <2>4, QuietCall
  <2>5. CASE descs' = [descs EXCEPT ![e].pos = (z + off) % UINT32]
    <3>1. PICK pos \in 0..(UINT32 - 1) : pos = (z + off) % UINT32
      <4>1. UINT32 \in Nat \ {0} /\ off \in Int
        BY ConstantFacts
      <4>2. z \in Int
        <5>1. descs[e].pos \in 0..(UINT32 - 1)
          BY <1>1, <2>3, FieldTypes
        <5>2. QED
          BY <4>1, <5>1
      <4> HIDE DEF z
      <4>3. z + off \in Int
        BY <4>1, <4>2
      <4>4. QED
        BY <4>1, <4>3
    <3>2. descs' = [descs EXCEPT ![e].pos = pos] /\ descs[e] \in DescType
      BY <1>1, <2>3, <2>5, <3>1 DEF ObjectTypes
    <3>3. /\ DOMAIN descs' = DOMAIN descs /\ \A o \in DOMAIN descs \ {e} : descs'[o] = descs[o]
          /\ descs'[e] = [descs[e] EXCEPT !.pos = pos]
      BY <2>3, <3>2
    <3>4. /\ descs'[e].item = descs[e].item /\ descs'[e].path = descs[e].path
          /\ descs'[e] \in DescType
      BY <3>1, <3>2, <3>3 DEF DescType
    <3>5. \A o \in DOMAIN descs : descs'[o].item = descs[o].item /\ descs'[o].path = descs[o].path
      BY <3>3, <3>4
    <3>6. ObjectTypes' /\ OtherTypes' /\ DiskInv'
      BY <1>1, <1>2, <2>2, <3>3, <3>4 DEF ObjectTypes, OtherTypes, DiskInv
    <3>7. TypeOK'
      <4>1. (TypeOK <=> ObjectTypes /\ OtherTypes)'
        BY TypeFacts, PTL
      <4>2. QED
        BY <3>6, <4>1
    <3>8. TableSound' /\ ItemsSound'
      BY <1>1, <1>2, <3>3 DEF TableSound, ItemsSound, Sound, BodyAt
    <3>9. DescsSound'
      <4>1. ItemAt' = ItemAt
        BY <3>3, <3>5 DEF ItemAt
      <4>2. QED
        BY <1>1, <1>2, <4>1 DEF DescsSound, Sound
    <3>10. NamesInv'
      <4>1. ASSUME NEW o \in DOMAIN descs' PROVE NamesNode(o)'
        <5>1. o \in DOMAIN descs /\ NamesNode(o)
          BY <1>1, <3>3 DEF NamesInv
        <5>2. QED
          BY <1>1, <1>2, <3>5, <3>8, <3>9, <5>1, NamesKept
      <4>2. QED
        BY <4>1 DEF NamesInv
    <3>11. Framed(fd)
      <4>1. ChangesOnly({e}) /\ NULL \notin {e}
        BY <1>2, <2>3, <3>3 DEF ChangesOnly
      <4>2. e \in Objects /\ e \in Reach(fd)
        BY <1>1, <2>3, ReachIff DEF ObjectTypes
      <4>3. ASSUME NEW b \in Fds \ {fd}, Reach(b) \cap stray' = {} PROVE SameView(b)
        <5>1. Reach(b) \cap {e} = {}
          BY <1>2, <2>3, <4>2, <4>3, Separate
        <5>2. QED
          BY <1>1, <1>2, <4>1, <5>1, Untouched
      <4>4. QED
        BY <4>3 DEF Framed
    <3>12. Saved(fd)
      <4>1. Live' = Live
        BY <1>2, <3>3 DEF Live
      <4>2. Reach(fd)' = Reach(fd)
        BY <1>2, <3>3, <3>5 DEF Reach
      <4>3. QED
        BY <4>1, <4>2 DEF Saved
    <3>13. QED
      BY <2>3, <3>6, <3>7, <3>8, <3>9, <3>10, <3>11, <3>12 DEF Good, FInv
  <2>6. QED
    BY <2>1, <2>4, <2>5
<1>5. QED
  BY <1>3, <1>4

(***************************************************************************)
(* fopen.  New objects lie at new addresses.                               *)
(***************************************************************************)
LEMMA GrowStep ==
    ASSUME FInv, NEW A, A \subseteq Objects \ Live,
           ObjectTypes', OtherTypes', DiskInv', TableSound', DescsSound', ItemsSound', stray \subseteq stray',
           DOMAIN descs \subseteq DOMAIN descs', DOMAIN descs' \subseteq DOMAIN descs \cup A,
           \A o \in DOMAIN descs : descs'[o] = descs[o],
           DOMAIN items \subseteq DOMAIN items', DOMAIN items' \subseteq DOMAIN items \cup A,
           \A o \in DOMAIN items : items'[o] = items[o],
           DOMAIN bodies \subseteq DOMAIN bodies', DOMAIN bodies' \subseteq DOMAIN bodies \cup A,
           \A o \in DOMAIN bodies : bodies'[o] = bodies[o],
           \A o \in DOMAIN descs' \ DOMAIN descs : NamesNode(o)',
           NEW c \in Fds, \A b \in Fds \ {c} : filedescriptors'[b] = filedescriptors[b],
           stray' = {} => Excused \/ (filedescriptors[c] = NULL /\ A \cap Live' \subseteq Reach(c)')
    PROVE  Good
<1>1. ObjectTypes /\ DescsSound /\ ItemsSound /\ NamesInv
  BY TypeFacts DEF FInv
<1>2. TypeOK'
  <2>1. (TypeOK <=> ObjectTypes /\ OtherTypes)'
    BY TypeFacts, PTL
  <2>2. QED
    BY <2>1
<1>3. NamesInv'
  <2>1. ASSUME NEW d \in DOMAIN descs' PROVE NamesNode(d)'
    <3>1. CASE d \in DOMAIN descs
      <4>1. NamesNode(d) /\ descs'[d].item = descs[d].item /\ descs'[d].path = descs[d].path
        BY <1>1, <3>1 DEF NamesInv
      <4>2. QED
        BY <1>1, <3>1, <4>1, NamesKept
    <3>2. CASE d \notin DOMAIN descs
      BY <3>2
    <3>3. QED
      BY <3>1, <3>2
  <2>2. QED
    BY <2>1 DEF NamesInv
<1>4. FInv'
  BY <1>2, <1>3 DEF FInv
<1>5. ChangesOnly(A)
  BY DEF ChangesOnly
<1>6. NULL \notin A
  BY ConstantFacts
<1>7. Framed(c)
  <2>1. ASSUME NEW b \in Fds \ {c}, Reach(b) \cap stray' = {} PROVE SameView(b)
    <3>1. Reach(b) \cap A = {}
      <4>1. ASSUME NEW x \in A, x \in Reach(b) PROVE FALSE
        <5>1. x \in Objects \ stray /\ x \notin Live
          BY <2>1, <4>1
        <5>2. QED
          BY <4>1, <5>1, ReachLive
      <4>2. QED
        BY <4>1
    <3>2. QED
      BY <1>1, <1>5, <1>6, <3>1, Untouched
  <2>2. QED
    BY <2>1 DEF Framed
<1>8. ASSUME filedescriptors[c] = NULL, A \cap Live' \subseteq Reach(c)' PROVE Saved(c)
  <2>1. Live' \subseteq Live \cup A
    BY DEF Live
  <2>2. \A x : x \notin Reach(c)
    BY <1>1, <1>8, FieldTypes, ReachIff
  <2>3. QED
    BY <1>8, <2>1, <2>2 DEF Saved
<1>9. QED
  BY <1>4, <1>7, <1>8 DEF Good

\* What fat16_open and file_new_descriptor add.
LEMMA OpenedFacts ==
    ASSUME FInv, NEW d \in Objects \ Live, NEW x \in Objects \cup {Elsewhere}, NEW p \in Paths \cup {<<>>},
           NEW r, Opened(p, d, x, r), stray \subseteq stray', DOMAIN items \subseteq DOMAIN items',
           x \in Objects \ stray' => x \in DOMAIN items' \ DOMAIN items
    PROVE  /\ DOMAIN descs' = DOMAIN descs \cup {d} /\ \A o \in DOMAIN descs : descs'[o] = descs[o]
           /\ descs'[d] = [item |-> x, pos |-> 0, path |-> p] /\ descs'[d] \in DescType
           /\ TableSound' /\ DescsSound'
           /\ filedescriptors' \in [Fds -> Objects \cup {NULL}] /\ ret' \in -7..MaxDescriptors
           /\ \E c \in Fds :
                 /\ \A b \in Fds \ {c} : filedescriptors'[b] = filedescriptors[b]
                 /\ \/ FreeFds = {} \/ (ret' # 0 /\ filedescriptors' = filedescriptors)
                    \/ filedescriptors[c] = NULL /\ filedescriptors'[c] = d
<1>1. ObjectTypes /\ OtherTypes /\ TableSound /\ DescsSound
  BY TypeFacts DEF FInv
<1>2. descs' = With(descs, d, [item |-> x, pos |-> 0, path |-> p]) /\ file_new_descriptor(d, r)
  BY DEF Opened
<1>3. d \notin DOMAIN descs /\ d \in Objects /\ d # NULL
  BY ConstantFacts DEF Live
<1>4. /\ DOMAIN descs' = DOMAIN descs \cup {d} /\ \A o \in DOMAIN descs : descs'[o] = descs[o]
      /\ descs'[d] = [item |-> x, pos |-> 0, path |-> p]
  BY <1>2, <1>3 DEF With
<1>5. descs'[d] \in DescType
  <2>1. 0 \in 0..(UINT32 - 1)
    BY ConstantFacts
  <2>2. QED
    BY <1>4, <2>1 DEF DescType
<1>6. filedescriptors \in [Fds -> Objects \cup {NULL}] /\ Fds = 1..MaxDescriptors
      /\ MaxDescriptors \in Nat /\ MaxDescriptors >= 2
  BY <1>1, ConstantFacts DEF OtherTypes, Fds
<1>7. PICK c \in Fds :
         /\ ret' \in 0..MaxDescriptors
         /\ \/ filedescriptors' = filedescriptors /\ (FreeFds = {} \/ ret' # 0)
            \/ filedescriptors[c] = NULL /\ filedescriptors' = [filedescriptors EXCEPT ![c] = d]
  <2>1. CASE FreeFds = {}
    <3>1. ret' = 0 /\ filedescriptors' = filedescriptors
      BY <1>2, <2>1 DEF file_new_descriptor
    <3>2. ret' \in 0..MaxDescriptors
      BY <1>6, <3>1
    <3>3. QED
      BY <2>1, <3>1, <3>2, OneIsAnEntry
  <2>2. CASE FreeFds # {}
    <3>1. Min(FreeFds) \in FreeFds
      <4>1. FreeFds \in SUBSET Nat
        BY <1>6 DEF FreeFds
      <4>2. QED
        BY <2>2, <4>1, MinOf
    <3>2. PICK m \in Fds : m = Min(FreeFds) /\ filedescriptors[m] = NULL
      BY <3>1 DEF FreeFds
    <3>3. ret' = m /\ (filedescriptors' = filedescriptors \/ filedescriptors' = [filedescriptors EXCEPT ![m] = d])
      BY <1>2, <2>2, <3>2 DEF file_new_descriptor
    <3>4. m \in 0..MaxDescriptors /\ m # 0
      BY <1>6, <3>2
    <3>5. QED
      BY <3>2, <3>3, <3>4
  <2>3. QED
    BY <2>1, <2>2
<1>8. filedescriptors' \in [Fds -> Objects \cup {NULL}] /\ ret' \in -7..MaxDescriptors
  BY <1>3, <1>6, <1>7
<1>9. TableSound'
  <2>1. Sound(filedescriptors, DOMAIN descs, stray)
    BY <1>1 DEF TableSound
  <2>2. DOMAIN filedescriptors = Fds /\ DOMAIN filedescriptors' = Fds
    BY <1>6, <1>8
  <2>3. CASE filedescriptors' = filedescriptors
    <3>1. Sound(filedescriptors', DOMAIN descs', stray')
      BY <1>4, <2>1, <2>3, SoundFewer
    <3>2. QED
      BY <3>1 DEF TableSound, Sound
  <2>4. CASE filedescriptors' = [filedescriptors EXCEPT ![c] = d]
    <3>1. DOMAIN filedescriptors' = DOMAIN filedescriptors \cup {c} /\ filedescriptors'[c] = d
          /\ \A b \in DOMAIN filedescriptors \ {c} : filedescriptors'[b] = filedescriptors[b]
      BY <2>2, <2>4, <1>7
    <3>2. Sound(filedescriptors', DOMAIN descs', stray')
      BY <1>3, <1>4, <2>1, <3>1, SoundMore
    <3>3. QED
      BY <3>2 DEF TableSound, Sound
  <2>5. QED
    BY <1>7, <2>3, <2>4
<1>10. DescsSound'
  <2> DEFINE P == ItemAt
             Q == [o \in DOMAIN descs' |-> descs'[o].item]
  <2>1. DOMAIN P = DOMAIN descs /\ \A o \in DOMAIN descs : P[o] = descs[o].item
    BY DEF ItemAt
  <2>2. DOMAIN Q = DOMAIN descs' /\ \A o \in DOMAIN descs' : Q[o] = descs'[o].item
    OBVIOUS
  <2>3. Sound(P, DOMAIN items, stray)
    BY <1>1 DEF DescsSound
  <2> HIDE DEF P, Q
  <2>4. Q[d] = x /\ DOMAIN Q = DOMAIN P \cup {d} /\ \A o \in DOMAIN P \ {d} : Q[o] = P[o]
    BY <1>4, <2>1, <2>2
  <2>5. Sound(Q, DOMAIN items', stray')
    BY <2>3, <2>4, SoundMore
  <2>6. Q = ItemAt'
    BY DEF Q, ItemAt
  <2>7. QED
    BY <2>5, <2>6 DEF DescsSound, Sound
<1>11. /\ \A b \in Fds \ {c} : filedescriptors'[b] = filedescriptors[b]
       /\ \/ FreeFds = {} \/ (ret' # 0 /\ filedescriptors' = filedescriptors)
          \/ filedescriptors[c] = NULL /\ filedescriptors'[c] = d
  BY <1>6, <1>7
<1>12. QED
  BY <1>4, <1>5, <1>8, <1>9, <1>10, <1>11

\* What the lookup adds for the item that it found.
LEMMA NewItemFacts ==
    ASSUME FInv, NEW x \in Objects \ Live, NEW y \in Objects \ Live, x # y, NEW w, w.node \in Nodes,
           w.body \in {"held", "null", "freed"},
           NewItem(w, x, y)
    PROVE  /\ DOMAIN items' = DOMAIN items \cup {x} /\ \A o \in DOMAIN items : items'[o] = items[o]
           /\ items'[x] \in ItemType
           /\ items'[x].type = IF IsDirectory(w.node) THEN "directory" ELSE "file"
           /\ DOMAIN bodies \subseteq DOMAIN bodies' /\ DOMAIN bodies' \subseteq DOMAIN bodies \cup {y}
           /\ \A o \in DOMAIN bodies : bodies'[o] = bodies[o]
           /\ y \in DOMAIN bodies' => bodies'[y] = w.node /\ items'[x].body = y
           /\ items'[x].body \in {NULL, y}
           /\ stray \subseteq stray' /\ stray' \subseteq stray \cup {y}
           /\ ItemsSound'
<1>1. ObjectTypes /\ ItemsSound
  BY TypeFacts DEF FInv
<1>2. PICK u : /\ u = [type |-> IF IsDirectory(w.node) THEN "directory" ELSE "file",
                       body |-> IF w.body = "null" THEN NULL ELSE y]
               /\ items' = With(items, x, u)
  BY DEF NewItem
<1>3. x \notin DOMAIN items /\ y \notin DOMAIN bodies
  BY DEF Live
<1>4. /\ DOMAIN items' = DOMAIN items \cup {x} /\ \A o \in DOMAIN items : items'[o] = items[o]
      /\ items'[x] = u
  BY <1>2, <1>3 DEF With
<1>5. /\ u.type = (IF IsDirectory(w.node) THEN "directory" ELSE "file")
      /\ u.body = (IF w.body = "null" THEN NULL ELSE y) /\ u \in ItemType
  BY <1>2 DEF ItemType
<1>6. w.body = "held" => bodies' = With(bodies, y, w.node)
  BY DEF NewItem
<1>7. w.body # "held" => bodies' = bodies
  BY DEF NewItem
<1>8. /\ DOMAIN bodies \subseteq DOMAIN bodies' /\ DOMAIN bodies' \subseteq DOMAIN bodies \cup {y}
      /\ \A o \in DOMAIN bodies : bodies'[o] = bodies[o]
      /\ y \in DOMAIN bodies' <=> w.body = "held"
      /\ y \in DOMAIN bodies' => bodies'[y] = w.node
  <2>1. CASE w.body = "held"
    BY <1>3, <1>6, <2>1 DEF With
  <2>2. CASE w.body # "held"
    BY <1>3, <1>7, <2>2
  <2>3. QED
    BY <2>1, <2>2
<1>9. stray \subseteq stray' /\ stray' \subseteq stray \cup {y} /\ (w.body = "freed" => y \in stray')
  BY DEF NewItem
<1>10. u.body \in Objects \ stray' => u.body = y /\ w.body = "held"
  BY <1>5, <1>9, ConstantFacts
<1>11. ItemsSound'
  <2> DEFINE P == BodyAt
             Q == [o \in DOMAIN items' |-> items'[o].body]
  <2>1. DOMAIN P = DOMAIN items /\ \A o \in DOMAIN items : P[o] = items[o].body
    BY DEF BodyAt
  <2>2. DOMAIN Q = DOMAIN items' /\ \A o \in DOMAIN items' : Q[o] = items'[o].body
    OBVIOUS
  <2>3. Sound(P, DOMAIN bodies, stray)
    BY <1>1 DEF ItemsSound
  <2> HIDE DEF P, Q
  <2>4. Q[x] = u.body /\ DOMAIN Q = DOMAIN P \cup {x} /\ \A o \in DOMAIN P \ {x} : Q[o] = P[o]
    BY <1>4, <2>1, <2>2
  <2>5. Q[x] \in Objects \ stray' => Q[x] \in DOMAIN bodies' \ DOMAIN bodies
    BY <1>3, <1>8, <1>10, <2>4
  <2>6. Sound(Q, DOMAIN bodies', stray')
    BY <1>8, <1>9, <2>3, <2>4, <2>5, SoundMore
  <2>7. Q = BodyAt'
    BY DEF Q, BodyAt
  <2>8. QED
    BY <2>6, <2>7 DEF ItemsSound, Sound
<1>12. QED
  BY <1>4, <1>5, <1>8, <1>9, <1>11

\* The lookup comes to an item.
LEMMA OpenItemStep ==
    ASSUME FInv, NEW p \in Paths, NEW r, NEW w, w.node \in Nodes, w.body \in {"held", "null", "freed"},
           Names(p, w.node), NEW d \in Objects \ Live, NEW x \in Objects \ Live, NEW y \in Objects \ Live,
           d # x, d # y, x # y, Opened(p, d, x, r), NewItem(w, x, y),
           disk' = disk, paths' \in 0..MaxOpens, paths' # paths
    PROVE  Good
<1>1. ObjectTypes /\ OtherTypes /\ DiskInv
  BY TypeFacts DEF FInv
<1>2. /\ DOMAIN items' = DOMAIN items \cup {x} /\ \A o \in DOMAIN items : items'[o] = items[o]
      /\ items'[x] \in ItemType
      /\ items'[x].type = IF IsDirectory(w.node) THEN "directory" ELSE "file"
      /\ DOMAIN bodies \subseteq DOMAIN bodies' /\ DOMAIN bodies' \subseteq DOMAIN bodies \cup {y}
      /\ \A o \in DOMAIN bodies : bodies'[o] = bodies[o]
      /\ y \in DOMAIN bodies' => bodies'[y] = w.node /\ items'[x].body = y
      /\ items'[x].body \in {NULL, y}
      /\ stray \subseteq stray' /\ stray' \subseteq stray \cup {y}
      /\ ItemsSound'
  BY NewItemFacts
<1>3. x \in DOMAIN items' \ DOMAIN items
  BY <1>2 DEF Live
<1>4. /\ DOMAIN descs' = DOMAIN descs \cup {d} /\ \A o \in DOMAIN descs : descs'[o] = descs[o]
      /\ descs'[d] = [item |-> x, pos |-> 0, path |-> p] /\ descs'[d] \in DescType
      /\ TableSound' /\ DescsSound'
      /\ filedescriptors' \in [Fds -> Objects \cup {NULL}] /\ ret' \in -7..MaxDescriptors
      /\ \E c \in Fds :
            /\ \A b \in Fds \ {c} : filedescriptors'[b] = filedescriptors[b]
            /\ \/ FreeFds = {} \/ (ret' # 0 /\ filedescriptors' = filedescriptors)
               \/ filedescriptors[c] = NULL /\ filedescriptors'[c] = d
  BY <1>2, <1>3, OpenedFacts
<1>5. ObjectTypes'
  <2>1. /\ d \notin DOMAIN descs \cup DOMAIN items \cup DOMAIN bodies
        /\ x \notin DOMAIN descs \cup DOMAIN items \cup DOMAIN bodies
        /\ y \notin DOMAIN descs \cup DOMAIN items \cup DOMAIN bodies
    BY DEF Live
  <2>2. \A o \in DOMAIN bodies' : bodies'[o] \in Nodes
    BY <1>1, <1>2 DEF ObjectTypes
  <2>3. \A o \in DOMAIN descs' : descs'[o] \in DescType
    BY <1>1, <1>4 DEF ObjectTypes
  <2>4. \A o \in DOMAIN items' : items'[o] \in ItemType
    BY <1>1, <1>2 DEF ObjectTypes
  <2>5. /\ DOMAIN descs' \subseteq Objects /\ DOMAIN items' \subseteq Objects
        /\ DOMAIN bodies' \subseteq Objects /\ stray' \subseteq Objects \cup {Elsewhere}
    BY <1>1, <1>2, <1>4 DEF ObjectTypes
  <2>6. DOMAIN descs' \cap DOMAIN items' = {} /\ DOMAIN bodies' \cap (DOMAIN descs' \cup DOMAIN items') = {}
    BY <1>1, <1>2, <1>4, <2>1 DEF ObjectTypes
  <2>7. QED
    BY <2>2, <2>3, <2>4, <2>5, <2>6 DEF ObjectTypes
<1>6. OtherTypes' /\ DiskInv'
  BY <1>1, <1>4 DEF OtherTypes, DiskInv
<1>7. \A o \in DOMAIN descs' \ DOMAIN descs : NamesNode(o)'
  <2>1. descs'[d].item = x /\ descs'[d].path = p
    BY <1>4
  <2>2. ASSUME items'[x].body \notin stray', items'[x].body # NULL PROVE bodies'[items'[x].body] = w.node
    <3>1. items'[x].body = y /\ y \in Objects
      BY <1>2, <2>2
    <3>2. DOMAIN BodyAt' = DOMAIN items' /\ BodyAt'[x] = y
      BY <1>3, <3>1 DEF BodyAt
    <3>3. y \in DOMAIN bodies'
      BY <1>2, <1>3, <2>2, <3>1, <3>2 DEF ItemsSound, Sound
    <3>4. QED
      BY <1>2, <3>1, <3>3
  <2>3. NamesNode(d)'
    BY <1>2, <2>1, <2>2 DEF NamesNode, RefersTo
  <2>4. QED
    BY <1>4, <2>3
<1>8. PICK c \in Fds :
         /\ \A b \in Fds \ {c} : filedescriptors'[b] = filedescriptors[b]
         /\ \/ FreeFds = {} \/ (ret' # 0 /\ filedescriptors' = filedescriptors)
            \/ filedescriptors[c] = NULL /\ filedescriptors'[c] = d
  BY <1>4
<1> DEFINE A == {d, x, y}
<1>9. Excused \/ (filedescriptors[c] = NULL /\ A \cap Live' \subseteq Reach(c)')
  <2>1. CASE FreeFds = {} \/ (ret' # 0 /\ filedescriptors' = filedescriptors)
    BY <2>1 DEF Excused
  <2>2. CASE filedescriptors[c] = NULL /\ filedescriptors'[c] = d
    <3>1. d \in DOMAIN descs' /\ descs'[d].item = x /\ x \in DOMAIN items' /\ NULL \notin {d, x, y}
      BY <1>3, <1>4, ConstantFacts
    <3>2. Reach(c)' = {d, x, items'[x].body} \ {NULL}
      BY <2>2, <3>1 DEF Reach
    <3>3. y \in Live' => y \in DOMAIN bodies'
      BY <1>2, <1>4 DEF Live
    <3>4. QED
      BY <1>2, <2>2, <3>1, <3>2, <3>3
  <2>3. QED
    BY <1>8, <2>1, <2>2
<1>10. A \subseteq Objects \ Live
  OBVIOUS
<1>11. /\ DOMAIN descs \subseteq DOMAIN descs' /\ DOMAIN descs' \subseteq DOMAIN descs \cup A
       /\ DOMAIN items \subseteq DOMAIN items' /\ DOMAIN items' \subseteq DOMAIN items \cup A
       /\ DOMAIN bodies \subseteq DOMAIN bodies' /\ DOMAIN bodies' \subseteq DOMAIN bodies \cup A
       /\ \A o \in DOMAIN descs : descs'[o] = descs[o]
       /\ \A o \in DOMAIN items : items'[o] = items[o]
       /\ \A o \in DOMAIN bodies : bodies'[o] = bodies[o]
  BY <1>2, <1>4
<1>12. TableSound' /\ DescsSound' /\ ItemsSound' /\ stray \subseteq stray'
  BY <1>2, <1>4
<1>13. \A b \in Fds \ {c} : filedescriptors'[b] = filedescriptors[b]
  BY <1>8
<1> HIDE DEF A
<1>14. QED
  BY <1>5, <1>6, <1>7, <1>9, <1>10, <1>11, <1>12, <1>13, GrowStep

\* The lookup loses an item at a file.
LEMMA LostStep ==
    ASSUME FInv, NEW w, w.node \in Nodes, w.body \in {"held", "null", "freed"},
           NEW x \in Objects \ Live, NEW y \in Objects \ Live, x # y, NotOpened, NewItem(w, x, y),
           disk' = disk, paths' \in 0..MaxOpens, Excused
    PROVE  Good
<1>1. ObjectTypes /\ OtherTypes /\ TableSound /\ DescsSound /\ DiskInv
  BY TypeFacts DEF FInv
<1>2. /\ DOMAIN items' = DOMAIN items \cup {x} /\ \A o \in DOMAIN items : items'[o] = items[o]
      /\ items'[x] \in ItemType
      /\ DOMAIN bodies \subseteq DOMAIN bodies' /\ DOMAIN bodies' \subseteq DOMAIN bodies \cup {y}
      /\ \A o \in DOMAIN bodies : bodies'[o] = bodies[o]
      /\ y \in DOMAIN bodies' => bodies'[y] = w.node
      /\ stray \subseteq stray' /\ stray' \subseteq stray \cup {y}
      /\ ItemsSound'
  BY NewItemFacts
<1>3. ret' = 0 /\ filedescriptors' = filedescriptors /\ descs' = descs
  BY DEF NotOpened
<1>4. ObjectTypes'
  <2>1. /\ x \notin DOMAIN descs \cup DOMAIN items \cup DOMAIN bodies
        /\ y \notin DOMAIN descs \cup DOMAIN items \cup DOMAIN bodies
    BY DEF Live
  <2>2. \A o \in DOMAIN bodies' : bodies'[o] \in Nodes
    BY <1>1, <1>2 DEF ObjectTypes
  <2>3. \A o \in DOMAIN items' : items'[o] \in ItemType
    BY <1>1, <1>2 DEF ObjectTypes
  <2>4. /\ DOMAIN items' \subseteq Objects /\ DOMAIN bodies' \subseteq Objects
        /\ stray' \subseteq Objects \cup {Elsewhere}
    BY <1>1, <1>2 DEF ObjectTypes
  <2>5. DOMAIN descs \cap DOMAIN items' = {} /\ DOMAIN bodies' \cap (DOMAIN descs \cup DOMAIN items') = {}
    BY <1>1, <1>2, <2>1 DEF ObjectTypes
  <2>6. QED
    BY <1>1, <1>3, <2>2, <2>3, <2>4, <2>5 DEF ObjectTypes
<1>5. OtherTypes' /\ DiskInv'
  <2>1. ret' \in -7..MaxDescriptors
    BY <1>3, ConstantFacts
  <2>2. QED
    BY <1>1, <1>3, <2>1 DEF OtherTypes, DiskInv
<1>6. TableSound'
  BY <1>1, <1>2, <1>3 DEF TableSound, Sound
<1>7. DescsSound'
  <2>1. ItemAt' = ItemAt
    BY <1>3 DEF ItemAt
  <2>2. QED
    BY <1>1, <1>2, <2>1 DEF DescsSound, Sound
<1> DEFINE A == {x, y}
<1>8. A \subseteq Objects \ Live
  OBVIOUS
<1>9. /\ DOMAIN descs \subseteq DOMAIN descs' /\ DOMAIN descs' \subseteq DOMAIN descs \cup A
      /\ DOMAIN items \subseteq DOMAIN items' /\ DOMAIN items' \subseteq DOMAIN items \cup A
      /\ DOMAIN bodies \subseteq DOMAIN bodies' /\ DOMAIN bodies' \subseteq DOMAIN bodies \cup A
      /\ \A o \in DOMAIN descs : descs'[o] = descs[o]
      /\ \A o \in DOMAIN descs' \ DOMAIN descs : NamesNode(o)'
      /\ \A b \in Fds \ {1} : filedescriptors'[b] = filedescriptors[b]
  BY <1>2, <1>3
<1> HIDE DEF A
<1>10. QED
  BY <1>2, <1>4, <1>5, <1>6, <1>7, <1>8, <1>9, OneIsAnEntry, GrowStep

\* The lookup returns a pointer that it never assigned, or found in a directory
\* that is not there.
LEMMA AnyItemStep ==
    ASSUME FInv, NEW w, NEW r, NEW d \in Objects \ Live, NEW u \in Unassigned, AnyItem(w, d, u, r),
           disk' = disk, paths' \in 0..MaxOpens, paths' # paths
    PROVE  Good
<1>1. ObjectTypes /\ OtherTypes /\ TableSound /\ DescsSound /\ ItemsSound /\ DiskInv
  BY TypeFacts DEF FInv
<1>2. /\ items' = items /\ bodies' = bodies
      /\ stray \subseteq stray' /\ stray' \subseteq Objects \cup {Elsewhere} /\ (u \in Objects => u \in stray')
  BY <1>1 DEF AnyItem, ObjectTypes
<1>3. CASE u = NULL
  <2>1. ret' = 0 /\ filedescriptors' = filedescriptors /\ descs' = descs
    BY <1>3 DEF AnyItem, NotOpened
  <2>2. ret' \in -7..MaxDescriptors
    BY <2>1, ConstantFacts
  <2>3. OtherTypes' /\ DiskInv'
    BY <1>1, <2>1, <2>2 DEF OtherTypes, DiskInv
  <2>4. QED
    BY <1>2, <2>1, <2>3, QuietStep
<1>4. CASE u # NULL
  <2>1. PICK p \in Paths \cup {<<>>} : p = <<>>
    OBVIOUS
  <2>2. Opened(p, d, u, r) /\ u \in Objects \cup {Elsewhere}
    BY <1>4, <2>1 DEF AnyItem, Unassigned
  <2>3. /\ DOMAIN descs' = DOMAIN descs \cup {d} /\ \A o \in DOMAIN descs : descs'[o] = descs[o]
        /\ descs'[d] = [item |-> u, pos |-> 0, path |-> p] /\ descs'[d] \in DescType
        /\ TableSound' /\ DescsSound'
        /\ filedescriptors' \in [Fds -> Objects \cup {NULL}] /\ ret' \in -7..MaxDescriptors
        /\ \E c \in Fds :
              /\ \A b \in Fds \ {c} : filedescriptors'[b] = filedescriptors[b]
              /\ \/ FreeFds = {} \/ (ret' # 0 /\ filedescriptors' = filedescriptors)
                 \/ filedescriptors[c] = NULL /\ filedescriptors'[c] = d
    BY <1>2, <2>2, OpenedFacts
  <2>4. ObjectTypes'
    <3>1. d \notin DOMAIN items \cup DOMAIN bodies
      BY DEF Live
    <3>2. \A o \in DOMAIN descs' : descs'[o] \in DescType
      BY <1>1, <2>3 DEF ObjectTypes
    <3>3. QED
      BY <1>1, <1>2, <2>3, <3>1, <3>2 DEF ObjectTypes
  <2>5. OtherTypes' /\ DiskInv'
    BY <1>1, <2>3 DEF OtherTypes, DiskInv
  <2>6. ItemsSound'
    <3>1. BodyAt' = BodyAt
      BY <1>2 DEF BodyAt
    <3>2. QED
      BY <1>1, <1>2, <3>1 DEF ItemsSound, Sound
  <2>7. \A o \in DOMAIN descs' \ DOMAIN descs : NamesNode(o)'
    <3>1. descs'[d].item = u /\ u \notin Objects \ stray'
      BY <1>2, <2>3
    <3>2. NamesNode(d)'
      BY <3>1 DEF NamesNode
    <3>3. QED
      BY <2>3, <3>2
  <2>8. PICK c \in Fds :
           /\ \A b \in Fds \ {c} : filedescriptors'[b] = filedescriptors[b]
           /\ \/ FreeFds = {} \/ (ret' # 0 /\ filedescriptors' = filedescriptors)
              \/ filedescriptors[c] = NULL /\ filedescriptors'[c] = d
    BY <2>3
  <2> DEFINE A == {d}
  <2>9. Excused \/ (filedescriptors[c] = NULL /\ A \cap Live' \subseteq Reach(c)')
    <3>1. CASE FreeFds = {} \/ (ret' # 0 /\ filedescriptors' = filedescriptors)
      BY <3>1 DEF Excused
    <3>2. CASE filedescriptors[c] = NULL /\ filedescriptors'[c] = d
      <4>1. d # NULL
        BY ConstantFacts
      <4>2. d \in Reach(c)'
        BY <3>2, <4>1 DEF Reach
      <4>3. QED
        BY <3>2, <4>2
    <3>3. QED
      BY <2>8, <3>1, <3>2
  <2>10. A \subseteq Objects \ Live
    OBVIOUS
  <2>11. /\ DOMAIN descs \subseteq DOMAIN descs' /\ DOMAIN descs' \subseteq DOMAIN descs \cup A
         /\ DOMAIN items' = DOMAIN items /\ \A o \in DOMAIN items : items'[o] = items[o]
         /\ DOMAIN bodies' = DOMAIN bodies /\ \A o \in DOMAIN bodies : bodies'[o] = bodies[o]
         /\ DOMAIN items \subseteq DOMAIN items' /\ DOMAIN items' \subseteq DOMAIN items \cup A
         /\ DOMAIN bodies \subseteq DOMAIN bodies' /\ DOMAIN bodies' \subseteq DOMAIN bodies \cup A
    BY <1>2, <2>3
  <2> HIDE DEF A
  <2>12. QED
    BY <1>2, <2>3, <2>4, <2>5, <2>6, <2>7, <2>8, <2>9, <2>10, <2>11, GrowStep
<1>5. QED
  BY <1>3, <1>4

\* A mode other than "r" frees one address, which is stray from then on.
LEMMA WrongModeStep ==
    ASSUME FInv, NEW u \in Unassigned, Freed({u}), stray' = stray \cup ({u} \ {NULL}), ret' = 0,
           filedescriptors' = filedescriptors, disk' = disk, paths' \in 0..MaxOpens
    PROVE  Good
<1>1. ObjectTypes /\ OtherTypes /\ DiskInv
  BY TypeFacts DEF FInv
<1>2. OtherTypes' /\ DiskInv'
  <2>1. ret' \in -7..MaxDescriptors
    BY ConstantFacts
  <2>2. QED
    BY <1>1, <2>1 DEF OtherTypes, DiskInv
<1> DEFINE S == {u}
<1>3. /\ Freed(S) /\ stray \subseteq stray' /\ stray' \subseteq Objects \cup {Elsewhere}
      /\ \A x \in S \cap Objects : x \in stray'
      /\ \A x \in S \ {NULL} : x \in stray'
  BY <1>1, ConstantFacts DEF ObjectTypes, Unassigned
<1>4. NULL \notin Live
  BY <1>1, FieldTypes DEF Live
<1>5. stray' = {} => S = {NULL}
  OBVIOUS
<1> HIDE DEF S
<1>6. stray' = {} => Saved(1)
  <2>1. SUFFICES ASSUME stray' = {}, NEW x \in Live' PROVE x \in Reach(1)' \/ (x \in Live /\ x \notin Reach(1))
    BY DEF Saved
  <2>2. /\ DOMAIN descs' = DOMAIN descs \ S /\ \A o \in DOMAIN descs' : descs'[o] = descs[o]
        /\ DOMAIN items' = DOMAIN items \ S /\ \A o \in DOMAIN items' : items'[o] = items[o]
        /\ DOMAIN bodies' = DOMAIN bodies \ S /\ \A o \in DOMAIN bodies' : bodies'[o] = bodies[o]
    BY <1>3, FreedFacts
  <2>3. DOMAIN descs' = DOMAIN descs /\ DOMAIN items' = DOMAIN items /\ DOMAIN bodies' = DOMAIN bodies
    BY <1>4, <1>5, <2>1, <2>2 DEF Live
  <2>4. ChangesOnly({})
    BY <2>2, <2>3 DEF ChangesOnly
  <2>5. SameView(1)
    BY <1>1, <2>4, OneIsAnEntry, Untouched
  <2>6. Live' = Live
    BY <2>3 DEF Live
  <2>7. QED
    BY <2>1, <2>5, <2>6 DEF SameView
<1>7. FInv'
  <2>1. /\ \A fd \in Fds : filedescriptors'[fd] \in {filedescriptors[fd], NULL}
        /\ \A fd \in Fds : filedescriptors'[fd] \in (S \cap Objects) => filedescriptors'[fd] \in stray'
        /\ \A d \in DOMAIN descs \ S : descs[d].item \in (S \cap Objects) => descs[d].item \in stray'
        /\ \A o \in DOMAIN items \ S : items[o].body \in (S \cap Objects) => items[o].body \in stray'
    BY <1>3
  <2>2. QED
    BY <1>2, <1>3, <2>1, FreeStep
<1>8. Framed(1)
  <2>1. \A fd \in Fds \ {1} : Reach(fd) \cap stray' = {} => Reach(fd) \cap (S \ {NULL}) = {}
    BY <1>3
  <2>2. QED
    BY <1>3, <2>1, OneIsAnEntry, FreeFrame
<1>9. QED
  BY <1>6, <1>7, <1>8, OneIsAnEntry DEF Good

LEMMA LowestFreeFacts ==
    ASSUME NEW taken, NEW o \in LowestFree(taken)
    PROVE  o \in Objects \ Live /\ o \notin taken
BY DEF LowestFree

LEMMA OpenLookupStep ==
    ASSUME FInv, NEW p \in Paths, p # <<>>, NEW r \in Refusals(p, 0, "r"), fopen(p, 0, "r", r),
           OpenLookup(p, r), disk' = disk, paths' \in 0..MaxOpens, paths' # paths
    PROVE  Good
<1>1. ObjectTypes /\ OtherTypes /\ DiskInv
  BY TypeFacts DEF FInv
<1>2. PICK w : w = fat16_get_directory_entry(p, r)
  OBVIOUS
<1> DEFINE Outcome(d, x, y) ==
         \/ w.at = "item" /\ Opened(p, d, x, r) /\ NewItem(w, x, y)
         \/ w.at = "lost" /\ NotOpened /\ NewItem(w, x, y)
         \/ w.at = "none" /\ NotOpened /\ UNCHANGED <<items, bodies, stray>>
         \/ w.at \in {"unset", "wild"} /\ \E u \in Unassigned : AnyItem(w, d, u, r)
<1>3. PICK d \in LowestFree({}) : \E x \in LowestFree({d}) : \E y \in LowestFree({d, x}) : Outcome(d, x, y)
  BY <1>2 DEF OpenLookup
<1>4. PICK x \in LowestFree({d}) : \E y \in LowestFree({d, x}) : Outcome(d, x, y)
  BY <1>3
<1>5. PICK y \in LowestFree({d, x}) : Outcome(d, x, y)
  BY <1>4
<1>6. d \in Objects \ Live /\ x \in Objects \ Live /\ y \in Objects \ Live /\ d # x /\ d # y /\ x # y
  BY LowestFreeFacts
<1>7. /\ w.body \in {"held", "null", "freed"}
      /\ w.at \in {"item", "lost"} => w.node \in Nodes
      /\ w.at = "item" => Names(p, w.node)
      /\ w.at = "lost" => p \in ThroughFile
  BY <1>2, PathEntryFacts
<1>8. CASE w.at = "item" /\ Opened(p, d, x, r) /\ NewItem(w, x, y)
  BY <1>6, <1>7, <1>8, OpenItemStep
<1>9. CASE w.at = "lost" /\ NotOpened /\ NewItem(w, x, y)
  <2>1. Excused
    BY <1>7, <1>9 DEF Excused
  <2>2. QED
    BY <1>6, <1>7, <1>9, <2>1, LostStep
<1>10. CASE w.at = "none" /\ NotOpened /\ UNCHANGED <<items, bodies, stray>>
  <2>1. ret' = 0 /\ filedescriptors' = filedescriptors /\ descs' = descs
    BY <1>10 DEF NotOpened
  <2>2. ret' \in -7..MaxDescriptors
    BY <2>1, ConstantFacts
  <2>3. OtherTypes' /\ DiskInv'
    BY <1>1, <2>1, <2>2 DEF OtherTypes, DiskInv
  <2>4. stray' \subseteq Objects \cup {Elsewhere}
    BY <1>1, <1>10 DEF ObjectTypes
  <2>5. QED
    BY <1>10, <2>1, <2>3, <2>4, QuietStep
<1>11. CASE w.at \in {"unset", "wild"} /\ \E u \in Unassigned : AnyItem(w, d, u, r)
  BY <1>6, <1>11, AnyItemStep
<1>12. QED
  BY <1>5, <1>8, <1>9, <1>10, <1>11

LEMMA FopenStep ==
    ASSUME FInv, NEW p \in Paths, NEW drive \in {0, 1}, NEW mode \in Modes,
           NEW r \in Refusals(p, drive, mode), fopen(p, drive, mode, r)
    PROVE  Good
<1>1. ObjectTypes /\ OtherTypes /\ DiskInv
  BY TypeFacts DEF FInv
<1>2. /\ disk' = disk /\ paths' \in 0..MaxOpens
      /\ r.call # "path" => paths' # paths
      /\ \/ Rejected(p, drive, mode, r) /\ NotOpened /\ UNCHANGED <<items, bodies, stray>>
         \/ ~Rejected(p, drive, mode, r) /\ fat16_open(p, mode, r)
  <2>1. paths \in 0..MaxOpens /\ paths < MaxOpens /\ MaxOpens \in Nat
    BY <1>1, ConstantFacts DEF fopen, OtherTypes
  <2>2. QED
    BY <2>1 DEF fopen
<1>3. ASSUME NotOpened, UNCHANGED <<items, bodies, stray>> PROVE Good
  <2>1. ret' = 0 /\ filedescriptors' = filedescriptors /\ descs' = descs
    BY <1>3 DEF NotOpened
  <2>2. ret' \in -7..MaxDescriptors
    BY <2>1, ConstantFacts
  <2>3. OtherTypes' /\ DiskInv'
    BY <1>1, <1>2, <2>1, <2>2 DEF OtherTypes, DiskInv
  <2>4. stray' \subseteq Objects \cup {Elsewhere}
    BY <1>1, <1>3 DEF ObjectTypes
  <2>5. QED
    BY <1>3, <2>1, <2>3, <2>4, QuietStep
<1>4. CASE ~Rejected(p, drive, mode, r) /\ fat16_open(p, mode, r)
  <2>1. r.call # "path" /\ p # <<>> /\ drive = 0
    BY <1>4 DEF Rejected
  <2>2. CASE mode # "r"
    <3>1. PICK u \in Unassigned : Freed({u}) /\ stray' = stray \cup ({u} \ {NULL})
      BY <1>4, <2>2 DEF fat16_open
    <3>2. ret' = 0 /\ filedescriptors' = filedescriptors
      BY <1>4, <2>2 DEF fat16_open
    <3>3. QED
      BY <1>2, <3>1, <3>2, WrongModeStep
  <2>3. CASE mode = "r" /\ r.call = "desc"
    BY <1>3, <1>4, <2>3 DEF fat16_open
  <2>4. CASE mode = "r" /\ r.call # "desc"
    <3>1. OpenLookup(p, r)
      BY <1>4, <2>4 DEF fat16_open
    <3>2. QED
      BY <1>2, <2>1, <2>4, <3>1, OpenLookupStep
  <2>5. QED
    BY <2>2, <2>3, <2>4
<1>5. QED
  BY <1>2, <1>3, <1>4

LEMMA CallStep ==
    ASSUME FInv, Next
    PROVE  Good
<1>1. CASE \E recognised \in BOOLEAN : disk_search_and_init(recognised)
  BY <1>1, MountStep
<1>2. CASE \E p \in Paths, drive \in {0, 1}, mode \in Modes :
              \E r \in Refusals(p, drive, mode) : fopen(p, drive, mode, r)
  BY <1>2, FopenStep
<1>3. ASSUME NEW fd \in 0..MaxDescriptors,
             (\E size, nmemb \in 0..1 : fread(fd, size, nmemb)) \/ fstat(fd)
      PROVE  Good
  BY <1>3, QueryStep
<1>4. ASSUME NEW fd \in 0..MaxDescriptors,
             \E off \in Offsets, whence \in {"SEEK_SET", "SEEK_CUR", "SEEK_END", "other"} :
                fseek(fd, off, whence)
      PROVE  Good
  BY <1>4, FseekStep
<1>5. ASSUME NEW fd \in 0..MaxDescriptors, fclose(fd) PROVE Good
  BY <1>5, FcloseStep
<1>6. QED
  BY <1>1, <1>2, <1>3, <1>4, <1>5 DEF Next

LEMMA FilesInit == Init => FInv
<1>1. SUFFICES ASSUME Init PROVE FInv
  OBVIOUS
<1>2. /\ disk = [filesystem |-> "unset", fs_private |-> NULL]
      /\ filedescriptors = [fd \in Fds |-> NULL]
      /\ DOMAIN descs = {} /\ DOMAIN items = {} /\ DOMAIN bodies = {} /\ stray = {}
      /\ paths = 0 /\ ret = 0
  BY <1>1 DEF Init, fs_init, Unbound
<1>3. ObjectTypes
  BY <1>2 DEF ObjectTypes
<1>4. OtherTypes
  BY <1>2, ConstantFacts DEF OtherTypes
<1>5. TableSound /\ DescsSound /\ ItemsSound
  BY <1>2, ConstantFacts DEF TableSound, DescsSound, ItemsSound, Sound, ItemAt, BodyAt
<1>6. NamesInv /\ DiskInv
  BY <1>2 DEF NamesInv, DiskInv
<1>7. QED
  BY <1>3, <1>4, <1>5, <1>6, TypeFacts DEF FInv

LEMMA FilesStutter ==
    ASSUME FInv, UNCHANGED vars
    PROVE  FInv'
<1>1. /\ disk' = disk /\ filedescriptors' = filedescriptors /\ descs' = descs /\ items' = items
      /\ bodies' = bodies /\ stray' = stray /\ paths' = paths /\ ret' = ret
  BY DEF vars, objects
<1>2. ObjectTypes /\ OtherTypes /\ TableSound /\ DescsSound /\ ItemsSound /\ NamesInv /\ DiskInv
  BY TypeFacts DEF FInv
<1>3. stray' \subseteq Objects \cup {Elsewhere} /\ OtherTypes' /\ DiskInv'
  BY <1>1, <1>2 DEF ObjectTypes, OtherTypes, DiskInv
<1>4. Good
  BY <1>1, <1>3, QuietStep
<1>5. QED
  BY <1>4 DEF Good

LEMMA FilesInvariant == Spec => []FInv
<1>1. FInv /\ [Next]_vars => FInv'
  BY CallStep, FilesStutter DEF Good
<1>2. QED
  BY <1>1, FilesInit, PTL DEF Spec

\* A path that names something through directories without deleted entries is
\* followed to what it names: the search goes through all entries of each.
LEMMA WalkFinds ==
    ASSUME NEW p \in Existing, NEW w, IsWalk(w, p, NoneRefused)
    PROVE  w[Len(p)].at = "item" /\ w[1] # NoItem
<1>1. p \in Paths /\ p # <<>> /\ NoneDeleted(p) /\ \E n \in Nodes : Names(p, n)
  BY DEF Existing
<1>2. PICK S : p \in Seq(S)
  BY <1>1, PathFacts
<1>3. PICK n \in Nat : n = Len(p) /\ DOMAIN p = 1..n
  BY <1>1, PathFacts
<1>4. PICK chain \in [0..n -> Nodes] :
          /\ chain[0] = Root
          /\ \A q \in 1..n :
                /\ chain[q - 1] \in DOMAIN Directory
                /\ \E j \in DOMAIN Directory[chain[q - 1]] :
                      Directory[chain[q - 1]][j] = [name |-> p[q], node |-> chain[q]]
  BY <1>1, <1>3 DEF Names, IsDirectory
<1>5. /\ \A q \in 0..n : w[q] \in WalkSet
      /\ w[0] = [at |-> "item", node |-> Root, body |-> "held"]
      /\ \A q \in 1..n : w[q] = WalkPart(w[q - 1], p[q], "none")
  BY <1>3 DEF IsWalk, FailsAt, NoneRefused, Item
<1>6. ASSUME NEW q \in 0..(n - 1)
      PROVE  \A j \in DOMAIN Directory[chain[q]] : Directory[chain[q]][j].name # Deleted
  <2>1. PICK s : s = SubSeq(p, 1, q) /\ Len(s) = q /\ DOMAIN s = 1..q /\ \A j \in 1..q : s[j] = p[j]
    BY <1>2, <1>3
  <2>2. PICK part \in [0..q -> Nodes] : \A j \in 0..q : part[j] = chain[j]
    <3>1. [j \in 0..q |-> chain[j]] \in [0..q -> Nodes]
      BY <1>4
    <3>2. QED
      BY <3>1
  <2>3. Names(s, chain[q])
    <3>1. part \in [0..Len(s) -> Nodes] /\ part[0] = Root /\ part[Len(s)] = chain[q]
      BY <1>4, <2>1, <2>2
    <3>2. ASSUME NEW a \in DOMAIN s
          PROVE  /\ IsDirectory(part[a - 1])
                 /\ \E j \in DOMAIN Directory[part[a - 1]] :
                       Directory[part[a - 1]][j] = [name |-> s[a], node |-> part[a]]
      <4>1. a \in 1..n /\ a - 1 \in 0..q /\ a \in 0..q /\ s[a] = p[a]
        BY <2>1, <3>2
      <4>2. part[a - 1] = chain[a - 1] /\ part[a] = chain[a]
        BY <2>2, <4>1
      <4>3. QED
        BY <1>4, <4>1, <4>2 DEF IsDirectory
    <3>3. QED
      BY <3>1, <3>2 DEF Names
  <2>4. chain[q] \in DOMAIN Directory
    <3>1. q + 1 \in 1..n /\ (q + 1) - 1 = q
      BY <1>6
    <3>2. QED
      BY <1>4, <3>1
  <2>5. q \in 0..(Len(p) - 1)
    BY <1>3
  <2>6. QED
    BY <1>1, <2>1, <2>3, <2>4, <2>5 DEF NoneDeleted
<1> DEFINE I == {q \in Nat : q <= n => w[q].at = "item" /\ w[q].body = "held" /\ w[q].node = chain[q]}
<1>7. 0 \in I
  BY <1>4, <1>5
<1>8. ASSUME NEW q \in Nat, q \in I PROVE q + 1 \in I
  <2> SUFFICES ASSUME q + 1 <= n 
               PROVE  w[q + 1].at = "item" /\ w[q + 1].body = "held" /\ w[q + 1].node = chain[q + 1]
    OBVIOUS
  <2>1. /\ q \in 0..n /\ q + 1 \in 1..n /\ (q + 1) - 1 = q /\ q \in 0..(n - 1)
        /\ w[q].at = "item" /\ w[q].body = "held" /\ w[q].node = chain[q]
    BY <1>8
  <2>2. PICK d, name : d = chain[q] /\ name = p[q + 1]
    OBVIOUS
  <2>3. d \in DOMAIN Directory
    BY <1>4, <2>1, <2>2
  <2>4. PICK j \in DOMAIN Directory[d] : Directory[d][j] = [name |-> name, node |-> chain[q + 1]]
    BY <1>4, <2>1, <2>2
  <2>5. w[q + 1] = fat16_find_item_in_directory(d, name, "none")
    <3>1. w[q + 1] = WalkPart(w[q], p[q + 1], "none") /\ w[q] \in WalkSet
      BY <1>5, <2>1
    <3>2. PICK u \in WalkSet : u = w[q]
      BY <3>1
    <3>3. u.at = "item" /\ u.body = "held" /\ u.node = d /\ w[q + 1] = WalkPart(u, name, "none")
      BY <2>1, <2>2, <3>1, <3>2
    <3>4. QED
      BY <2>3, <3>3 DEF WalkPart, IsDirectory
  <2>6. fat16_get_total_items_for_directory(d) = Len(Directory[d])
    BY <1>6, <2>1, <2>2, <2>3, TotalFacts
  <2>7. j \in Matches(d, name)
    <3>1. DOMAIN Directory[d] = 1..Len(Directory[d])
      BY <2>3, DirectoryFacts
    <3>2. j \in 1..fat16_get_total_items_for_directory(d) /\ Directory[d][j].name = name
      BY <2>4, <2>6, <3>1
    <3>3. QED
      BY <3>2 DEF Matches
  <2>8. PICK f : f = w[q + 1]
    OBVIOUS
  <2>9. /\ f.at = "item" =>
             \E m \in DOMAIN Directory[d] : Directory[d][m] = [name |-> name, node |-> f.node]
        /\ f.at = "item" /\ f.body = "held"
    BY <2>3, <2>5, <2>7, <2>8, FoundFacts
  <2>10. PICK m \in DOMAIN Directory[d] : Directory[d][m] = [name |-> name, node |-> f.node]
    BY <2>9
  <2>11. m = j
    <3>1. name # Deleted
      BY <1>1, <1>3, <2>1, <2>2, PathFacts
    <3>2. Directory[d][m].name = name /\ Directory[d][j].name = name
      BY <2>4, <2>10
    <3>3. QED
      BY <2>3, <3>1, <3>2, DirectoryFacts
  <2>12. f.node = chain[q + 1]
    <3>1. Directory[d][m].node = f.node /\ Directory[d][j].node = chain[q + 1]
      BY <2>4, <2>10
    <3>2. QED
      BY <2>11, <3>1
  <2>13. QED
    BY <2>8, <2>9, <2>12
<1>9. Nat \subseteq I
  <2> HIDE DEF I
  <2>1. QED
    BY <1>7, <1>8, SetInduction
<1>10. n > 0
  BY <1>1, <1>2, <1>3
<1>11. w[n].at = "item" /\ w[1].at = "item"
  BY <1>9, <1>10
<1>12. QED
  BY <1>3, <1>11 DEF NoItem

LEMMA ExistingStep ==
    ASSUME FInv, NEW p \in Existing, fopen(p, 0, "r", NoneRefused), disk.filesystem = "fat16",
           FreeFds # {}
    PROVE  ret' # 0
<1>1. p \in Paths /\ p # <<>>
  BY DEF Existing
<1>2. ~Rejected(p, 0, "r", NoneRefused)
  BY <1>1, ConstantFacts DEF Rejected, NoneRefused, file_get_mode_by_string
<1>3. OpenLookup(p, NoneRefused)
  BY <1>2 DEF fopen, fat16_open, NoneRefused
<1>4. PICK w : /\ IsWalk(w, p, NoneRefused)
               /\ fat16_get_directory_entry(p, NoneRefused) =
                     IF w[1] = NoItem THEN [NoItem EXCEPT !.at = "unset"] ELSE w[Len(p)]
  BY <1>1, PathFacts, WalkExists
<1>5. fat16_get_directory_entry(p, NoneRefused).at = "item"
  BY <1>4, WalkFinds
<1>6. \E d, x : Opened(p, d, x, NoneRefused)
  BY <1>3, <1>5 DEF OpenLookup
<1>7. ret' = Min(FreeFds)
  BY <1>6 DEF Opened, file_new_descriptor
<1>8. Min(FreeFds) \in FreeFds
  <2>1. FreeFds \subseteq Nat
    BY ConstantFacts DEF FreeFds, Fds
  <2>2. QED
    BY <2>1, MinOf
<1>9. QED
  BY <1>7, <1>8, ConstantFacts DEF FreeFds, Fds

\* What a call of the table leaves of the other descriptors' views.
LEMMA OneView ==
    ASSUME Good, NEW a \in Fds, NEW b \in Fds, a # b, StaysClear(a), StaysClear(b)
    PROVE  View(a)' = View(a) \/ View(b)' = View(b)
<1>1. PICK c \in Fds : Framed(c)
  BY DEF Good
<1>2. Reach(a) \cap stray' = {} /\ Reach(b) \cap stray' = {}
  BY DEF StaysClear
<1>3. (a # c => SameView(a)) /\ (b # c => SameView(b))
  BY <1>1, <1>2 DEF Framed
<1>4. QED
  BY <1>3 DEF SameView

\* Without stray addresses, an object that is in use and reached from the table
\* before a step stays reached or is freed, but for the excused calls.
LEMMA StepLeaks ==
    ASSUME FInv, Good, stray' = {}
    PROVE  LosesOnlyThere
<1>1. PICK c \in Fds : Framed(c) /\ (Saved(c) \/ Excused)
  BY DEF Good
<1>2. CASE Excused
  BY <1>2 DEF Excused, LosesOnlyThere
<1>3. CASE Saved(c)
  <2>1. ASSUME NEW x \in Orphans' PROVE x \in Orphans
    <3>1. x \in Live' /\ \A fd \in Fds : filedescriptors'[fd] # NULL => x \notin Reach(fd)'
      BY <2>1 DEF Orphans, OpenFds
    <3>2. \A fd \in Fds : x \notin Reach(fd)'
      <4>1. SUFFICES ASSUME NEW fd \in Fds, filedescriptors'[fd] = NULL PROVE x \notin Reach(fd)'
        BY <3>1
      <4>2. ObjectTypes'
        BY DEF Good, FInv, TypeOK, ObjectTypes, DescType, ItemType, Live
      <4>3. NULL \notin DOMAIN descs' /\ NULL \notin DOMAIN items'
        BY <4>2, ConstantFacts DEF ObjectTypes
      <4>4. QED
        BY <4>1, <4>3 DEF Reach
    <3>3. x \in Live /\ x \notin Reach(c)
      BY <1>3, <3>1, <3>2 DEF Saved
    <3>4. \A fd \in Fds \ {c} : Reach(fd)' = Reach(fd)
      BY <1>1 DEF Framed, SameView
    <3>5. \A fd \in Fds : x \notin Reach(fd)
      BY <3>2, <3>3, <3>4
    <3>6. QED
      BY <3>3, <3>5 DEF Orphans, OpenFds
  <2>2. QED
    BY <2>1 DEF LosesOnlyThere
<1>4. QED
  BY <1>1, <1>2, <1>3

LEMMA InvOwns ==
    ASSUME FInv
    PROVE  OwnLiveObjects
<1>1. DiskInv /\ ObjectTypes /\ OtherTypes /\ TableSound /\ DescsSound
  BY TypeFacts DEF FInv
<1>2. SUFFICES ASSUME NEW fd \in OpenFds, Clear(fd)
               PROVE  /\ Reach(fd) \subseteq Live /\ Intact(filedescriptors[fd])
                      /\ \A other \in OpenFds \ {fd} : Reach(fd) \cap Reach(other) = {}
  BY <1>1 DEF OwnLiveObjects, DiskInv
<1>3. fd \in Fds /\ filedescriptors[fd] # NULL /\ Reach(fd) \subseteq Objects \ stray
  BY <1>2 DEF OpenFds, Clear
<1>4. Reach(fd) \subseteq Live
  BY <1>3, ReachLive
<1>5. Intact(filedescriptors[fd])
  <2>1. PICK d : d = filedescriptors[fd]
    OBVIOUS
  <2>2. d \in Reach(fd)
    BY <1>1, <1>3, <2>1, ReachIff
  <2>3. d \in DOMAIN descs
    BY <1>1, <1>3, <2>1, <2>2 DEF TableSound, Sound, OtherTypes
  <2>4. descs[d].item \in Reach(fd)
    <3>1. descs[d].item # NULL
      BY <1>1, <2>3, FieldTypes
    <3>2. QED
      BY <1>1, <1>3, <2>1, <2>3, <3>1, ReachIff
  <2>5. descs[d].item \in DOMAIN items
    BY <1>1, <1>3, <2>3, <2>4 DEF DescsSound, Sound, ItemAt
  <2>6. QED
    BY <2>1, <2>3, <2>5 DEF Intact
<1>6. ASSUME NEW other \in OpenFds \ {fd}, NEW x, x \in Reach(fd), x \in Reach(other) PROVE FALSE
  <2>1. other \in Fds /\ other # fd /\ x \in Objects /\ Reach(fd) \cap stray = {}
    BY <1>3, <1>6 DEF OpenFds
  <2>2. QED
    BY <1>3, <1>6, <2>1, Separate
<1>7. QED
  BY <1>4, <1>5, <1>6

LEMMA InvNames ==
    ASSUME FInv
    PROVE  OpenNamesItsPath
<1>1. ObjectTypes /\ NamesInv /\ OwnLiveObjects
  BY TypeFacts, InvOwns DEF FInv
<1>2. SUFFICES ASSUME NEW fd \in OpenFds, Clear(fd), NEW d, d = filedescriptors[fd]
               PROVE  \E n \in Nodes : Names(descs[d].path, n) /\ RefersTo(descs[d].item, n)
  BY DEF OpenNamesItsPath
<1>3. /\ fd \in Fds /\ Reach(fd) \subseteq Objects \ stray
      /\ d \in DOMAIN descs /\ descs[d].item \in DOMAIN items
  BY <1>1, <1>2 DEF OpenFds, Clear, OwnLiveObjects, Intact
<1>4. descs[d].item \in Reach(fd)
  <2>1. descs[d].item # NULL
    BY <1>1, <1>3, FieldTypes
  <2>2. QED
    BY <1>1, <1>2, <1>3, <2>1, ReachIff
<1>5. items[descs[d].item].body \notin stray
  <2>1. CASE items[descs[d].item].body = NULL
    BY <1>1, <2>1, FieldTypes
  <2>2. CASE items[descs[d].item].body # NULL
    <3>1. items[descs[d].item].body \in Reach(fd)
      BY <1>1, <1>2, <1>3, <2>2, ReachIff
    <3>2. QED
      BY <1>3, <3>1
  <2>3. QED
    BY <2>1, <2>2
<1>6. QED
  BY <1>1, <1>3, <1>4, <1>5 DEF NamesInv, NamesNode

(***************************************************************************)
(* For every volume, table and heap: a position is one that a uint32_t     *)
(* holds, a returned descriptor is one of the table, and no address is     *)
(* that of two objects of FAT16.                                           *)
(***************************************************************************)
THEOREM FilesTypeCorrect == Spec => []TypeOK
<1>1. FInv => TypeOK
  BY DEF FInv
<1>2. QED
  BY <1>1, FilesInvariant, PTL

(***************************************************************************)
(* Whatever the two unassigned locals hold and whichever kzalloc or read   *)
(* of fopen fails, the objects of an open descriptor that no stray pointer *)
(* has met are allocated and its own: fclose frees them once.              *)
(***************************************************************************)
THEOREM DescriptorsOwnObjects == Spec => []OwnLiveObjects
<1>1. QED
  BY InvOwns, FilesInvariant, PTL

(***************************************************************************)
(* Such a descriptor refers to the file or directory that the path given   *)
(* to fopen names, whatever fopen, fseek and fclose did in between.        *)
(***************************************************************************)
THEOREM DescriptorsNameTheirPath == Spec => []OpenNamesItsPath
<1>1. QED
  BY InvNames, FilesInvariant, PTL

(***************************************************************************)
(* A call changes what one descriptor refers to, or its position, and      *)
(* leaves every other that is clear of stray pointers as it was.           *)
(***************************************************************************)
THEOREM CallsTouchOneDescriptor == Spec => OneDescriptorPerCall
<1>1. FInv /\ [Next]_vars =>
        [\A a, b \in Fds : a # b /\ StaysClear(a) /\ StaysClear(b) =>
            View(a)' = View(a) \/ View(b)' = View(b)]_<<filedescriptors, objects>>
  BY CallStep, OneView DEF vars
<1>2. QED
  BY <1>1, FilesInvariant, PTL DEF Spec, OneDescriptorPerCall

(***************************************************************************)
(* As long as no stray pointer has come up, FAT16's objects are lost by an *)
(* fopen that meets a full table, a refused struct file_descriptor or a    *)
(* path through a file, and by no other call.                              *)
(***************************************************************************)
THEOREM NothingElseLeaks == Spec => LeaksOnlyThere
<1>1. FInv /\ [Next]_vars => [stray' = {} => LosesOnlyThere]_<<filedescriptors, objects>>
  BY CallStep, StepLeaks DEF vars
<1>2. QED
  BY <1>1, FilesInvariant, PTL DEF Spec, LeaksOnlyThere

(***************************************************************************)
(* While there is memory and a free entry, fopen opens every path that     *)
(* names something through directories without deleted entries.            *)
(***************************************************************************)
THEOREM EveryExistingOpens == Spec => ExistingOpens
<1>1. FInv /\ [Next]_vars => [NoExistingFails]_vars
  BY ExistingStep DEF NoExistingFails
<1>2. QED
  BY <1>1, FilesInvariant, PTL DEF Spec, ExistingOpens

-----------------------------------------------------------------------------
(***************************************************************************)
(* Reading a file (Fat16Read).                                             *)
(***************************************************************************)
\* The position of the file's first byte.
First == DataStart + (Chain[1] - 2) * ClusterSize

\* What the disk may hold at or behind the data area, and the stray byte.
DataBytes == {Stack} \cup {b \in Int : b >= DataStart}

\* The results of a read that fails.
Failures == {-1} \cup {w \in Words : w < 0}

(***************************************************************************)
(* The inductive invariant: where the call is in the member, in the        *)
(* cluster and in the sector, and how much it has copied by then.          *)
(***************************************************************************)
RequestInv ==
    /\ req \in [pos : Nat, size : 1..MaxSize, nmemb : 1..MaxMembers]
    /\ req.pos + req.size * req.nmemb <= filesize

RangeInv ==
    /\ pc \in {"member", "chain", "stream", "items", "done"}
    /\ i \in 0..req.nmemb
    /\ offset \in 0..(filesize - 1) /\ total \in 0..req.size
    /\ chunk \in 0..ClusterSize /\ left \in 0..chunk
    /\ hops \in 0..(filesize \div ClusterSize)
    /\ res \in Failures \cup 0..MaxMembers

\* The rest of the member ends where the member ends.
MemberInv ==
    pc \in {"chain", "stream", "items"} =>
        /\ i < req.nmemb /\ total > 0
        /\ req.pos + i * req.size <= offset
        /\ offset + total = req.pos + i * req.size + req.size

\* A sector at a time until the last one.
ChunkInv ==
    /\ pc = "chain" => hops <= offset \div ClusterSize
    /\ pc \in {"stream", "items"} =>
          /\ chunk = Minimum(total, ClusterSize)
          /\ stream \in Int /\ stream + left = First + (offset % ClusterSize) + chunk
    /\ pc = "stream" => left > 0 /\ \E q \in Nat : chunk = left + SectorSize * q
    /\ pc = "items" => left = 0

\* The bytes copied so far; a read that fails is not a simple one.
OutInv ==
    /\ out \in Seq(DataBytes)
    /\ pc = "member" => Len(out) = i * req.size
    /\ pc = "chain" => Len(out) = offset - req.pos
    /\ pc \in {"stream", "items"} => Len(out) = offset - req.pos + chunk - left
    /\ pc = "done" => \/ res = req.nmemb /\ Len(out) = req.size * req.nmemb
                      \/ res \in Failures /\ ~Simple /\ Len(out) <= req.size * req.nmemb

SimpleInv == Simple => \A b \in 1..Len(out) : out[b] = First + req.pos + b - 1

\* A simple read takes each member in one piece.
WholeInv == Simple /\ pc \in {"chain", "stream", "items"} => total = req.size

\* A negative cluster is a word of the disk, and a simple read meets none.
ClusterInv ==
    /\ cluster_pos \in Int
    /\ pc \in {"stream", "items"} => cluster_pos >= 0
    /\ pc = "chain" /\ cluster_pos < 0 => cluster_pos \in Words /\ ~Simple

CallInv == RequestInv /\ RangeInv /\ MemberInv /\ ChunkInv /\ OutInv /\ SimpleInv /\ WholeInv

RInv == CallInv /\ ClusterInv

LEMMA DiskFacts ==
    /\ SectorSize \in Nat \ {0} /\ ClusterSize \in Nat \ {0}
    /\ filesize \in Nat \ {0} /\ DataStart \in Nat
    /\ MaxSize \in Nat /\ MaxMembers \in Nat
    /\ First \in Int /\ First >= DataStart
    /\ \E q \in Int : First = SectorSize * q
    /\ \E q \in Nat : ClusterSize = SectorSize * q
<1>1. /\ SectorSize \in Nat \ {0} /\ SectorsPerCluster \in Nat \ {0} /\ DataStart \in Nat
      /\ DataStart % SectorSize = 0
      /\ Chain \in Seq(Nat) /\ Len(Chain) > 0 /\ \A q \in DOMAIN Chain : Chain[q] >= 2
      /\ filesize \in 1..(Len(Chain) * ClusterSize)
      /\ MaxSize \in Nat /\ MaxMembers \in Nat
  BY ReadAssumption
<1>2. PICK c \in Nat : c = Chain[1] - 2
  BY <1>1
<1>3. PICK z \in Nat \ {0} : z = ClusterSize /\ z = SectorSize * SectorsPerCluster
  <2>1. SectorSize * SectorsPerCluster \in Nat \ {0}
    BY <1>1, SMT
  <2>2. ClusterSize = SectorSize * SectorsPerCluster
    BY <1>1 DEF ClusterSize
  <2>3. QED
    BY <2>1, <2>2
<1>4. c * z \in Nat /\ c * z = SectorSize * (c * SectorsPerCluster) /\ c * SectorsPerCluster \in Nat
  <2>1. \A a, b, s \in Nat : a * (s * b) = s * (a * b) /\ a * b \in Nat
    BY SMT
  <2>2. QED
    <3>1. SectorSize \in Nat /\ SectorsPerCluster \in Nat
      BY <1>1
    <3>2. c * z = c * (SectorSize * SectorsPerCluster)
      BY <1>3
    <3>3. c * (SectorSize * SectorsPerCluster) = SectorSize * (c * SectorsPerCluster)
          /\ c * SectorsPerCluster \in Nat
      BY <1>2, <2>1, <3>1, SMTT(20)
    <3>4. c * z \in Nat
      BY <1>2, <1>3, <2>1
    <3>5. QED
      BY <3>2, <3>3, <3>4, Zenon
<1>5. First = DataStart + c * z
  BY <1>2, <1>3 DEF First
<1>6. PICK d \in Int : DataStart = SectorSize * d
  <2>0. DataStart \in Int /\ SectorSize \in Nat \ {0}
    BY <1>1
  <2>1. PICK d \in Int : d = DataStart \div SectorSize
    <3>1. DataStart \div SectorSize \in Int
      BY <2>0, DivMod
    <3>2. QED
      BY <3>1
  <2>2. DataStart = SectorSize * d + 0
    BY <1>1, <2>1, DivMod
  <2>3. SectorSize * d \in Int
    BY <1>1, MulLess
  <2>4. QED
    BY <2>2, <2>3
<1>7. First = SectorSize * (d + c * SectorsPerCluster)
  BY <1>1, <1>4, <1>5, <1>6, MulLess
<1>8. d + c * SectorsPerCluster \in Int
  BY <1>4
<1>9. filesize \in Nat \ {0}
  <2>1. Len(Chain) * z \in Int
    BY <1>1
  <2>2. QED
    BY <1>1, <1>3, <2>1
<1>10. QED
  <2>1. First \in Int /\ First >= DataStart
    BY <1>1, <1>4, <1>5
  <2>2. \E q \in Int : First = SectorSize * q
    BY <1>7, <1>8
  <2>3. QED
    BY <1>1, <1>3, <1>9, <2>1, <2>2

\* The request as numbers.
LEMMA RequestFacts ==
    ASSUME RequestInv, RangeInv
    PROVE  /\ req.pos \in Nat /\ req.size \in Nat \ {0} /\ req.nmemb \in Nat \ {0}
           /\ req.size <= MaxSize /\ req.nmemb <= MaxMembers
           /\ i \in Nat /\ i <= req.nmemb
           /\ i * req.size \in Nat /\ req.size * req.nmemb \in Nat
           /\ (i + 1) * req.size = i * req.size + req.size
           /\ i < req.nmemb => i * req.size + req.size <= req.size * req.nmemb
           /\ i * req.size <= req.size * req.nmemb
           /\ req.pos + req.size * req.nmemb <= filesize
<1>1. PICK s \in Nat \ {0}, n \in Nat \ {0} : s = req.size /\ n = req.nmemb
  <2>1. req.size \in 1..MaxSize /\ req.nmemb \in 1..MaxMembers
    BY DEF RequestInv
  <2>2. req.size \in Nat \ {0} /\ req.nmemb \in Nat \ {0}
    BY <2>1, DiskFacts
  <2>3. QED
    BY <2>2
<1>2. i \in 0..n
  BY <1>1 DEF RangeInv
<1>3. i * s \in Nat /\ s * n \in Nat /\ i * s = s * i
  BY <1>1, <1>2, SMT
<1>4. (i + 1) * s = i * s + s
  <2>1. \A a, b \in Nat : (a + 1) * b = a * b + b
    BY SMT
  <2>2. i \in Nat
    BY <1>2
  <2>3. QED
    BY <1>1, <2>1, <2>2, Zenon
<1>5. i < n => i * s + s <= s * n
  <2>1. s * (i + 1) = s * i + s /\ (s * n < s * (i + 1) <=> n < i + 1)
    BY <1>1, <1>2, MulLess
  <2>2. i * s + s \in Nat
    BY <1>1, <1>3
  <2>3. QED
    BY <1>1, <1>2, <1>3, <2>1, <2>2
<1>6. i * s <= s * n
  <2>1. i = n \/ i < n
    BY <1>1, <1>2
  <2>2. QED
    BY <1>1, <1>3, <1>5, <2>1
<1>7. QED
  BY <1>1, <1>2, <1>3, <1>4, <1>5, <1>6, DiskFacts DEF RequestInv

\* The quotient grows with the number.
LEMMA DivMonotone ==
    ASSUME NEW m \in Nat \ {0}, NEW a \in Nat, NEW b \in Nat, a <= b
    PROVE  a \div m \in 0..(b \div m)
BY SMT

\* Simple is about the request only, and its bytes are in the first cluster.
LEMMA SimpleFacts ==
    ASSUME CallInv, Simple, pc \in {"chain", "stream", "items"}
    PROVE  /\ offset \div ClusterSize = 0 /\ offset % ClusterSize = offset
           /\ total <= ClusterSize /\ offset < ClusterSize
<1>1. PICK z \in Nat \ {0} : z = ClusterSize
  BY DiskFacts
<1>2. PICK p \in Nat, s \in Nat \ {0}, n \in Nat \ {0}, a \in Nat, b \in Nat :
          /\ p = req.pos /\ s = req.size /\ n = req.nmemb /\ a = i * req.size
          /\ b = req.size * req.nmemb
  BY RequestFacts DEF CallInv
<1>2a. p \in Nat /\ s \in Nat /\ a \in Nat /\ b \in Nat
  BY <1>2
<1>3. a + s <= b /\ offset + total = p + a + s /\ total > 0
  BY <1>2, RequestFacts DEF CallInv, MemberInv
<1>4. p + b <= z
  BY <1>1, <1>2 DEF Simple
<1>5. offset \in Nat /\ total \in Nat
  BY <1>2, DiskFacts DEF CallInv, RangeInv
<1>6. offset + total <= z /\ offset < z /\ offset \in 0..(z - 1)
  BY <1>1, <1>2a, <1>3, <1>4, <1>5
<1>7. offset % z = offset /\ offset \div z = 0
  BY <1>6, ModSmall
<1>8. QED
  BY <1>1, <1>5, <1>6, <1>7

\* The loop of fat16_read.
LEMMA ReadMemberStep ==
    ASSUME CallInv, fat16_read
    PROVE  CallInv'
<1>1. RequestInv /\ RangeInv /\ MemberInv /\ ChunkInv /\ OutInv /\ SimpleInv /\ WholeInv
  BY DEF CallInv
<1>2. /\ req' = req /\ i' = i /\ chunk' = chunk /\ stream' = stream /\ left' = left /\ out' = out
      /\ pc = "member"
  BY DEF fat16_read, memberVars, streamVars
<1>3. PICK p \in Nat, s \in Nat \ {0}, n \in Nat \ {0}, a \in Nat, b \in Nat :
          /\ p = req.pos /\ s = req.size /\ n = req.nmemb /\ a = i * req.size
          /\ b = req.size * req.nmemb
  BY <1>1, RequestFacts
<1>3a. p \in Nat /\ s \in Nat \ {0} /\ n \in Nat \ {0} /\ a \in Nat /\ b \in Nat
      /\ filesize \in Nat \ {0}
  BY <1>3, DiskFacts
<1>4. p + b <= filesize /\ (i < n => a + s <= b) /\ n <= MaxMembers /\ i \in 0..n
  BY <1>1, <1>3, RequestFacts DEF RangeInv
<1>5. PICK z \in Nat \ {0} : z = ClusterSize
  BY DiskFacts
<1>6. RequestInv' /\ SimpleInv'
  BY <1>1, <1>2 DEF RequestInv, SimpleInv, Simple
<1>7. Len(out) = a /\ out \in Seq(DataBytes)
  BY <1>1, <1>2, <1>3 DEF OutInv
<1>8. CASE i < n
  <2>1. /\ offset' = p + a /\ total' = s /\ hops' = (p + a) \div z /\ pc' = "chain" /\ res' = res
    BY <1>3, <1>5, <1>8 DEF fat16_read, ReadItems
  <2>2. p + a \in 0..(filesize - 1) /\ p + a \in Nat /\ p + a <= filesize
    BY <1>3a, <1>4, <1>8
  <2>3. (p + a) \div z \in 0..(filesize \div z) /\ (p + a) \div z \in Int
    <3>1. (p + a) \div z \in 0..(filesize \div z)
      BY <1>3a, <1>5, <2>2, DivMonotone
    <3>2. (p + a) \div z \in Int
      BY <1>5, <2>2, DivMod
    <3>3. QED
      BY <3>1, <3>2
  <2>4. RangeInv'
    BY <1>1, <1>2, <1>3, <1>5, <2>1, <2>2, <2>3 DEF RangeInv
  <2>5. MemberInv'
    <3>1. s > 0 /\ p + a <= p + a
      BY <1>3a
    <3>2. QED
      BY <1>2, <1>3, <1>8, <2>1, <3>1 DEF MemberInv
  <2>6. ChunkInv'
    <3>1. hops' <= offset' \div ClusterSize
      BY <1>5, <2>1, <2>3
    <3>2. QED
      BY <2>1, <3>1 DEF ChunkInv
  <2>7. OutInv'
    <3>1. Len(out') = offset' - req'.pos
      BY <1>2, <1>3, <1>7, <2>1
    <3>2. QED
      BY <1>2, <1>7, <2>1, <3>1 DEF OutInv
  <2>8. WholeInv'
    BY <1>2, <1>3, <2>1 DEF WholeInv
  <2>9. QED
    BY <1>6, <2>4, <2>5, <2>6, <2>7, <2>8 DEF CallInv
<1>9. CASE ~(i < n)
  <2>1. /\ offset' = offset /\ total' = total /\ hops' = hops /\ pc' = "done" /\ res' = n
    BY <1>3, <1>9 DEF fat16_read
  <2>2. i = n /\ a = b
    <3>1. i = n
      BY <1>3a, <1>4, <1>9
    <3>2. n * s = s * n
      BY <1>3
    <3>3. QED
      BY <1>3, <3>1, <3>2
  <2>3. n \in 0..MaxMembers
    BY <1>3, <1>4, DiskFacts
  <2>4. RangeInv'
    BY <1>1, <1>2, <2>1, <2>3 DEF RangeInv
  <2>5. MemberInv' /\ ChunkInv' /\ WholeInv'
    BY <2>1 DEF MemberInv, ChunkInv, WholeInv
  <2>6. OutInv'
    BY <1>2, <1>3, <1>7, <2>1, <2>2 DEF OutInv
  <2>7. QED
    BY <1>6, <2>4, <2>5, <2>6 DEF CallInv
<1>10. QED
  BY <1>8, <1>9

\* An iteration of fat16_get_cluster_for_offset: a simple read has none.
LEMMA ReadChainStep ==
    ASSUME CallInv, fat16_get_cluster_for_offset
    PROVE  CallInv'
<1>1. RequestInv /\ RangeInv /\ MemberInv /\ ChunkInv /\ OutInv /\ SimpleInv /\ WholeInv
  BY DEF CallInv
<1>2. /\ req' = req /\ i' = i /\ offset' = offset /\ total' = total /\ chunk' = chunk
      /\ stream' = stream /\ left' = left /\ out' = out
      /\ pc = "chain" /\ hops > 0
      /\ \/ pc' = "done" /\ res' = -1 /\ hops' = hops
         \/ pc' = "chain" /\ res' = res /\ hops' = hops - 1
  BY DEF fat16_get_cluster_for_offset, memberVars, streamVars, EIO
<1>3. PICK z \in Nat \ {0} : z = ClusterSize
  BY DiskFacts
<1>4. PICK f \in Int, g \in Int : f = filesize \div z /\ g = offset \div z
  <2>1. filesize \in Int /\ offset \in Int
    BY <1>1, DiskFacts DEF RangeInv
  <2>2. filesize \div z \in Int /\ offset \div z \in Int
    BY <1>3, <2>1, DivMod
  <2>3. QED
    BY <2>2
<1>5. hops \in 0..f /\ hops <= g
  BY <1>1, <1>2, <1>3, <1>4 DEF RangeInv, ChunkInv
<1>6. RequestInv' /\ SimpleInv'
  BY <1>1, <1>2 DEF RequestInv, SimpleInv, Simple
<1>7. hops' \in 0..f /\ hops' <= g
  BY <1>2, <1>4, <1>5
<1>8. RangeInv'
  <2>1. res' \in Failures \cup 0..MaxMembers
    BY <1>1, <1>2 DEF RangeInv, Failures
  <2>2. QED
    BY <1>1, <1>2, <1>3, <1>4, <1>7, <2>1 DEF RangeInv
<1>9. MemberInv' /\ WholeInv'
  BY <1>1, <1>2 DEF MemberInv, WholeInv, Simple
<1>10. ChunkInv'
  BY <1>2, <1>3, <1>4, <1>7 DEF ChunkInv
<1>11. OutInv'
  <2>1. CASE pc' = "done" /\ res' = -1
    <3>1. ~Simple
      <4> SUFFICES ASSUME Simple PROVE FALSE
        OBVIOUS
      <4>1. g = 0
        BY <1>2, <1>3, <1>4, SimpleFacts
      <4>2. QED
        BY <1>2, <1>5, <4>1
    <3>2. ~Simple'
      BY <1>2, <3>1 DEF Simple
    <3>3. Len(out) <= req.size * req.nmemb
      <4>1. PICK p \in Nat, s \in Nat \ {0}, a \in Nat, b \in Nat :
                /\ p = req.pos /\ s = req.size /\ a = i * req.size /\ b = req.size * req.nmemb
        BY <1>1, RequestFacts
      <4>2. a + s <= b /\ offset + total = p + a + s /\ total > 0
        BY <1>1, <1>2, <4>1, RequestFacts DEF MemberInv
      <4>3. Len(out) = offset - p
        BY <1>1, <1>2, <4>1 DEF OutInv
      <4>4. offset \in Nat /\ total \in Nat
        BY <1>1, <4>1, DiskFacts DEF RangeInv
      <4>5. p \in Nat /\ s \in Nat /\ a \in Nat /\ b \in Nat
        BY <4>1
      <4>6. Len(out) <= b
        BY <4>2, <4>3, <4>4, <4>5
      <4>7. QED
        BY <4>1, <4>6
    <3>4. QED
      BY <1>1, <1>2, <2>1, <3>2, <3>3 DEF OutInv, Failures
  <2>2. CASE pc' = "chain"
    BY <1>1, <1>2, <2>2 DEF OutInv
  <2>3. QED
    BY <1>2, <2>1, <2>2
<1>12. QED
  BY <1>6, <1>8, <1>9, <1>10, <1>11 DEF CallInv

LEMMA ReadSeekStep ==
    ASSUME CallInv, SeekCluster, ~(cluster_pos < 0)
    PROVE  CallInv'
<1>1. RequestInv /\ RangeInv /\ MemberInv /\ ChunkInv /\ OutInv /\ SimpleInv /\ WholeInv
  BY DEF CallInv
<1>2. PICK z \in Nat \ {0} : z = ClusterSize
  BY DiskFacts
<1>3. /\ req' = req /\ i' = i /\ offset' = offset /\ total' = total /\ hops' = hops
      /\ out' = out /\ res' = res /\ pc = "chain" /\ pc' = "stream"
      /\ stream' = First + (offset % z)
      /\ chunk' = Minimum(total, z) /\ left' = chunk'
  BY <1>2 DEF SeekCluster, memberVars, chainVars, First
<1>4. PICK o \in Int : o = offset % z
  <2>1. offset \in Int
    BY <1>1, DiskFacts DEF RangeInv
  <2>2. offset % z \in Int
    BY <2>1, DivMod
  <2>3. QED
    BY <2>2
<1>5. total \in Nat /\ total > 0
  BY <1>1, <1>3, RequestFacts DEF RangeInv, MemberInv
<1>6. chunk' \in 0..z /\ left' \in 0..chunk' /\ left' > 0
  BY <1>3, <1>5 DEF Minimum
<1>7. RequestInv' /\ SimpleInv'
  BY <1>1, <1>3 DEF RequestInv, SimpleInv, Simple
<1>8. RangeInv'
  BY <1>1, <1>2, <1>3, <1>6 DEF RangeInv
<1>9. MemberInv' /\ WholeInv'
  BY <1>1, <1>3 DEF MemberInv, WholeInv, Simple
<1>10. ChunkInv'
  <2>1. stream' \in Int /\ stream' + left' = First + o + chunk'
    BY <1>3, <1>4, <1>6, DiskFacts
  <2>2. \E q \in Nat : chunk' = left' + SectorSize * q
    <3>1. SectorSize * 0 = 0 /\ chunk' = left' + 0
      BY <1>3, <1>6, DiskFacts
    <3>2. QED
      BY <3>1
  <2>3. QED
    BY <1>2, <1>3, <1>4, <1>6, <2>1, <2>2 DEF ChunkInv
<1>11. OutInv'
  <2>1. Len(out) = offset - req.pos /\ out \in Seq(DataBytes)
    BY <1>1, <1>3 DEF OutInv
  <2>2. req.pos \in Nat /\ offset \in Int
    BY <1>1, RequestFacts, DiskFacts DEF RangeInv
  <2>3. Len(out') = offset' - req'.pos + chunk' - left'
    BY <1>3, <1>6, <2>1, <2>2
  <2>4. QED
    BY <1>3, <2>1, <2>3 DEF OutInv
<1>12. QED
  BY <1>7, <1>8, <1>9, <1>10, <1>11 DEF CallInv

\* A negative cluster ends the read, which is not a simple one.
LEMMA ReadErrorStep ==
    ASSUME CallInv, ClusterInv, SeekCluster, cluster_pos < 0
    PROVE  CallInv'
<1>1. RequestInv /\ RangeInv /\ MemberInv /\ ChunkInv /\ OutInv /\ SimpleInv /\ WholeInv
  BY DEF CallInv
<1>2. /\ req' = req /\ i' = i /\ offset' = offset /\ total' = total /\ hops' = hops
      /\ chunk' = chunk /\ left' = left /\ stream' = stream /\ out' = out
      /\ pc = "chain" /\ pc' = "done" /\ res' = cluster_pos
  BY DEF SeekCluster, memberVars, chainVars
<1>3. res' \in Failures /\ ~Simple
  BY <1>2 DEF ClusterInv, Failures
<1>4. ~Simple'
  BY <1>2, <1>3 DEF Simple
<1>5. Len(out) <= req.size * req.nmemb
  <2>1. PICK p \in Nat, s \in Nat \ {0}, a \in Nat, b \in Nat :
            /\ p = req.pos /\ s = req.size /\ a = i * req.size /\ b = req.size * req.nmemb
    BY <1>1, RequestFacts
  <2>2. a + s <= b /\ offset + total = p + a + s /\ total > 0
    BY <1>1, <1>2, <2>1, RequestFacts DEF MemberInv
  <2>3. Len(out) = offset - p
    BY <1>1, <1>2, <2>1 DEF OutInv
  <2>4. offset \in Nat /\ total \in Nat
    BY <1>1, <2>1, DiskFacts DEF RangeInv
  <2>5. p \in Nat /\ s \in Nat /\ a \in Nat /\ b \in Nat
    BY <2>1
  <2>6. Len(out) <= b
    BY <2>2, <2>3, <2>4, <2>5
  <2>7. QED
    BY <2>1, <2>6
<1>6. RequestInv' /\ SimpleInv'
  BY <1>1, <1>2 DEF RequestInv, SimpleInv, Simple
<1>7. RangeInv'
  BY <1>1, <1>2, <1>3 DEF RangeInv
<1>8. MemberInv' /\ WholeInv' /\ ChunkInv'
  BY <1>2 DEF MemberInv, WholeInv, ChunkInv
<1>9. OutInv'
  BY <1>1, <1>2, <1>3, <1>4, <1>5 DEF OutInv
<1>10. QED
  BY <1>6, <1>7, <1>8, <1>9 DEF CallInv

\* The cluster the walk is at: the file's first one, or a word of the disk.
LEMMA ReadClusterStep ==
    ASSUME CallInv, ClusterInv, ReadNext
    PROVE  ClusterInv'
<1>1. req' = req /\ (Simple' <=> Simple)
  BY DEF ReadNext, fat16_read, fat16_get_cluster_for_offset, SeekCluster, diskstreamer_read,
      fat16_read_items_of_directory, memberVars, Simple
<1>2. Chain[1] \in Nat
  BY ReadAssumption
<1>3. CASE fat16_read \/ fat16_read_items_of_directory
  <2>1. \/ cluster_pos' = Chain[1] /\ pc' = "chain"
        \/ cluster_pos' = cluster_pos /\ pc' \in {"done", "member"}
    BY <1>3 DEF fat16_read, fat16_read_items_of_directory, ReadItems
  <2>2. QED
    BY <1>2, <2>1 DEF ClusterInv
<1>4. CASE fat16_get_cluster_for_offset
  <2>1. /\ pc = "chain" /\ hops > 0
        /\ \/ cluster_pos' = cluster_pos /\ pc' = "done"
           \/ cluster_pos' \in Words /\ pc' = "chain"
    BY <1>4 DEF fat16_get_cluster_for_offset
  <2>2. ~Simple
    <3> SUFFICES ASSUME Simple PROVE FALSE
      OBVIOUS
    <3>1. offset \div ClusterSize = 0
      BY <2>1, SimpleFacts
    <3>2. hops <= offset \div ClusterSize
      BY <2>1 DEF CallInv, ChunkInv
    <3>3. QED
      <4>1. PICK f : f = filesize \div ClusterSize
        OBVIOUS
      <4>2. hops \in 0..f
        BY <4>1 DEF CallInv, RangeInv
      <4>3. QED
        BY <2>1, <3>1, <3>2, <4>2
  <2>3. QED
    BY <1>1, <2>1, <2>2, ReadAssumption DEF ClusterInv
<1>5. CASE SeekCluster
  BY <1>5 DEF SeekCluster, chainVars, ClusterInv
<1>6. CASE diskstreamer_read
  <2>1. pc = "stream" /\ pc' \in {"stream", "items"} /\ cluster_pos' = cluster_pos
    BY <1>6 DEF diskstreamer_read, chainVars
  <2>2. QED
    BY <2>1 DEF ClusterInv
<1>7. QED
  BY <1>3, <1>4, <1>5, <1>6 DEF ReadNext

\* The end of fat16_read_items_of_directory.
LEMMA ReadItemsStep ==
    ASSUME CallInv, fat16_read_items_of_directory
    PROVE  CallInv'
<1>1. RequestInv /\ RangeInv /\ MemberInv /\ ChunkInv /\ OutInv /\ SimpleInv /\ WholeInv
  BY DEF CallInv
<1>2. PICK z \in Nat \ {0} : z = ClusterSize
  BY DiskFacts
<1>3. /\ req' = req /\ chunk' = chunk /\ stream' = stream /\ left' = left /\ out' = out
      /\ res' = res /\ pc = "items"
  BY DEF fat16_read_items_of_directory, streamVars
<1>4. PICK p \in Nat, s \in Nat \ {0}, n \in Nat \ {0}, a \in Nat, b \in Nat :
          /\ p = req.pos /\ s = req.size /\ n = req.nmemb /\ a = i * req.size
          /\ b = req.size * req.nmemb
  BY <1>1, RequestFacts
<1>4a. p \in Nat /\ s \in Nat \ {0} /\ n \in Nat \ {0} /\ a \in Nat /\ b \in Nat
      /\ filesize \in Nat \ {0}
  BY <1>4, DiskFacts
<1>5. /\ p + b <= filesize /\ a + s <= b /\ i < n
      /\ p + a <= offset /\ offset + total = p + a + s /\ total > 0
  BY <1>1, <1>3, <1>4, RequestFacts DEF MemberInv
<1>6. offset \in Nat /\ total \in Nat /\ total <= s /\ i \in Nat /\ i <= n /\ chunk \in 0..z /\ left = 0
  BY <1>1, <1>2, <1>3, <1>4, DiskFacts, RequestFacts DEF RangeInv, ChunkInv
<1>7. chunk = Minimum(total, z)
  BY <1>1, <1>2, <1>3 DEF ChunkInv
<1>8. RequestInv' /\ SimpleInv'
  BY <1>1, <1>3 DEF RequestInv, SimpleInv, Simple
<1>9. out \in Seq(DataBytes) /\ Len(out) = offset - p + chunk
  <2>1. out \in Seq(DataBytes) /\ Len(out) = offset - p + chunk - left
    BY <1>1, <1>3, <1>4 DEF OutInv
  <2>2. QED
    BY <1>4, <1>6, <2>1
<1>10. CASE total > chunk
  <2>1. chunk = z
    BY <1>6, <1>7, <1>10 DEF Minimum
  <2>2. /\ offset' = offset + chunk /\ total' = total - chunk /\ i' = i /\ pc' = "chain"
        /\ hops' = (offset + chunk) \div z
    BY <1>2, <1>10 DEF fat16_read_items_of_directory, ReadItems
  <2>3. /\ offset + chunk \in 0..(filesize - 1) /\ offset + chunk \in Nat
        /\ offset + chunk <= filesize /\ total - chunk \in 0..s /\ total - chunk > 0
    BY <1>2, <1>4a, <1>5, <1>6, <1>10
  <2>4. (offset + chunk) \div z \in 0..(filesize \div z) /\ (offset + chunk) \div z \in Int
    <3>1. (offset + chunk) \div z \in 0..(filesize \div z)
      BY <1>2, <1>4a, <2>3, DivMonotone
    <3>2. (offset + chunk) \div z \in Int
      BY <3>1
    <3>3. QED
      BY <3>1, <3>2
  <2>5. RangeInv'
    BY <1>1, <1>2, <1>3, <1>4, <2>2, <2>3, <2>4 DEF RangeInv
  <2>6. MemberInv'
    <3>1. /\ p + a <= offset + chunk /\ (offset + chunk) + (total - chunk) = p + a + s
      BY <1>2, <1>4a, <1>5, <1>6
    <3>2. QED
      BY <1>3, <1>4, <1>5, <2>2, <2>3, <3>1 DEF MemberInv
  <2>7. ChunkInv'
    <3>1. hops' <= offset' \div ClusterSize
      BY <1>2, <2>2, <2>4
    <3>2. QED
      BY <2>2, <3>1 DEF ChunkInv
  <2>8. OutInv'
    <3>1. Len(out) = (offset + chunk) - p
      BY <1>2, <1>4a, <1>6, <1>9
    <3>1a. Len(out') = offset' - req'.pos
      BY <1>3, <1>4, <2>2, <3>1
    <3>2. QED
      BY <1>3, <1>9, <2>2, <3>1a DEF OutInv
  <2>9. WholeInv'
    <3>1. Simple => total <= z
      BY <1>2, <1>3, SimpleFacts
    <3>2. ~Simple
      BY <1>2, <1>6, <1>10, <2>1, <3>1
    <3>3. QED
      BY <1>3, <3>2 DEF WholeInv, Simple
  <2>10. QED
    BY <1>8, <2>5, <2>6, <2>7, <2>8, <2>9 DEF CallInv
<1>11. CASE ~(total > chunk)
  <2>1. chunk = total
    BY <1>2, <1>6, <1>7, <1>11 DEF Minimum
  <2>2. offset' = offset /\ total' = total /\ hops' = hops /\ i' = i + 1 /\ pc' = "member"
    BY <1>11 DEF fat16_read_items_of_directory
  <2>3. i + 1 \in 0..n
    BY <1>4, <1>5, <1>6
  <2>4. RangeInv'
    BY <1>1, <1>2, <1>3, <1>4, <2>2, <2>3 DEF RangeInv
  <2>5. MemberInv' /\ ChunkInv' /\ WholeInv'
    BY <2>2 DEF MemberInv, ChunkInv, WholeInv
  <2>6. OutInv'
    <3>1. (i + 1) * s = a + s
      BY <1>1, <1>4, RequestFacts
    <3>2. Len(out) = a + s
      BY <1>4a, <1>5, <1>6, <1>9, <2>1
    <3>3. QED
      BY <1>3, <1>4, <1>9, <2>2, <3>1, <3>2 DEF OutInv
  <2>7. QED
    BY <1>8, <2>4, <2>5, <2>6 DEF CallInv
<1>12. QED
  BY <1>10, <1>11

(***************************************************************************)
(* One call of diskstreamer_read.  It is at the beginning of a sector, or  *)
(* it is the first of the member; in a simple read the bytes it copies are *)
(* therefore in the sector it has read.                                    *)
(***************************************************************************)
LEMMA WithinSector ==
    ASSUME CallInv, pc = "stream", Simple
    PROVE  /\ stream % SectorSize \in Int
           /\ (stream % SectorSize) + Minimum(left, SectorSize) <= SectorSize
           /\ stream = First + req.pos + Len(out)
<1>1. RequestInv /\ RangeInv /\ MemberInv /\ ChunkInv /\ OutInv /\ SimpleInv /\ WholeInv
  BY DEF CallInv
<1>2. PICK p \in Nat, s \in Nat \ {0}, n \in Nat \ {0}, a \in Nat :
          /\ p = req.pos /\ s = req.size /\ n = req.nmemb /\ a = i * req.size
  BY <1>1, RequestFacts
<1>2a. p \in Nat /\ s \in Nat \ {0} /\ n \in Nat \ {0} /\ a \in Nat
  BY <1>2
<1>3. PICK z \in Nat \ {0} : z = ClusterSize
  BY DiskFacts
<1>4. SectorSize \in Nat \ {0} /\ First \in Int
  BY DiskFacts
<1>5. offset % z = offset /\ total <= z /\ offset < z
  BY <1>3, SimpleFacts
<1>6. /\ offset \in Nat /\ total \in Nat /\ left \in Nat /\ left > 0 /\ chunk \in Nat
      /\ left <= chunk
  BY <1>1, <1>2, <1>3, DiskFacts DEF RangeInv, ChunkInv
<1>7. i < n /\ offset + total = p + a + s /\ total = s
  BY <1>1, <1>2, RequestFacts DEF MemberInv, WholeInv
<1>8. chunk = total
  BY <1>1, <1>3, <1>5, <1>6 DEF ChunkInv, Minimum
<1>9. offset = p + a /\ chunk = s
  BY <1>2a, <1>6, <1>7, <1>8
<1>10. stream \in Int /\ stream + left = First + offset + chunk
  BY <1>1, <1>3, <1>5 DEF ChunkInv
<1>11. Len(out) = offset - p + chunk - left
  BY <1>1, <1>2 DEF OutInv
<1>12. stream = First + p + Len(out)
  BY <1>2a, <1>4, <1>6, <1>10, <1>11
<1>13. PICK q \in Nat : chunk = left + SectorSize * q
  BY <1>1 DEF ChunkInv
<1>14. PICK g \in Int : First = SectorSize * g
  BY DiskFacts
<1>15. PICK v \in Int, r \in 0..(SectorSize - 1) :
           offset = SectorSize * v + r /\ r = offset % SectorSize
  <2>1. offset \in Int
    BY <1>6
  <2>2. /\ offset \div SectorSize \in Int /\ offset % SectorSize \in 0..(SectorSize - 1)
        /\ offset = SectorSize * (offset \div SectorSize) + (offset % SectorSize)
    BY <1>4, <2>1, DivMod
  <2>3. QED
    BY <2>2
<1>16. stream = SectorSize * (g + v + q) + r /\ g + v + q \in Int
  <2>1. SectorSize * (g + v) = SectorSize * g + SectorSize * v /\ g + v \in Int
    BY <1>4, <1>14, <1>15, MulLess
  <2>2. SectorSize * ((g + v) + q) = SectorSize * (g + v) + SectorSize * q
    BY <1>4, <1>13, <2>1, MulLess
  <2>3. SectorSize * g \in Int /\ SectorSize * v \in Int /\ SectorSize * q \in Int
    BY <1>4, <1>13, <1>14, <1>15
  <2>4. g + v + q = (g + v) + q /\ g + v + q \in Int
    BY <1>13, <2>1
  <2>5. PICK x \in Int, y \in Int, w \in Int :
            x = SectorSize * g /\ y = SectorSize * v /\ w = SectorSize * q
    BY <2>3
  <2>5a. /\ x \in Int /\ y \in Int /\ w \in Int
         /\ r \in Int /\ left \in Int /\ chunk \in Int /\ offset \in Int /\ stream \in Int
    BY <1>6, <1>10, <1>15, <2>5
  <2>5b. stream + left = x + offset + chunk /\ chunk = left + w /\ offset = y + r
    BY <1>10, <1>13, <1>14, <1>15, <2>5, Zenon
  <2>5c. stream = x + y + w + r
    BY <2>5a, <2>5b
  <2>6. stream = SectorSize * g + SectorSize * v + SectorSize * q + r
    BY <2>5, <2>5c, Zenon
  <2>7. QED
    BY <2>1, <2>2, <2>4, <2>6
<1>17. stream % SectorSize = r
  BY <1>4, <1>15, <1>16, DivModUnique
<1>18. r = 0 \/ r + s <= SectorSize
  <2>1. i \in 0..(n - 1)
    BY <1>1, <1>2a, <1>7, RequestFacts
  <2>2. \/ (req.pos + i * req.size) % SectorSize = 0
        \/ ((req.pos + i * req.size) % SectorSize) + req.size <= SectorSize
    BY <1>2, <2>1 DEF Simple
  <2>3. (req.pos + i * req.size) % SectorSize = r
    BY <1>2, <1>9, <1>15
  <2>4. QED
    BY <1>2, <2>2, <2>3
<1>19. r + Minimum(left, SectorSize) <= SectorSize
  <2>1. Minimum(left, SectorSize) \in Int /\ Minimum(left, SectorSize) <= SectorSize
        /\ Minimum(left, SectorSize) <= left
    BY <1>4, <1>6 DEF Minimum
  <2>2. left <= s
    BY <1>6, <1>9
  <2>3. QED
    BY <1>2a, <1>4, <1>6, <1>15, <1>18, <2>1, <2>2
<1>20. QED
  BY <1>2, <1>12, <1>15, <1>17, <1>19

LEMMA ReadStreamStep ==
    ASSUME CallInv, diskstreamer_read
    PROVE  CallInv'
<1>1. RequestInv /\ RangeInv /\ MemberInv /\ ChunkInv /\ OutInv /\ SimpleInv /\ WholeInv
  BY DEF CallInv
<1>2. PICK m, f : m = Minimum(left, SectorSize) /\ f = stream % SectorSize
  OBVIOUS
<1> DEFINE new == [b \in 1..m |-> IF f + b <= SectorSize THEN stream + b - 1 ELSE Stack]
<1>3. /\ req' = req /\ i' = i /\ offset' = offset /\ total' = total /\ chunk' = chunk
      /\ hops' = hops /\ res' = res /\ pc = "stream"
      /\ out' = out \o new /\ stream' = stream + m /\ left' = left - m
      /\ pc' = IF left > SectorSize THEN "stream" ELSE "items"
  BY <1>2 DEF diskstreamer_read, memberVars, chainVars
<1>4. PICK z \in Nat \ {0} : z = ClusterSize
  BY DiskFacts
<1>5. SectorSize \in Nat \ {0} /\ First \in Int /\ DataStart \in Nat /\ First >= DataStart
  BY DiskFacts
<1>6. /\ left \in Nat /\ left > 0 /\ chunk \in Nat /\ left <= chunk /\ offset \in Nat /\ req.pos \in Nat
  BY <1>1, <1>3, <1>4, DiskFacts, RequestFacts DEF RangeInv, ChunkInv
<1>7. PICK o \in Nat : o = offset % z
  <2>1. offset \in Int
    BY <1>6
  <2>2. offset % z \in 0..(z - 1)
    BY <1>4, <2>1, DivMod
  <2>3. QED
    BY <2>2
<1>8. stream \in Int /\ stream + left = First + o + chunk /\ chunk = Minimum(total, z)
  BY <1>1, <1>3, <1>4, <1>7 DEF ChunkInv
<1>9. m \in Nat /\ m > 0 /\ m <= left /\ (left > SectorSize => m = SectorSize)
      /\ (~(left > SectorSize) => m = left)
  BY <1>2, <1>5, <1>6 DEF Minimum
<1>10. f \in Int
  <2>1. stream % SectorSize \in 0..(SectorSize - 1)
    BY <1>5, <1>8, DivMod
  <2>2. QED
    BY <1>2, <2>1
<1>11. new \in Seq(DataBytes) /\ Len(new) = m
  <2>1. stream >= DataStart
    BY <1>5, <1>6, <1>7, <1>8
  <2>2. ASSUME NEW b \in 1..m PROVE stream + b - 1 \in DataBytes
    BY <1>5, <1>8, <2>1 DEF DataBytes
  <2>3. Stack \in DataBytes
    BY DEF DataBytes
  <2>4. new \in [1..m -> DataBytes]
    BY <2>2, <2>3
  <2> HIDE DEF new
  <2>5. QED
    BY <1>9, <2>4
<1>12. out \in Seq(DataBytes) /\ Len(out) = offset - req.pos + chunk - left
  BY <1>1, <1>3 DEF OutInv
<1>13. /\ out' \in Seq(DataBytes) /\ Len(out') = Len(out) + m
       /\ \A b \in 1..Len(out) : out'[b] = out[b]
       /\ \A b \in (Len(out) + 1)..Len(out') : out'[b] = new[b - Len(out)]
  <2> HIDE DEF new
  <2>1. PICK w \in Seq(DataBytes) : w = new /\ Len(w) = m
    BY <1>11
  <2>2. out' = out \o w
    BY <1>3, <2>1
  <2>3. out \o w \in Seq(DataBytes) /\ Len(out \o w) = Len(out) + Len(w)
    <3>1. out \in Seq(DataBytes) /\ w \in Seq(DataBytes)
      BY <1>12, <2>1
    <3>2. out \o w \in Seq(DataBytes)
      BY <3>1
    <3>3. Len(out \o w) = Len(out) + Len(w)
      BY <3>1
    <3>4. QED
      BY <3>2, <3>3
  <2>4. /\ \A b \in 1..Len(out) : (out \o w)[b] = out[b]
        /\ \A b \in (Len(out) + 1)..(Len(out) + Len(w)) : (out \o w)[b] = w[b - Len(out)]
    BY <1>12, <2>1
  <2>5. QED
    BY <2>1, <2>2, <2>3, <2>4
<1>14. RequestInv' /\ MemberInv' /\ WholeInv'
  BY <1>1, <1>3 DEF RequestInv, MemberInv, WholeInv, Simple
<1>15. left' \in 0..chunk /\ stream' \in Int /\ stream' + left' = First + o + chunk
  BY <1>3, <1>5, <1>6, <1>7, <1>8, <1>9
<1>16. RangeInv'
  BY <1>1, <1>3, <1>4, <1>15 DEF RangeInv
<1>17. ChunkInv'
  <2>1. CASE left > SectorSize
    <3>1. PICK q \in Nat : chunk = left + SectorSize * q
      BY <1>1, <1>3 DEF ChunkInv
    <3>2. SectorSize * (q + 1) = SectorSize * q + SectorSize
      BY <1>5, <3>1, MulLess
    <3>3. PICK w \in Int : w = SectorSize * q
      BY <1>5, <3>1
    <3>4. w \in Int /\ chunk = left + w /\ SectorSize * (q + 1) = w + SectorSize
      BY <3>1, <3>2, <3>3
    <3>5. left' = left - SectorSize /\ left' > 0
      BY <1>3, <1>5, <1>6, <1>9, <2>1
    <3>6. chunk = left' + (w + SectorSize)
      BY <1>5, <1>6, <3>4, <3>5
    <3>7. chunk = left' + SectorSize * (q + 1) /\ q + 1 \in Nat
      BY <3>1, <3>4, <3>6
    <3>8. pc' = "stream"
      BY <1>3, <2>1
    <3>9. QED
      BY <1>3, <1>4, <1>7, <1>8, <1>15, <3>5, <3>7, <3>8 DEF ChunkInv
  <2>2. CASE ~(left > SectorSize)
    <3>1. pc' = "items" /\ left' = 0
      BY <1>3, <1>6, <1>9, <2>2
    <3>2. QED
      BY <1>3, <1>4, <1>7, <1>8, <1>15, <3>1 DEF ChunkInv
  <2>3. QED
    BY <2>1, <2>2
<1>18. OutInv'
  <2>1. Len(out') = offset - req.pos + chunk - left'
    <3>1. Len(out') = Len(out) + m
      BY <1>13
    <3>2. left' = left - m /\ Len(out) = offset - req.pos + chunk - left
      BY <1>3, <1>12
    <3>3. QED
      BY <1>6, <1>9, <3>1, <3>2
  <2>2. QED
    BY <1>3, <1>13, <2>1 DEF OutInv
<1>19. SimpleInv'
  <2> SUFFICES ASSUME Simple, NEW b \in 1..Len(out')
               PROVE  out'[b] = First + req.pos + b - 1
    BY <1>3 DEF SimpleInv, Simple
  <2>1. Len(out) \in Nat
    BY <1>12
  <2>2. CASE b <= Len(out)
    <3>1. b \in 1..Len(out)
      BY <2>1, <2>2
    <3>2. QED
      BY <1>1, <1>13, <3>1 DEF SimpleInv
  <2>3. CASE b > Len(out)
    <3>1. b \in (Len(out) + 1)..Len(out') /\ b - Len(out) \in 1..m
      BY <1>9, <1>13, <2>1, <2>3
    <3>2. f + m <= SectorSize /\ stream = First + req.pos + Len(out)
      BY <1>2, <1>3, WithinSector
    <3>3. f + (b - Len(out)) <= SectorSize
      BY <1>5, <1>9, <1>10, <2>1, <3>1, <3>2
    <3>4. out'[b] = new[b - Len(out)] /\ new[b - Len(out)] = stream + (b - Len(out)) - 1
      BY <1>13, <3>1, <3>3
    <3>5. stream + (b - Len(out)) - 1 = First + req.pos + b - 1
      BY <1>5, <1>6, <2>1, <3>1, <3>2
    <3>6. QED
      BY <3>4, <3>5
  <2>4. QED
    BY <2>1, <2>2, <2>3
<1>20. QED
  BY <1>14, <1>16, <1>17, <1>18, <1>19 DEF CallInv

LEMMA ReadInvInit ==
    ASSUME ReadInit
    PROVE  CallInv
<1>1. /\ req \in [pos : 0..(filesize - 1), size : 1..MaxSize, nmemb : 1..MaxMembers]
      /\ req.pos + req.size * req.nmemb <= filesize
      /\ pc = "member" /\ i = 0 /\ offset = 0 /\ total = 0 /\ chunk = 0 /\ hops = 0
      /\ left = 0 /\ out = <<>> /\ res = 0
  BY DEF ReadInit
<1>2. PICK z \in Nat \ {0} : z = ClusterSize
  BY DiskFacts
<1>3. filesize \in Nat \ {0} /\ MaxSize \in Nat /\ MaxMembers \in Nat
  BY DiskFacts
<1>4. req.pos \in Nat /\ req.size \in Nat /\ req.nmemb \in Nat
  BY <1>1, <1>3
<1>5. RequestInv
  BY <1>1, <1>3, <1>4 DEF RequestInv
<1>6. RangeInv
  <2>1. 0 \in 0..(filesize \div z)
    <3>1. filesize \div z \in 0..(filesize \div z)
      <4>1. filesize \in Nat /\ filesize <= filesize /\ z \in Nat \ {0}
        BY <1>2, <1>3
      <4>2. QED
        BY <4>1, DivMonotone
    <3>2. QED
      BY <3>1
  <2>2. /\ 0 \in 0..(filesize - 1) /\ 0 \in 0..req.size /\ 0 \in 0..req.nmemb /\ 0 \in 0..z
        /\ 0 \in 0..0 /\ 0 \in 0..MaxMembers
    BY <1>2, <1>3, <1>4
  <2>3. QED
    BY <1>1, <1>2, <2>1, <2>2 DEF RangeInv
<1>7. MemberInv /\ ChunkInv /\ WholeInv
  BY <1>1 DEF MemberInv, ChunkInv, WholeInv
<1>8. OutInv /\ SimpleInv
  <2>1. out \in Seq(DataBytes) /\ Len(out) = 0 /\ 0 * req.size = 0
    BY <1>1, <1>4
  <2>2. QED
    BY <1>1, <2>1 DEF OutInv, SimpleInv
<1>9. QED
  BY <1>5, <1>6, <1>7, <1>8 DEF CallInv

LEMMA ReadInvariant == ReadSpec => []RInv
<1>1. ReadInit => RInv
  BY ReadInvInit DEF ReadInit, RInv, ClusterInv
<1>2. RInv /\ [ReadNext]_readVars => RInv'
  <2> SUFFICES ASSUME CallInv, ClusterInv, [ReadNext]_readVars PROVE CallInv' /\ ClusterInv'
    BY DEF RInv
  <2>1. CASE ReadNext
    <3>1. CallInv'
      BY <2>1, ReadMemberStep, ReadChainStep, ReadSeekStep, ReadErrorStep, ReadStreamStep,
          ReadItemsStep DEF ReadNext
    <3>2. QED
      BY <2>1, <3>1, ReadClusterStep
  <2>2. CASE UNCHANGED readVars
    BY <2>2 DEF readVars, memberVars, chainVars, streamVars, CallInv, RequestInv, RangeInv,
        MemberInv, ChunkInv, OutInv, SimpleInv, WholeInv, Simple, ClusterInv
  <2>3. QED
    BY <2>1, <2>2
<1>3. QED
  BY <1>1, <1>2, PTL DEF ReadSpec

\* No more bytes are copied than were asked for, and the offset of a read stays
\* inside the file (fat16_read, fat16_read_items_of_directory).
THEOREM ReadTypeCorrect == ReadSpec => []ReadTypeOK
<1>1. RInv => ReadTypeOK
  <2> SUFFICES ASSUME RInv PROVE ReadTypeOK
    OBVIOUS
  <2>1. RequestInv /\ RangeInv /\ MemberInv /\ ChunkInv /\ OutInv
    BY DEF RInv, CallInv
  <2>2. \A b \in DOMAIN out : out[b] = Stack \/ out[b] >= DataStart
    BY <2>1 DEF OutInv, DataBytes
  <2>3. Len(out) <= req.size * req.nmemb
    <3>1. PICK p \in Nat, s \in Nat, a \in Nat, b \in Nat :
              /\ p = req.pos /\ s = req.size /\ a = i * req.size /\ b = req.size * req.nmemb
      BY <2>1, RequestFacts
    <3>2. p \in Nat /\ s \in Nat /\ a \in Nat /\ b \in Nat /\ a <= b
      BY <2>1, <3>1, RequestFacts
    <3>3. CASE pc = "member"
      BY <2>1, <3>1, <3>2, <3>3 DEF OutInv
    <3>4. CASE pc \in {"chain", "stream", "items"}
      <4>1. a + s <= b /\ offset + total = p + a + s /\ total > 0
        BY <2>1, <3>1, <3>4, RequestFacts DEF MemberInv
      <4>2. offset \in Nat /\ total \in Nat /\ left \in Nat /\ chunk \in Nat
        BY <2>1, <3>1, DiskFacts DEF RangeInv
      <4>3. pc \in {"stream", "items"} => chunk <= total
        <5>1. PICK z \in Nat \ {0} : z = ClusterSize
          BY DiskFacts
        <5>2. QED
          BY <2>1, <4>2, <5>1 DEF ChunkInv, Minimum
      <4>4. /\ pc = "chain" => Len(out) = offset - p
            /\ pc \in {"stream", "items"} => Len(out) = offset - p + chunk - left
        BY <2>1, <3>1 DEF OutInv
      <4>5. Len(out) <= b
        BY <3>2, <3>4, <4>1, <4>2, <4>3, <4>4
      <4>6. QED
        BY <3>1, <4>5
    <3>5. CASE pc = "done"
      <4>1. Len(out) = b \/ Len(out) <= b
        BY <2>1, <3>1, <3>5 DEF OutInv
      <4>2. QED
        BY <3>1, <3>2, <4>1
    <3>6. QED
      BY <2>1, <3>3, <3>4, <3>5 DEF RangeInv
  <2>4. QED
    BY <2>1, <2>2, <2>3 DEF ReadTypeOK, RInv, RangeInv, ClusterInv, Failures, EIO
<1>2. QED
  BY <1>1, ReadInvariant, PTL

\* A simple read succeeds and copies exactly the bytes of the file that were
\* asked for, for every size of sectors and clusters, every file and every
\* request (fat16_read, diskstreamer_read).
THEOREM SimpleReadsExact == ReadSpec => []SimpleReadExact
<1>1. RInv => SimpleReadExact
  <2> SUFFICES ASSUME RInv PROVE SimpleReadExact
    OBVIOUS
  <2>1. RequestInv /\ RangeInv /\ MemberInv /\ ChunkInv /\ OutInv /\ SimpleInv
    BY DEF RInv, CallInv
  <2>2. pc \in {"stream", "items"} =>
            stream + left = DataStart + (Chain[1] - 2) * ClusterSize
                                + (offset % ClusterSize) + chunk
    BY <2>1 DEF ChunkInv, First
  <2>3. ASSUME pc = "done", Simple PROVE res = req.nmemb /\ out = Wanted
    <3>1. res = req.nmemb /\ Len(out) = req.size * req.nmemb /\ out \in Seq(DataBytes)
      BY <2>1, <2>3 DEF OutInv
    <3>2. PICK p \in Nat, b \in Nat, z \in Nat \ {0} :
              p = req.pos /\ b = req.size * req.nmemb /\ z = ClusterSize
      BY <2>1, RequestFacts, DiskFacts
    <3>3. p \in Nat /\ b \in Nat /\ z \in Nat \ {0} /\ p + b <= z
      BY <2>3, <3>2 DEF Simple
    <3>4. ASSUME NEW q \in 1..b PROVE out[q] = ByteOfFile(p + q - 1)
      <4>1. p + q - 1 \in 0..(z - 1)
        BY <3>3
      <4>2. PICK x \in Int : x = p + q - 1
        BY <4>1
      <4>3. x \in 0..(z - 1)
        BY <4>1, <4>2
      <4>4. x \div z = 0 /\ x % z = x
        BY <3>3, <4>3, ModSmall
      <4>5. ByteOfFile(x) = First + x
        <5>1. ByteOfFile(x) = DataStart + (Chain[0 + 1] - 2) * ClusterSize + x
          BY <3>2, <4>4 DEF ByteOfFile
        <5>2. 0 + 1 = 1
          OBVIOUS
        <5>3. QED
          BY <5>1, <5>2 DEF First
      <4>6. out[q] = First + p + q - 1
        BY <2>1, <2>3, <3>1, <3>2 DEF SimpleInv
      <4>7. First + p + q - 1 = First + x
        BY <3>3, <4>2, DiskFacts
      <4>8. QED
        BY <4>2, <4>5, <4>6, <4>7
    <3>5. Wanted = [q \in 1..b |-> ByteOfFile(p + q - 1)]
      BY <3>2 DEF Wanted
    <3>6. out = [q \in 1..b |-> out[q]]
      BY <3>1, <3>2
    <3>7. QED
      BY <3>1, <3>4, <3>5, <3>6
  <2>4. QED
    BY <2>2, <2>3 DEF SimpleReadExact
<1>2. QED
  BY <1>1, ReadInvariant, PTL
=============================================================================

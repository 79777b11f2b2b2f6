----------------------------- MODULE PagingProofs -----------------------------
(***************************************************************************)
(* Theorems about the page tables, for tables and pages of any size.       *)
(***************************************************************************)
EXTENDS Paging, NatLemmas, FiniteSetTheorems

-----------------------------------------------------------------------------
(***************************************************************************)
(* Addresses, pages and indices.                                           *)
(***************************************************************************)
Count == Entries * Entries

LEMMA Constants ==
    /\ Entries \in Nat \ {0} /\ PageSize \in Nat \ {0} /\ PageSize >= 8
    /\ Count \in Nat \ {0} /\ Space = PageSize * Count /\ Space \in Nat \ {0}
    /\ Pages = 0..(Count - 1) /\ Entries * PageSize \in Nat \ {0}
<1>1. Entries \in Nat \ {0} /\ PageSize \in Nat /\ PageSize >= 8
  BY PagingAssumption
<1>2. ASSUME NEW a \in Nat \ {0}, NEW b \in Nat \ {0} PROVE a * b \in Nat \ {0}
  OBVIOUS
<1>3. Count \in Nat \ {0} /\ Entries * PageSize \in Nat \ {0}
  BY <1>1, <1>2 DEF Count
<1>4. Space = PageSize * Count
  BY <1>1, <1>3 DEF Space, Count
<1>5. PageSize * Count \in Nat \ {0}
  BY <1>1, <1>2, <1>3
<1>6. QED
  BY <1>1, <1>3, <1>4, <1>5 DEF Pages, Count

\* Page p begins at p * PageSize.
LEMMA PageAddress ==
    ASSUME NEW p \in Pages
    PROVE  /\ p \in Nat /\ p * PageSize \in 0..(Space - 1) /\ p * PageSize + PageSize <= Space
           /\ paging_is_aligned(p * PageSize)
<1>1. p \in Nat /\ p + 1 <= Count /\ PageSize \in Nat \ {0} /\ Count \in Nat
  BY Constants
<1>2. PageSize * (p + 1) = PageSize * p + PageSize /\ PageSize * p \in Int /\ p * PageSize = PageSize * p
  BY <1>1, MulLess
<1>3. ~(PageSize * Count < PageSize * (p + 1))
  BY <1>1, MulLess
<1>4. PageSize * p >= 0
  <2>1. ~(PageSize * p < PageSize * 0)
    BY <1>1, MulLess
  <2>2. QED
    BY <1>1, <1>2, <2>1
<1>5. (PageSize * p + 0) % PageSize = 0
  BY <1>1, DivModUnique
<1>6. QED
  BY <1>1, <1>2, <1>3, <1>4, <1>5, Constants DEF paging_is_aligned

\* An address is in a page, with an offset.
LEMMA AddressPage ==
    ASSUME NEW v \in 0..(Space - 1)
    PROVE  /\ v \div PageSize \in Pages /\ v % PageSize \in 0..(PageSize - 1)
           /\ v = (v \div PageSize) * PageSize + (v % PageSize)
           /\ paging_align_to_lower_page(v) = (v \div PageSize) * PageSize
<1> DEFINE p == v \div PageSize
           r == v % PageSize
<1>1. p \in Int /\ r \in 0..(PageSize - 1) /\ v = PageSize * p + r
  BY Constants, DivMod
<1>2. PageSize * p \in Int /\ PageSize * p = p * PageSize /\ PageSize * (p + 1) = PageSize * p + PageSize
  BY <1>1, Constants, MulLess
<1> HIDE DEF p, r
<1>3. p >= 0
  <2>1. PageSize * 0 < PageSize * (p + 1)
    BY <1>1, <1>2, Constants
  <2>2. 0 < p + 1
    BY <1>1, <2>1, Constants, MulLess
  <2>3. QED
    BY <1>1, <2>2
<1>4. p < Count
  <2>1. PageSize * p < PageSize * Count
    BY <1>1, <1>2, Constants
  <2>2. QED
    BY <1>1, <2>1, Constants, MulLess
<1>5. p \in Pages
  BY <1>1, <1>3, <1>4, Constants
<1>6. paging_align_to_lower_page(v) = p * PageSize
  BY <1>1, <1>2 DEF paging_align_to_lower_page, r
<1>7. QED
  BY <1>1, <1>2, <1>5, <1>6 DEF p, r

\* Where the word of page p is.
LEMMA PageIndex ==
    ASSUME NEW p \in Pages
    PROVE  /\ paging_get_index(p * PageSize) = [dir |-> p \div Entries, table |-> p % Entries]
           /\ p \div Entries \in Indices /\ p % Entries \in Indices
           /\ p = Entries * (p \div Entries) + (p % Entries)
<1> DEFINE d == p \div Entries
           x == p % Entries
           E == Entries
           P == PageSize
<1>1. E \in Nat \ {0} /\ P \in Nat \ {0} /\ p \in Nat /\ p < Count
  BY Constants
<1>2. d \in Int /\ x \in 0..(E - 1) /\ p = E * d + x
  BY <1>1, DivMod
<1>3. d \in Indices /\ x \in Indices
  <2> HIDE DEF d, x
  <2>1. E * d < E * E /\ E * (-1) < E * d
    BY <1>1, <1>2 DEF Count
  <2>2. d < E /\ -1 < d
    BY <1>1, <1>2, <2>1, MulLess
  <2>3. QED
    BY <1>1, <1>2, <2>2 DEF Indices
<1>4. p * P = (E * P) * d + x * P
  <2> HIDE DEF d, x, E, P
  <2>1. QED
    BY <1>1, <1>2
<1>5. x * P \in 0..(E * P - 1)
  <2> HIDE DEF d, x, E, P
  <2>1. P * x < P * E /\ P * (-1) < P * x
    BY <1>1, <1>2, MulLess
  <2>2. P * x >= 0
    BY <1>1, <1>2
  <2>3. QED
    BY <1>1, <1>2, <2>1, <2>2
<1>6. (p * P) \div (E * P) = d /\ (p * P) % (E * P) = x * P
  <2>1. E * P \in Nat \ {0}
    BY Constants
  <2> HIDE DEF d, x, E, P
  <2>2. QED
    BY <1>2, <1>4, <1>5, <2>1, DivModUnique
<1>7. (x * P) \div P = x
  <2> HIDE DEF d, x, E, P
  <2>1. (P * x + 0) \div P = x
    BY <1>1, <1>2, DivModUnique
  <2>2. x * P = P * x + 0
    BY <1>1, <1>2
  <2>3. QED
    BY <2>1, <2>2
<1>8. QED
  BY <1>2, <1>3, <1>6, <1>7 DEF paging_get_index

\* The same, without the arithmetic.
DirOf(p) == p \div Entries
SlotOf(p) == p % Entries

LEMMA PageSlot ==
    ASSUME NEW p \in Pages
    PROVE  /\ paging_get_index(p * PageSize).dir = DirOf(p) /\ DirOf(p) \in Indices
           /\ paging_get_index(p * PageSize).table = SlotOf(p) /\ SlotOf(p) \in Indices
<1>1. /\ paging_get_index(p * PageSize) = [dir |-> DirOf(p), table |-> SlotOf(p)]
      /\ DirOf(p) \in Indices /\ SlotOf(p) \in Indices
  BY PageIndex, Zenon DEF DirOf, SlotOf
<1>2. QED
  BY <1>1

LEMMA SameSlot ==
    ASSUME NEW p \in Pages, NEW q \in Pages, DirOf(p) = DirOf(q), SlotOf(p) = SlotOf(q)
    PROVE  p = q
<1>1. p = Entries * DirOf(p) + SlotOf(p) /\ q = Entries * DirOf(q) + SlotOf(q)
  BY PageIndex, Zenon DEF DirOf, SlotOf
<1>2. QED
  BY <1>1, Zenon

-----------------------------------------------------------------------------
(***************************************************************************)
(* Words, and the word of a page.                                          *)
(***************************************************************************)
PageWords == {p * PageSize + f : p \in Pages, f \in AllFlags}

LEMMA FlagsSmall ==
    /\ AllFlags \subseteq 0..7 /\ 7 \in AllFlags
    /\ \A f \in NewFlags : f \in AllFlags /\ f \in 0..7
    /\ \A f \in Flags : f \in AllFlags /\ f \in 0..7
    /\ \A f \in NewFlags : f + (IF HasFlag(f, PAGING_IS_WRITABLE) THEN 0 ELSE PAGING_IS_WRITABLE) \in 0..7
<1>1. NewFlags \subseteq 0..7 /\ Flags \subseteq 0..7
  BY PagingAssumption
<1>2. AllFlags = NewFlags \cup Flags \cup {7}
  BY DEF AllFlags, PAGING_IS_PRESENT, PAGING_IS_WRITABLE, PAGING_ACCESS_FROM_ALL
<1>3. \A f \in 0..7 : f + (IF HasFlag(f, PAGING_IS_WRITABLE) THEN 0 ELSE PAGING_IS_WRITABLE) \in 0..7
  <2> SUFFICES ASSUME NEW f \in 0..7
               PROVE  f + (IF (f \div 2) % 2 = 1 THEN 0 ELSE 2) \in 0..7
    BY DEF HasFlag, PAGING_IS_WRITABLE
  <2>1. f \in {0, 1, 2, 3, 4, 5, 6, 7}
    OBVIOUS
  <2>2. (6 \div 2) % 2 = 1 /\ (7 \div 2) % 2 = 1
    OBVIOUS
  <2>3. QED
    BY <2>1, <2>2
<1>4. QED
  BY <1>1, <1>2, <1>3

\* The flags do not reach into the frame.
LEMMA FrameOf ==
    ASSUME NEW p \in Pages, NEW f \in 0..7
    PROVE  Frame(p * PageSize + f) = p * PageSize /\ p * PageSize + f \in 0..(Space - 1)
<1>1. /\ p \in Nat /\ p * PageSize \in Nat /\ p * PageSize + PageSize <= Space
      /\ PageSize \in Nat \ {0} /\ PageSize >= 8 /\ Space \in Nat
  BY Constants, PageAddress
<1>2. f \in 0..(PageSize - 1)
  BY <1>1
<1>3. (PageSize * p + f) % PageSize = f
  BY <1>1, <1>2, DivModUnique
<1>4. PageSize * p + f = p * PageSize + f
  BY <1>1
<1>5. Frame(p * PageSize + f) = p * PageSize
  BY <1>1, <1>3, <1>4 DEF Frame
<1>6. QED
  BY <1>1, <1>2, <1>5

LEMMA WordsTyped == PageWords \subseteq 0..(Space - 1)
BY FlagsSmall, FrameOf DEF PageWords

LEMMA HeapTyped ==
    \A a \in HeapPages : /\ a \in 0..(Space - 1) /\ a \div PageSize \in Pages /\ paging_is_aligned(a)
                         /\ a = (a \div PageSize) * PageSize
<1> SUFFICES ASSUME NEW a \in HeapPages
             PROVE  /\ a \in 0..(Space - 1) /\ a \div PageSize \in Pages /\ paging_is_aligned(a)
                    /\ a = (a \div PageSize) * PageSize
  OBVIOUS
<1>1. PICK p \in Pages : a = p * PageSize
  BY PagingAssumption
<1>2. a \in 0..(Space - 1) /\ paging_is_aligned(a) /\ p \in Nat
  BY <1>1, PageAddress
<1>3. (PageSize * p + 0) \div PageSize = p
  BY <1>2, Constants, DivModUnique
<1>4. PageSize * p + 0 = p * PageSize
  BY <1>2, Constants
<1>5. QED
  BY <1>1, <1>2, <1>3, <1>4

\* The word of page q of chunk d in tables t.
Get(t, d, q) == t[Frame(directory[d][DirOf(q)])][SlotOf(q)]

LEMMA GetPage ==
    ASSUME NEW c, NEW p \in Pages
    PROVE  paging_get(c, p * PageSize) = Get(tables, c, p)
BY PageSlot DEF paging_get, TableOf, Get

LEMMA GetTranslation ==
    ASSUME NEW c
    PROVE  Translation(c) = [p \in Pages |-> Get(tables, c, p)]
BY GetPage DEF Translation

TableSet == [DOMAIN tables -> [Indices -> PageWords]]

\* Setting the word of one page changes the word of that page only.
LEMMA SetPage ==
    ASSUME TablesExact, NEW t \in TableSet, NEW c \in DOMAIN directory, NEW p \in Pages,
           NEW w \in PageWords
    PROVE  LET n == paging_set(t, c, p * PageSize, w)
           IN  /\ n \in TableSet
               /\ \A d \in DOMAIN directory, q \in Pages :
                     Get(n, d, q) = IF d = c /\ q = p THEN w ELSE Get(t, d, q)
<1> DEFINE a == Frame(directory[c][DirOf(p)])
           x == SlotOf(p)
           n == [t EXCEPT ![a][x] = w]
<1>1. paging_set(t, c, p * PageSize, w) = n
  BY PageAddress, PageSlot DEF paging_set, TableOf
<1>2. a \in DOMAIN tables /\ x \in Indices
  BY PageSlot DEF TablesExact
<1>3. n \in TableSet
  <2> HIDE DEF a, x
  <2>1. QED
    BY <1>2 DEF TableSet
<1>4. ASSUME NEW d \in DOMAIN directory, NEW q \in Pages
      PROVE  Get(n, d, q) = IF d = c /\ q = p THEN w ELSE Get(t, d, q)
  <2> DEFINE b == Frame(directory[d][DirOf(q)])
             y == SlotOf(q)
  <2>1. b \in DOMAIN tables /\ y \in Indices
    BY PageSlot DEF TablesExact
  <2>2. b = a /\ y = x <=> d = c /\ q = p
    <3>1. ASSUME b = a, y = x PROVE d = c /\ q = p
      <4>1. DirOf(p) \in Indices /\ DirOf(q) \in Indices
        BY PageSlot
      <4>2. d = c /\ DirOf(q) = DirOf(p)
        BY <3>1, <4>1 DEF TablesExact
      <4>3. QED
        BY <3>1, <4>2, SameSlot
    <3>2. QED
      BY <3>1
  <2> HIDE DEF a, x, b, y
  <2>3. n[b][y] = IF b = a /\ y = x THEN w ELSE t[b][y]
    BY <1>2, <2>1 DEF TableSet
  <2>4. QED
    BY <2>2, <2>3 DEF Get, b, y
<1>5. QED
  BY <1>1, <1>3, <1>4

-----------------------------------------------------------------------------
(***************************************************************************)
(* paging_map_range.                                                       *)
(***************************************************************************)

\* How far page q is from page v, going up and around.
Off(q, v) == (q - v) % Count

LEMMA OffPage ==
    ASSUME NEW v \in Pages, NEW q \in Pages, NEW j \in 0..(Count - 1)
    PROVE  /\ Off(q, v) \in 0..(Count - 1) /\ (v + j) % Count \in Pages
           /\ Off(q, v) = j <=> q = (v + j) % Count
<1>1. Count \in Nat \ {0} /\ v \in 0..(Count - 1) /\ q \in 0..(Count - 1)
  BY Constants
<1>2. (q - v) % Count = IF q >= v THEN q - v ELSE q - v + Count
  BY <1>1, RingSub
<1>3. (v + j) % Count = IF v + j < Count THEN v + j ELSE v + j - Count
  BY <1>1, RingAdd
<1>4. QED
  BY <1>1, <1>2, <1>3, Constants DEF Off

\* Addresses go around with the pages.
LEMMA StepAddress ==
    ASSUME NEW v \in Nat, NEW j \in Nat
    PROVE  (v * PageSize + j * PageSize) % Space = ((v + j) % Count) * PageSize
<1> DEFINE q == (v + j) \div Count
           r == (v + j) % Count
<1>1. q \in Int /\ r \in 0..(Count - 1) /\ v + j = Count * q + r
  <2>1. PICK a \in Int : a = v + j
    OBVIOUS
  <2>2. a \div Count \in Int /\ a % Count \in 0..(Count - 1) /\ a = Count * (a \div Count) + (a % Count)
    BY Constants, DivMod
  <2>3. QED
    BY <2>1, <2>2, Zenon
<1> HIDE DEF q, r
<1>2. r \in Pages
  BY <1>1, Constants
<1>3. r * PageSize \in 0..(Space - 1)
  BY <1>2, PageAddress
<1>4. v * PageSize + j * PageSize = Space * q + r * PageSize
  <2>1. v * PageSize + j * PageSize = (Count * q + r) * PageSize
    BY <1>1, Constants
  <2>2. (Count * q + r) * PageSize = (PageSize * Count) * q + r * PageSize
    BY <1>1, Constants
  <2>3. QED
    BY <2>1, <2>2, Constants
<1>5. QED
  <2>1. PICK z \in 0..(Space - 1) : z = r * PageSize
    BY <1>3
  <2>2. (Space * q + z) % Space = z
    BY <1>1, <2>1, Constants, DivModUnique
  <2>3. QED
    BY <1>4, <2>1, <2>2, Zenon DEF r

LEMMA MapRange ==
    ASSUME TablesExact, tables \in TableSet, NEW c \in DOMAIN directory, NEW v \in Pages,
           NEW fp \in Nat, NEW n \in Nat, n <= Count, fp + n <= Count, NEW f \in AllFlags
    PROVE  LET m == paging_map_range(c, v * PageSize, fp * PageSize, n, f)
           IN  /\ m \in TableSet
               /\ \A d \in DOMAIN directory, q \in Pages :
                     Get(m, d, q) = IF d = c /\ Off(q, v) < n THEN (fp + Off(q, v)) * PageSize + f
                                    ELSE Get(tables, d, q)
<1> DEFINE W(j) == (fp + j) * PageSize + f
           V(i) == (v * PageSize + (i - 1) * PageSize) % Space
           U(i) == ((fp * PageSize + (i - 1) * PageSize) % Space) + f
           G(l) == l = [i \in 0..n |-> IF i = 0 THEN tables ELSE paging_set(l[i - 1], c, V(i), U(i))]
           F == [i \in 1..n |-> [t \in TableSet |-> paging_set(t, c, V(i), U(i))]]
           m == CHOOSE l : G(l)
<1>1. ASSUME NEW j \in 0..(n - 1) PROVE W(j) \in PageWords /\ (v + j) % Count \in Pages
  <2>1. fp + j \in Pages /\ j \in 0..(Count - 1)
    BY Constants
  <2>2. QED
    BY <2>1, OffPage DEF PageWords
<1>2. ASSUME NEW i \in 1..n
      PROVE  V(i) = ((v + (i - 1)) % Count) * PageSize /\ U(i) = W(i - 1)
  <2>1. v \in Nat /\ i - 1 \in Nat /\ i - 1 < n
    BY Constants
  <2>2. V(i) = ((v + (i - 1)) % Count) * PageSize
    BY <2>1, StepAddress
  <2>3. (fp * PageSize + (i - 1) * PageSize) % Space = ((fp + (i - 1)) % Count) * PageSize
    BY <2>1, StepAddress
  <2>4. (fp + (i - 1)) % Count = fp + (i - 1)
    <3>1. fp + (i - 1) \in 0..(Count - 1)
      BY <2>1, Constants
    <3>2. QED
      BY <3>1, Constants, ModSmall
  <2>5. QED
    BY <2>2, <2>3, <2>4
<1> HIDE DEF V, U, W
<1>3. ASSUME NEW i \in 1..n, NEW t \in TableSet
      PROVE  /\ paging_set(t, c, V(i), U(i)) \in TableSet
             /\ \A d \in DOMAIN directory, q \in Pages :
                   Get(paging_set(t, c, V(i), U(i)), d, q) =
                      IF d = c /\ Off(q, v) = i - 1 THEN W(i - 1) ELSE Get(t, d, q)
  <2>1. i - 1 \in 0..(n - 1) /\ i - 1 \in 0..(Count - 1)
    BY Constants
  <2>2. PICK p \in Pages : p = (v + (i - 1)) % Count
    BY <1>1, <2>1
  <2>3. PICK w \in PageWords : w = W(i - 1)
    BY <1>1, <2>1
  <2>4. V(i) = p * PageSize /\ U(i) = w
    BY <1>2, <2>2, <2>3
  <2>5. /\ paging_set(t, c, p * PageSize, w) \in TableSet
        /\ \A d \in DOMAIN directory, q \in Pages :
              Get(paging_set(t, c, p * PageSize, w), d, q) = IF d = c /\ q = p THEN w ELSE Get(t, d, q)
    BY SetPage
  <2>6. \A q \in Pages : Off(q, v) = i - 1 <=> q = p
    BY <2>1, <2>2, OffPage
  <2>7. QED
    BY <2>3, <2>4, <2>5, <2>6
<1>4. \E l : G(l)
  <2>1. F \in [1..n -> [TableSet -> TableSet]]
    BY <1>3
  <2>2. \A i \in 1..n, t \in TableSet : F[i][t] = paging_set(t, c, V(i), U(i))
    OBVIOUS
  <2> HIDE DEF F
  <2>3. PICK l \in [0..n -> TableSet] : l[0] = tables /\ \A i \in 1..n : l[i] = F[i][l[i - 1]]
    <3>1. \E l \in [0..n -> TableSet] : Iterates(l, n, tables, F)
      BY <2>1, IterationExists
    <3>2. QED
      BY <3>1 DEF Iterates
  <2>4. ASSUME NEW i \in 0..n
        PROVE  l[i] = IF i = 0 THEN tables ELSE paging_set(l[i - 1], c, V(i), U(i))
    <3>1. CASE i = 0
      BY <2>3, <3>1
    <3>2. CASE i # 0
      <4>1. i \in 1..n /\ i - 1 \in 0..n
        BY <3>2
      <4>2. l[i - 1] \in TableSet
        BY <4>1
      <4>3. QED
        BY <2>2, <2>3, <3>2, <4>1, <4>2
    <3>3. QED
      BY <3>1, <3>2
  <2>5. G(l)
    BY <2>4
  <2>6. QED
    BY <2>5
<1>5. G(m)
  <2> HIDE DEF G
  <2>1. QED
    BY <1>4
<1>6. m[0] = tables /\ \A i \in 1..n : m[i] = paging_set(m[i - 1], c, V(i), U(i))
  <2> HIDE DEF m
  <2>1. QED
    BY <1>5
<1>7. paging_map_range(c, v * PageSize, fp * PageSize, n, f) = m[n]
  BY DEF paging_map_range, V, U
<1> HIDE DEF m, G, F
<1> DEFINE Ok(i) == /\ m[i] \in TableSet
                    /\ \A d \in DOMAIN directory, q \in Pages :
                          Get(m[i], d, q) = IF d = c /\ Off(q, v) < i THEN W(Off(q, v)) ELSE Get(tables, d, q)
           S == {i \in Nat : i <= n => Ok(i)}
<1>8. 0 \in S
  <2>1. \A q \in Pages : ~(Off(q, v) < 0)
    <3>1. 0 \in 0..(Count - 1)
      BY Constants
    <3>2. QED
      BY <3>1, OffPage
  <2>2. QED
    BY <1>6, <2>1
<1>9. ASSUME NEW i \in Nat, i \in S PROVE i + 1 \in S
  <2> SUFFICES ASSUME i + 1 <= n PROVE Ok(i + 1)
    OBVIOUS
  <2>1. Ok(i)
    BY <1>9
  <2>2. i + 1 \in 1..n /\ m[i + 1] = paging_set(m[i], c, V(i + 1), U(i + 1))
    BY <1>6
  <2>3. /\ m[i + 1] \in TableSet
        /\ \A d \in DOMAIN directory, q \in Pages :
              Get(m[i + 1], d, q) = IF d = c /\ Off(q, v) = i THEN W(i) ELSE Get(m[i], d, q)
    <3>1. i + 1 - 1 = i
      OBVIOUS
    <3>2. PICK t \in TableSet : t = m[i]
      BY <2>1
    <3>3. /\ paging_set(t, c, V(i + 1), U(i + 1)) \in TableSet
          /\ \A d \in DOMAIN directory, q \in Pages :
                Get(paging_set(t, c, V(i + 1), U(i + 1)), d, q) =
                   IF d = c /\ Off(q, v) = i + 1 - 1 THEN W(i + 1 - 1) ELSE Get(t, d, q)
      BY <1>3, <2>2
    <3>4. QED
      BY <2>2, <3>1, <3>2, <3>3
  <2>4. \A q \in Pages : Off(q, v) \in Int
    <3>1. 0 \in 0..(Count - 1)
      BY Constants
    <3>2. QED
      BY <3>1, OffPage
  <2>5. QED
    BY <2>1, <2>3, <2>4
<1>10. n \in S
  <2> HIDE DEF S
  <2>1. Nat \subseteq S
    BY <1>8, <1>9, SetInduction
  <2>2. QED
    BY <2>1
<1>11. Ok(n)
  BY <1>10
<1>12. QED
  BY <1>7, <1>11 DEF W

-----------------------------------------------------------------------------
(***************************************************************************)
(* The pages of new tables.                                                *)
(***************************************************************************)
Values(s, k) == {s[i] : i \in 0..(k - 1)}

\* s lists the k lowest members of F.
Ascending(s, k, F) ==
    /\ \A i, j \in 0..(k - 1) : i < j => s[i] < s[j]
    /\ \A a \in F : a \in Values(s, k) \/ \A i \in 0..(k - 1) : s[i] < a

LEMMA AscendingExists ==
    ASSUME NEW F \in SUBSET Nat, IsFiniteSet(F), NEW n \in Nat, n <= Cardinality(F)
    PROVE  \E s \in [0..(n - 1) -> F] : Ascending(s, n, F)
<1> DEFINE Sized(s, k) == IsFiniteSet(Values(s, k)) /\ Cardinality(Values(s, k)) = k
           S == {k \in Nat : k <= n => \E s \in [0..(k - 1) -> F] : Ascending(s, k, F) /\ Sized(s, k)}
<1>0. Cardinality(F) \in Nat
  BY FS_CardinalityType
<1>1. 0 \in S
  <2> DEFINE e == [i \in 0..(0 - 1) |-> 0]
  <2>1. e \in [0..(0 - 1) -> F] /\ Values(e, 0) = {}
    BY DEF Values
  <2>2. Ascending(e, 0, F)
    BY <2>1 DEF Ascending
  <2>3. Sized(e, 0)
    BY <2>1, FS_EmptySet
  <2>4. QED
    BY <2>1, <2>2, <2>3
<1>2. ASSUME NEW k \in Nat, k \in S PROVE k + 1 \in S
  <2> SUFFICES ASSUME k + 1 <= n
               PROVE  \E s \in [0..k -> F] : Ascending(s, k + 1, F) /\ Sized(s, k + 1)
    <3>1. k + 1 - 1 = k
      OBVIOUS
    <3>2. QED
      BY <3>1
  <2>1. PICK s \in [0..(k - 1) -> F] : Ascending(s, k, F) /\ Sized(s, k)
    BY <1>2
  <2> DEFINE R == Values(s, k)
             b == Min(F \ R)
             l == [i \in 0..k |-> IF i = k THEN b ELSE s[i]]
  <2>2. R \subseteq F
    BY DEF Values
  <2>3. F \ R # {}
    <3>1. R # F
      BY <1>0, <2>1
    <3>2. QED
      BY <2>2, <3>1
  <2>4. b \in F \ R /\ \A m \in F \ R : b <= m
    <3>1. F \ R \in SUBSET Nat
      OBVIOUS
    <3> HIDE DEF R
    <3>2. QED
      BY <2>3, <3>1, MinOf
  <2> HIDE DEF b
  <2>5. \A i \in 0..k : i # k => i \in 0..(k - 1)
    OBVIOUS
  <2>6. l \in [0..k -> F]
    BY <2>4, <2>5
  <2>7. \A i \in 0..(k - 1) : i \in 0..k /\ l[i] = s[i]
    OBVIOUS
  <2>8. l[k] = b /\ k \in 0..k
    OBVIOUS
  <2>9. Values(l, k + 1) = R \cup {b}
    <3>1. k + 1 - 1 = k
      OBVIOUS
    <3> HIDE DEF l
    <3>2. QED
      BY <2>5, <2>7, <2>8, <3>1 DEF Values
  <2>10. Sized(l, k + 1)
    <3>1. IsFiniteSet(R \cup {b}) /\ Cardinality(R \cup {b}) = k + 1
      BY <2>1, <2>4, FS_AddElement
    <3>2. QED
      BY <2>9, <3>1
  <2>11. \A i \in 0..(k - 1) : s[i] < b
    BY <2>1, <2>4 DEF Ascending
  <2>12. Ascending(l, k + 1, F)
    <3>1. k + 1 - 1 = k
      OBVIOUS
    <3>2. ASSUME NEW i \in 0..k, NEW j \in 0..k, i < j PROVE l[i] < l[j]
      <4>1. i \in 0..(k - 1) /\ l[i] = s[i]
        BY <3>2
      <4>2. CASE j = k
        BY <2>8, <2>11, <4>1, <4>2
      <4>3. CASE j # k
        <5>1. j \in 0..(k - 1) /\ l[j] = s[j]
          BY <4>3
        <5>2. QED
          BY <2>1, <3>2, <4>1, <5>1 DEF Ascending
      <4>4. QED
        BY <4>2, <4>3
    <3>3. ASSUME NEW a \in F, a \notin R \cup {b} PROVE \A i \in 0..k : l[i] < a
      <4>1. b <= a /\ b # a /\ a \in Nat /\ b \in Nat
        BY <2>4, <3>3
      <4>2. \A i \in 0..(k - 1) : s[i] < a
        BY <2>1, <3>3 DEF Ascending
      <4>3. QED
        BY <2>5, <2>7, <2>8, <4>1, <4>2
    <3> HIDE DEF l
    <3>4. QED
      BY <2>9, <3>1, <3>2, <3>3 DEF Ascending
  <2>13. QED
    BY <2>6, <2>10, <2>12
<1>3. n \in S
  <2> HIDE DEF S
  <2>1. Nat \subseteq S
    BY <1>1, <1>2, SetInduction
  <2>2. QED
    BY <2>1
<1>4. QED
  BY <1>3

\* kzalloc gives paging_new_4gb one page for each table.
LEMMA NewTables ==
    ASSUME Cardinality(FreePages) >= Entries
    PROVE  /\ LowestPages \in [Indices -> FreePages]
           /\ \A i, j \in Indices : LowestPages[i] = LowestPages[j] => i = j
<1>1. FreePages \in SUBSET Nat /\ \A a \in FreePages : a <= Space
  BY HeapTyped, Constants DEF FreePages
<1>2. IsFiniteSet(FreePages)
  BY <1>1, Constants, FS_BoundedSetOfNaturals
<1>3. Entries \in Nat \ {0} /\ Entries <= Cardinality(FreePages) /\ Indices = 0..(Entries - 1)
  <2>1. Cardinality(FreePages) \in Nat
    BY <1>2, FS_CardinalityType
  <2>2. QED
    BY <2>1, Constants DEF Indices
<1>4. PICK s \in [Indices -> FreePages] : Ascending(s, Entries, FreePages)
  BY <1>1, <1>2, <1>3, AscendingExists
<1> DEFINE Low(r) == /\ \A i, j \in Indices : i < j => r[i] < r[j]
                     /\ \A a \in FreePages : a < r[Entries - 1] => \E i \in Indices : r[i] = a
<1>5. Low(s)
  <2>1. \A i, j \in Indices : i < j => s[i] < s[j]
    BY <1>3, <1>4 DEF Ascending
  <2>2. ASSUME NEW a \in FreePages, a < s[Entries - 1] PROVE \E i \in Indices : s[i] = a
    <3>1. Entries - 1 \in Indices /\ s[Entries - 1] \in Nat /\ a \in Nat
      <4>1. Entries - 1 \in Indices
        BY <1>3
      <4>2. s[Entries - 1] \in FreePages
        BY <4>1
      <4>3. QED
        BY <1>1, <4>1, <4>2
    <3>2. ~(s[Entries - 1] < a)
      BY <2>2, <3>1
    <3>3. a \in Values(s, Entries)
      BY <1>3, <1>4, <3>1, <3>2 DEF Ascending
    <3>4. QED
      BY <1>3, <3>3 DEF Values
  <2>3. QED
    BY <2>1, <2>2
<1>6. LowestPages = CHOOSE r \in [Indices -> FreePages] : Low(r)
  BY DEF LowestPages
<1>7. LowestPages \in [Indices -> FreePages] /\ Low(LowestPages)
  <2> HIDE DEF Low
  <2>1. QED
    BY <1>5, <1>6
<1>8. ASSUME NEW i \in Indices, NEW j \in Indices, LowestPages[i] = LowestPages[j] PROVE i = j
  <2>1. i \in Int /\ j \in Int /\ LowestPages[i] \in Int /\ LowestPages[j] \in Int
    <3>1. LowestPages[i] \in FreePages /\ LowestPages[j] \in FreePages
      BY <1>7
    <3>2. i \in Int /\ j \in Int
      BY <1>3
    <3>3. LowestPages[i] \in Nat /\ LowestPages[j] \in Nat
      BY <1>1, <3>1, Zenon
    <3>4. QED
      BY <3>2, <3>3
  <2>2. ~(i < j) /\ ~(j < i)
    BY <1>7, <1>8, <2>1
  <2>3. QED
    BY <2>1, <2>2
<1>9. QED
  BY <1>7, <1>8

-----------------------------------------------------------------------------
(***************************************************************************)
(* The inductive invariant.                                                *)
(***************************************************************************)
Types ==
    /\ DOMAIN directory \subseteq Chunks /\ DOMAIN tables \subseteq HeapPages
    /\ \A c \in DOMAIN directory : directory[c] \in [Indices -> 0..(Space - 1)]
    /\ tables \in TableSet
    /\ maps \in 0..MaxMaps

Calls == [stage : {"mapped", "copied"}, c : DOMAIN directory, v : Virts, page : HeapPages,
          old_entry : PageWords, meant : Int, source : Int, before : [Pages -> PageWords]]

\* During a copy the task's tables are those before it, but for the page of
\* the copy, whose word is kept in old_entry.
CopyInv ==
    \/ copying = Idle /\ tmp = {} /\ cr3 = Kernel
    \/ /\ copying \in Calls /\ tmp = {copying.page}
       /\ cr3 = IF copying.stage = "mapped" THEN copying.c ELSE Kernel
       /\ copying.old_entry = copying.before[copying.page \div PageSize]
       /\ \A q \in Pages : Get(tables, copying.c, q) =
              IF q = copying.page \div PageSize THEN copying.page + 7 ELSE copying.before[q]
       /\ copying.meant = Frame(copying.before[copying.v \div PageSize]) + (copying.v % PageSize)
       /\ CopyExact

IInv == Types /\ TablesExact /\ CopyInv

\* The parts of the invariant about the tables, for steps that only set words.
LEMMA WordsOnly ==
    ASSUME Types, TablesExact, directory' = directory, tables' \in TableSet, maps' \in 0..MaxMaps,
           tmp' \cap DOMAIN tables = {}
    PROVE  /\ Types' /\ TablesExact' /\ DOMAIN tables' = DOMAIN tables
           /\ \A t, d, q : Get(t, d, q)' = Get(t', d, q)
<1>1. DOMAIN tables' = DOMAIN tables
  BY DEF TableSet
<1>2. TableSet' = TableSet
  BY <1>1 DEF TableSet
<1>3. Types'
  BY <1>1, <1>2 DEF Types
<1>4. TablesExact'
  BY <1>1 DEF TablesExact
<1>5. QED
  BY <1>1, <1>3, <1>4 DEF Get

LEMMA WordTyped ==
    ASSUME Types, TablesExact, NEW d \in DOMAIN directory, NEW q \in Pages
    PROVE  Get(tables, d, q) \in PageWords
<1>1. Frame(directory[d][DirOf(q)]) \in DOMAIN tables /\ SlotOf(q) \in Indices
  BY PageSlot DEF TablesExact
<1>2. QED
  BY <1>1 DEF Types, TableSet, Get

LEMMA NewStep ==
    ASSUME IInv, NEW c \in Chunks, NEW flags \in NewFlags, paging_new_4gb(c, flags)
    PROVE  /\ IInv'
           /\ c \notin DOMAIN directory /\ DOMAIN directory' = DOMAIN directory \cup {c}
           /\ \A q \in Pages : Get(tables, c, q)' = q * PageSize + flags
           /\ \A d \in DOMAIN directory, q \in Pages : Get(tables, d, q)' = Get(tables, d, q)
<1> DEFINE a == LowestPages
           extra == flags + (IF HasFlag(flags, PAGING_IS_WRITABLE) THEN 0 ELSE PAGING_IS_WRITABLE)
           R == {a[i] : i \in Indices}
           T(t) == IdentityTables(flags)[CHOOSE i \in Indices : a[i] = t]
<1>1. /\ c \notin DOMAIN directory /\ Cardinality(FreePages) >= Entries /\ copying = Idle
      /\ UNCHANGED <<cr3, copying, tmp, maps>>
  BY DEF paging_new_4gb
<1>2. /\ a \in [Indices -> FreePages] /\ \A i, j \in Indices : a[i] = a[j] => i = j
  BY <1>1, NewTables
<1>3. flags \in 0..7 /\ extra \in 0..7 /\ flags \in AllFlags
  BY FlagsSmall
<1>4. R \subseteq HeapPages /\ R \cap DOMAIN tables = {}
  BY <1>2 DEF FreePages
<1>5. ASSUME NEW i \in Indices
      PROVE  Frame(a[i] + extra) = a[i] /\ a[i] + extra \in 0..(Space - 1)
  <2>1. a[i] \in HeapPages
    BY <1>2 DEF FreePages
  <2>2. PICK p \in Pages : a[i] = p * PageSize
    BY <2>1, HeapTyped
  <2>3. QED
    BY <1>3, <2>2, FrameOf
<1>6. /\ directory' = [d \in DOMAIN directory \cup {c} |->
              IF d = c THEN [i \in Indices |-> a[i] + extra] ELSE directory[d]]
      /\ tables' = [t \in DOMAIN tables \cup R |-> IF t \in R THEN T(t) ELSE tables[t]]
  <2>1. \A i \in Indices : a[i] \in Int
    BY <1>2, HeapTyped DEF FreePages
  <2> DEFINE w == IF HasFlag(flags, PAGING_IS_WRITABLE) THEN 0 ELSE PAGING_IS_WRITABLE
  <2>2. w \in Int /\ flags \in Int
    BY <1>3 DEF PAGING_IS_WRITABLE
  <2>3. \A i \in Indices : a[i] + flags + w = a[i] + extra
    BY <2>1, <2>2
  <2>4. /\ directory' = [d \in DOMAIN directory \cup {c} |->
                IF d = c THEN [i \in Indices |-> a[i] + flags + w] ELSE directory[d]]
        /\ tables' = [t \in DOMAIN tables \cup R |-> IF t \in R THEN T(t) ELSE tables[t]]
    BY DEF paging_new_4gb
  <2>5. [i \in Indices |-> a[i] + flags + w] = [i \in Indices |-> a[i] + extra]
    BY <2>3
  <2>6. QED
    BY <2>4, <2>5
<1> HIDE DEF extra, a, R
<1>7. /\ DOMAIN directory' = DOMAIN directory \cup {c}
      /\ directory'[c] = [i \in Indices |-> a[i] + extra]
      /\ \A d \in DOMAIN directory : directory'[d] = directory[d]
  BY <1>1, <1>6
<1>8. /\ DOMAIN tables' = R \cup DOMAIN tables
      /\ \A t \in R : tables'[t] = T(t)
      /\ \A t \in DOMAIN tables : tables'[t] = tables[t]
      /\ tables' = [t \in R \cup DOMAIN tables |-> tables'[t]]
  <2> HIDE DEF T
  <2>1. QED
    BY <1>4, <1>6
<1>9. \A i \in Indices : a[i] \in R /\ tables'[a[i]] = IdentityTables(flags)[i]
  BY <1>2, <1>8 DEF R
<1>10. ASSUME NEW i \in Indices, NEW x \in Indices
       PROVE  IdentityTables(flags)[i][x] = (i * Entries + x) * PageSize + flags /\ i * Entries + x \in Pages
  <2>1. IdentityTables(flags)[i][x] = (i * Entries + x) * PageSize + flags
    BY DEF IdentityTables
  <2>2. i \in 0..(Entries - 1) /\ x \in 0..(Entries - 1) /\ Entries \in Nat \ {0}
    BY Constants DEF Indices
  <2>3. i * Entries + x \in 0..(Entries * Entries - 1)
    <3>1. Entries * i + Entries <= Entries * Entries /\ Entries * i \in Nat
      <4>1. ~(Entries * Entries < Entries * (i + 1)) /\ Entries * (i + 1) = Entries * i + Entries
        BY <2>2, MulLess
      <4>2. QED
        BY <2>2, <4>1
    <3>2. i * Entries = Entries * i
      BY <2>2
    <3>3. QED
      BY <2>2, <3>1, <3>2
  <2>4. QED
    BY <2>1, <2>3 DEF Pages
<1>11. \A i \in Indices : IdentityTables(flags)[i] \in [Indices -> PageWords]
  <2>1. \A i, x \in Indices : IdentityTables(flags)[i][x] \in PageWords
    BY <1>3, <1>10 DEF PageWords
  <2>2. \A i \in Indices : IdentityTables(flags)[i] = [x \in Indices |-> IdentityTables(flags)[i][x]]
    BY DEF IdentityTables
  <2>3. QED
    BY <2>1, <2>2
<1>12. Types'
  <2>1. tables' \in TableSet'
    <3>1. \A t \in R : tables'[t] \in [Indices -> PageWords]
      BY <1>9, <1>11 DEF R
    <3>2. \A t \in DOMAIN tables : tables'[t] \in [Indices -> PageWords]
      BY <1>8 DEF IInv, Types, TableSet
    <3>3. QED
      BY <1>8, <3>1, <3>2 DEF TableSet
  <2>2. \A d \in DOMAIN directory' : directory'[d] \in [Indices -> 0..(Space - 1)]
    BY <1>5, <1>7 DEF IInv, Types
  <2>3. QED
    BY <1>1, <1>4, <1>7, <1>8, <2>1, <2>2 DEF IInv, Types
<1>13. /\ \A i \in Indices : Frame(directory'[c][i]) = a[i]
       /\ \A d \in DOMAIN directory, i \in Indices :
             Frame(directory'[d][i]) = Frame(directory[d][i]) /\ Frame(directory[d][i]) \in DOMAIN tables
  BY <1>5, <1>7 DEF IInv, TablesExact
<1>14. TablesExact'
  <2>1. DOMAIN tables' = {Frame(directory'[d][i]) : d \in DOMAIN directory', i \in Indices}
    <3>1. DOMAIN tables = {Frame(directory[d][i]) : d \in DOMAIN directory, i \in Indices}
      BY DEF IInv, TablesExact
    <3>2. ASSUME NEW t \in DOMAIN tables'
          PROVE  \E d \in DOMAIN directory', i \in Indices : t = Frame(directory'[d][i])
      <4>1. CASE t \in R
        <5>1. PICK i \in Indices : t = a[i]
          BY <4>1 DEF R
        <5>2. t = Frame(directory'[c][i]) /\ c \in DOMAIN directory'
          BY <1>7, <1>13, <5>1
        <5>3. QED
          BY <5>2
      <4>2. CASE t \in DOMAIN tables
        <5>1. PICK d \in DOMAIN directory, i \in Indices : t = Frame(directory[d][i])
          BY <3>1, <4>2
        <5>2. t = Frame(directory'[d][i]) /\ d \in DOMAIN directory'
          BY <1>7, <1>13, <5>1
        <5>3. QED
          BY <5>2
      <4>3. QED
        BY <1>8, <4>1, <4>2
    <3>3. ASSUME NEW d \in DOMAIN directory', NEW i \in Indices
          PROVE  Frame(directory'[d][i]) \in DOMAIN tables'
      BY <1>7, <1>8, <1>9, <1>13
    <3>4. QED
      BY <3>2, <3>3
  <2>2. ASSUME NEW d \in DOMAIN directory', NEW e \in DOMAIN directory', NEW i \in Indices, NEW j \in Indices,
               Frame(directory'[d][i]) = Frame(directory'[e][j])
        PROVE  d = e /\ i = j
    <3>1. CASE d = c /\ e = c
      BY <1>2, <1>13, <2>2, <3>1
    <3>2. CASE d # c /\ e # c
      <4>1. d \in DOMAIN directory /\ e \in DOMAIN directory
        BY <1>7, <3>2
      <4>2. Frame(directory[d][i]) = Frame(directory[e][j])
        BY <1>13, <2>2, <4>1
      <4>3. <<d, i>> = <<e, j>>
        BY <4>1, <4>2 DEF IInv, TablesExact
      <4>4. QED
        BY <4>3
    <3>3. CASE d = c /\ e # c
      BY <1>4, <1>7, <1>9, <1>13, <2>2, <3>3
    <3>4. CASE d # c /\ e = c
      BY <1>4, <1>7, <1>9, <1>13, <2>2, <3>4
    <3>5. QED
      BY <3>1, <3>2, <3>3, <3>4
  <2>3. tmp' = {}
    BY <1>1 DEF IInv, CopyInv, Calls, Idle
  <2>4. QED
    BY <2>1, <2>2, <2>3 DEF TablesExact
<1>15. CopyInv'
  BY <1>1 DEF IInv, CopyInv, Calls, Idle
<1>16. ASSUME NEW q \in Pages PROVE Get(tables, c, q)' = q * PageSize + flags
  <2>1. DirOf(q) \in Indices /\ SlotOf(q) \in Indices
    BY PageSlot
  <2>2. Get(tables, c, q)' = IdentityTables(flags)[DirOf(q)][SlotOf(q)]
    BY <1>9, <1>13, <2>1 DEF Get
  <2>3. q = DirOf(q) * Entries + SlotOf(q)
    <3>1. q = Entries * DirOf(q) + SlotOf(q)
      BY PageIndex, Zenon DEF DirOf, SlotOf
    <3>2. DirOf(q) * Entries = Entries * DirOf(q)
      BY <2>1, Constants DEF Indices
    <3>3. QED
      BY <3>1, <3>2
  <2>4. QED
    BY <1>10, <2>1, <2>2, <2>3
<1>17. ASSUME NEW d \in DOMAIN directory, NEW q \in Pages PROVE Get(tables, d, q)' = Get(tables, d, q)
  <2>1. DirOf(q) \in Indices
    BY PageSlot
  <2>2. QED
    BY <1>8, <1>13, <2>1 DEF Get
<1>18. QED
  BY <1>1, <1>7, <1>12, <1>14, <1>15, <1>16, <1>17 DEF IInv

LEMMA FreeStep ==
    ASSUME IInv, NEW c \in Chunks, paging_free_4gb(c)
    PROVE  /\ IInv'
           /\ c \in DOMAIN directory /\ DOMAIN directory' = DOMAIN directory \ {c}
           /\ \A d \in DOMAIN directory \ {c}, q \in Pages : Get(tables, d, q)' = Get(tables, d, q)
<1>1. /\ c \in DOMAIN directory /\ copying = Idle /\ UNCHANGED <<cr3, copying, tmp, maps>>
      /\ tables' = [a \in DOMAIN tables \ FreedTables(c) |-> tables[a]]
      /\ directory' = [d \in DOMAIN directory \ {c} |-> directory[d]]
  BY DEF paging_free_4gb
<1>2. /\ DOMAIN directory' = DOMAIN directory \ {c}
      /\ \A d \in DOMAIN directory \ {c} : directory'[d] = directory[d]
      /\ DOMAIN tables' = DOMAIN tables \ FreedTables(c)
      /\ \A a \in DOMAIN tables \ FreedTables(c) : tables'[a] = tables[a]
  BY <1>1
<1>3. TablesExact
  BY DEF IInv
<1>4. ASSUME NEW d \in DOMAIN directory, NEW i \in Indices
      PROVE  /\ Frame(directory[d][i]) \in DOMAIN tables
             /\ Frame(directory[d][i]) \in FreedTables(c) <=> d = c
  <2>1. Frame(directory[d][i]) \in DOMAIN tables
    BY <1>3 DEF TablesExact
  <2>2. ASSUME NEW j \in Indices, Frame(directory[d][i]) = Frame(directory[c][j]) PROVE d = c
    <3>1. <<d, i>> = <<c, j>>
      BY <1>1, <1>3, <2>2 DEF TablesExact
    <3>2. QED
      BY <3>1
  <2>3. QED
    BY <2>1, <2>2 DEF FreedTables
<1>5. Types'
  <2>1. tables' \in TableSet'
    BY <1>1, <1>2 DEF IInv, Types, TableSet
  <2>2. QED
    BY <1>1, <1>2, <2>1 DEF IInv, Types
<1>6. TablesExact'
  <2>1. ASSUME NEW t \in DOMAIN tables'
        PROVE  \E d \in DOMAIN directory', i \in Indices : t = Frame(directory'[d][i])
    <3>1. t \in DOMAIN tables /\ t \notin FreedTables(c)
      BY <1>2
    <3>2. PICK d \in DOMAIN directory, i \in Indices : t = Frame(directory[d][i])
      BY <1>3, <3>1 DEF TablesExact
    <3>3. d # c
      BY <1>4, <3>1, <3>2
    <3>4. QED
      BY <1>2, <3>2, <3>3
  <2>2. ASSUME NEW d \in DOMAIN directory', NEW i \in Indices
        PROVE  Frame(directory'[d][i]) \in DOMAIN tables'
    BY <1>2, <1>4
  <2>3. ASSUME NEW d \in DOMAIN directory', NEW e \in DOMAIN directory', NEW i \in Indices, NEW j \in Indices,
               <<d, i>> # <<e, j>>
        PROVE  Frame(directory'[d][i]) # Frame(directory'[e][j])
    BY <1>2, <1>3, <2>3 DEF TablesExact
  <2>4. tmp' \cap DOMAIN tables' = {}
    BY <1>1, <1>2, <1>3 DEF TablesExact
  <2>5. DOMAIN tables' = {Frame(directory'[d][i]) : d \in DOMAIN directory', i \in Indices}
    <3> DEFINE K == {Frame(directory'[d][i]) : d \in DOMAIN directory', i \in Indices}
    <3>1. \A t \in DOMAIN tables' : t \in K
      BY <2>1
    <3>2. \A t \in K : t \in DOMAIN tables'
      BY <2>2
    <3> HIDE DEF K
    <3>3. DOMAIN tables' = K
      BY <3>1, <3>2
    <3>4. QED
      BY <3>3 DEF K
  <2>6. QED
    BY <2>3, <2>4, <2>5 DEF TablesExact
<1>7. CopyInv'
  BY <1>1 DEF IInv, CopyInv, Calls, Idle
<1>8. ASSUME NEW d \in DOMAIN directory \ {c}, NEW q \in Pages PROVE Get(tables, d, q)' = Get(tables, d, q)
  <2>1. DirOf(q) \in Indices
    BY PageSlot
  <2>2. QED
    BY <1>2, <1>4, <2>1 DEF Get
<1>9. QED
  BY <1>1, <1>2, <1>5, <1>6, <1>7, <1>8 DEF IInv

LEMMA AlignedPage ==
    ASSUME NEW a \in 0..(Space - 1), paging_is_aligned(a)
    PROVE  \E p \in Pages : a = p * PageSize
<1>1. a \div PageSize \in Pages /\ a = (a \div PageSize) * PageSize + (a % PageSize)
  BY AddressPage
<1>2. a % PageSize = 0
  BY DEF paging_is_aligned
<1>3. (a \div PageSize) * PageSize \in Int
  BY <1>1, PageAddress
<1> DEFINE p == a \div PageSize
<1> HIDE DEF p
<1>4. a = p * PageSize + 0 /\ p * PageSize \in Int /\ p \in Pages
  BY <1>1, <1>2, <1>3 DEF p
<1>5. a = p * PageSize
  BY <1>4
<1>6. QED
  BY <1>4, <1>5

LEMMA CallersTyped == Virts \subseteq 0..(Space - 1) /\ Physs \subseteq 0..(Space - 1) /\ Ends \subseteq 0..(Space - 1)
<1>1. Virts \subseteq 0..(Space - 1) /\ Physs \subseteq 0..(Space - 1)
  BY PagingAssumption
<1>2. ASSUME NEW a \in 0..(Space - 1) PROVE paging_align_address(a) \in 0..(Space - 1)
  <2>1. \A z \in Int : z % Space \in 0..(Space - 1)
    BY Constants, DivMod
  <2>2. a + PageSize - (a % PageSize) \in Int
    BY Constants, AddressPage
  <2>3. QED
    BY <2>1, <2>2 DEF paging_align_address
<1>3. QED
  BY <1>1, <1>2 DEF Ends

\* paging_map_to maps the pages from v to the frames from fp to ep.
Ranges(virt, phys, phys_end, v, fp, ep) ==
    virt = v * PageSize /\ phys = fp * PageSize /\ phys_end = ep * PageSize

LEMMA MapToStep ==
    ASSUME IInv, NEW c \in Chunks, NEW virt \in Virts, NEW phys \in Physs, NEW phys_end \in Ends,
           NEW flags \in Flags, paging_map_to(c, virt, phys, phys_end, flags)
    PROVE  /\ IInv' /\ c \in DOMAIN directory /\ UNCHANGED directory
           /\ \/ /\ UNCHANGED tables
                 /\ ~((\A a \in {virt, phys, phys_end} : paging_is_aligned(a)) /\ phys_end >= phys)
              \/ \E v, fp, ep \in Pages :
                    /\ Ranges(virt, phys, phys_end, v, fp, ep) /\ ep >= fp
                    /\ \A d \in DOMAIN directory, q \in Pages :
                          Get(tables, d, q)' = IF d = c /\ Off(q, v) < ep - fp
                                               THEN (fp + Off(q, v)) * PageSize + flags
                                               ELSE Get(tables, d, q)
<1> DEFINE Good == (\A a \in {virt, phys, phys_end} : paging_is_aligned(a)) /\ phys_end >= phys
<1>1. /\ c \in DOMAIN directory /\ UNCHANGED <<directory, cr3, copying, tmp>> /\ copying = Idle
      /\ tables' = IF Good THEN paging_map_range(c, virt, phys, (phys_end - phys) \div PageSize, flags)
                   ELSE tables
  BY DEF paging_map_to
<1>2. maps' \in 0..MaxMaps
  BY PagingAssumption DEF paging_map_to, IInv, Types
<1>3. Types /\ TablesExact /\ tables \in TableSet /\ tmp = {}
  BY <1>1 DEF IInv, Types, CopyInv, Calls, Idle
<1>4. CopyInv'
  BY <1>1 DEF IInv, CopyInv, Calls, Idle
<1>5. ASSUME tables' \in TableSet
      PROVE  IInv' /\ \A t, d, q : Get(t, d, q)' = Get(t', d, q)
  BY <1>1, <1>2, <1>3, <1>4, <1>5, WordsOnly DEF IInv
<1>6. CASE ~Good
  BY <1>1, <1>3, <1>5, <1>6
<1>7. CASE Good
  <2>1. virt \in 0..(Space - 1) /\ phys \in 0..(Space - 1) /\ phys_end \in 0..(Space - 1)
    BY CallersTyped
  <2>2. PICK v \in Pages, fp \in Pages, ep \in Pages : Ranges(virt, phys, phys_end, v, fp, ep)
    BY <1>7, <2>1, AlignedPage DEF Ranges
  <2>3. /\ PageSize \in Nat \ {0} /\ v \in Nat /\ fp \in Nat /\ ep \in Nat /\ ep < Count /\ Count \in Nat
        /\ PageSize * fp = fp * PageSize /\ PageSize * ep = ep * PageSize
        /\ PageSize * fp \in Int /\ PageSize * ep \in Int
    BY Constants
  <2>4. ep >= fp
    <3>1. ~(PageSize * ep < PageSize * fp)
      BY <1>7, <2>2, <2>3 DEF Ranges
    <3>2. QED
      BY <2>3, <3>1, MulLess
  <2>5. (phys_end - phys) \div PageSize = ep - fp
    <3>1. PageSize * (ep - fp) = PageSize * ep - PageSize * fp /\ ep - fp \in Int
      BY <2>3, MulLess
    <3>2. phys_end - phys = PageSize * (ep - fp) + 0
      BY <2>2, <2>3, <3>1 DEF Ranges
    <3>3. (PageSize * (ep - fp) + 0) \div PageSize = ep - fp
      BY <2>3, <3>1, DivModUnique
    <3>4. QED
      BY <3>2, <3>3
  <2>6. PICK n \in Nat : n = ep - fp
    BY <2>3, <2>4
  <2>7. n <= Count /\ fp + n <= Count /\ flags \in AllFlags
    BY <2>3, <2>6, FlagsSmall
  <2>8. tables' = paging_map_range(c, v * PageSize, fp * PageSize, n, flags)
    BY <1>1, <1>7, <2>2, <2>5, <2>6 DEF Ranges
  <2>9. /\ tables' \in TableSet
        /\ \A d \in DOMAIN directory, q \in Pages :
              Get(tables', d, q) = IF d = c /\ Off(q, v) < n THEN (fp + Off(q, v)) * PageSize + flags
                                   ELSE Get(tables, d, q)
    BY <1>1, <1>3, <2>3, <2>7, <2>8, MapRange
  <2>10. /\ \A d \in DOMAIN directory, q \in Pages :
               Get(tables, d, q)' = IF d = c /\ Off(q, v) < ep - fp THEN (fp + Off(q, v)) * PageSize + flags
                                    ELSE Get(tables, d, q)
    BY <1>5, <2>6, <2>9
  <2>11. QED
    BY <1>1, <1>5, <2>2, <2>4, <2>9, <2>10
<1>8. QED
  BY <1>6, <1>7

\* What the task means by an address.
LEMMA Physical ==
    ASSUME NEW c, NEW v \in Virts
    PROVE  /\ v \div PageSize \in Pages
           /\ paging_get_physical_address(c, v) = Frame(Get(tables, c, v \div PageSize)) + (v % PageSize)
<1>1. v \in 0..(Space - 1)
  BY CallersTyped
<1> DEFINE q == v \div PageSize
           r == v % PageSize
<1>2. q \in Pages /\ r \in 0..(PageSize - 1) /\ v = q * PageSize + r /\ paging_align_to_lower_page(v) = q * PageSize
  BY <1>1, AddressPage
<1> HIDE DEF q, r
<1>3. q * PageSize \in Int
  BY <1>2, PageAddress
<1>4. v - q * PageSize = r
  BY <1>2, <1>3, Constants
<1>5. paging_get(c, q * PageSize) = Get(tables, c, q)
  BY <1>2, GetPage
<1>6. QED
  BY <1>2, <1>4, <1>5 DEF paging_get_physical_address, q, r

LEMMA FrameTyped ==
    ASSUME NEW w \in PageWords
    PROVE  Frame(w) \in Int
<1>1. w \in Int
  BY WordsTyped
<1>2. w % PageSize \in Int
  BY <1>1, Constants, DivMod
<1>3. QED
  BY <1>1, <1>2 DEF Frame

LEMMA CopyBeginStep ==
    ASSUME IInv, NEW c \in Chunks, NEW v \in Virts, CopyBegin(c, v)
    PROVE  /\ IInv' /\ c \in DOMAIN directory /\ UNCHANGED directory
           /\ \E p \in Pages, w \in PageWords : \A d \in DOMAIN directory, q \in Pages :
                 Get(tables, d, q)' = IF d = c /\ q = p THEN w ELSE Get(tables, d, q)
<1> DEFINE page == Min(FreePages)
           p == page \div PageSize
           w == page + 7
<1>1. /\ c \in DOMAIN directory /\ FreePages # {} /\ tmp' = {page} /\ cr3' = c
      /\ UNCHANGED <<directory, maps>> /\ copying = Idle
  BY DEF CopyBegin
<1>2. FreePages \in SUBSET Nat
  BY HeapTyped DEF FreePages
<1>3. page \in FreePages
  BY <1>1, <1>2, MinOf
<1>4. page \in HeapPages /\ page \notin DOMAIN tables
  BY <1>3 DEF FreePages
<1>5. p \in Pages /\ page = p * PageSize /\ page \in 0..(Space - 1)
  BY <1>4, HeapTyped
<1>6. w \in PageWords
  BY <1>5, FlagsSmall DEF PageWords
<1>7. /\ tables' = paging_set(tables, c, page, w)
      /\ copying' = [stage |-> "mapped", c |-> c, v |-> v, page |-> page,
                     old_entry |-> paging_get(c, page), meant |-> paging_get_physical_address(c, v),
                     source |-> 0, before |-> Translation(c)]
  <2>1. page + PAGING_IS_WRITABLE + PAGING_IS_PRESENT + PAGING_ACCESS_FROM_ALL = w
    BY <1>5 DEF PAGING_IS_WRITABLE, PAGING_IS_PRESENT, PAGING_ACCESS_FROM_ALL
  <2>2. QED
    BY <2>1 DEF CopyBegin
<1> HIDE DEF page, p, w
<1>8. Types /\ TablesExact /\ tables \in TableSet
  BY DEF IInv, Types
<1>9. /\ tables' \in TableSet
      /\ \A d \in DOMAIN directory, q \in Pages :
            Get(tables', d, q) = IF d = c /\ q = p THEN w ELSE Get(tables, d, q)
  <2>1. tables' = paging_set(tables, c, p * PageSize, w)
    BY <1>5, <1>7
  <2>2. QED
    BY <1>1, <1>5, <1>6, <1>8, <2>1, SetPage
<1>10. Types' /\ TablesExact' /\ \A t, d, q : Get(t, d, q)' = Get(t', d, q)
  <2>1. maps' \in 0..MaxMaps /\ tmp' \cap DOMAIN tables = {}
    BY <1>1, <1>4, <1>8 DEF Types
  <2>2. QED
    BY <1>1, <1>8, <1>9, <2>1, WordsOnly
<1>11. \A d \in DOMAIN directory, q \in Pages :
         Get(tables, d, q)' = IF d = c /\ q = p THEN w ELSE Get(tables, d, q)
  BY <1>9, <1>10
<1>12. paging_get(c, page) = Get(tables, c, p) /\ Get(tables, c, p) \in PageWords
  BY <1>1, <1>5, <1>8, GetPage, WordTyped
<1>13. Translation(c) = [q \in Pages |-> Get(tables, c, q)] /\ Translation(c) \in [Pages -> PageWords]
  BY <1>1, <1>8, GetTranslation, WordTyped
<1>14. /\ v \div PageSize \in Pages
       /\ paging_get_physical_address(c, v) = Frame(Get(tables, c, v \div PageSize)) + (v % PageSize)
       /\ paging_get_physical_address(c, v) \in Int
  <2>1. /\ v \div PageSize \in Pages
        /\ paging_get_physical_address(c, v) = Frame(Get(tables, c, v \div PageSize)) + (v % PageSize)
    BY Physical
  <2>2. v % PageSize \in Int
    <3>1. v \in 0..(Space - 1)
      BY CallersTyped
    <3>2. QED
      BY <3>1, AddressPage
  <2>3. Frame(Get(tables, c, v \div PageSize)) \in Int
    BY <1>1, <1>8, <2>1, WordTyped, FrameTyped
  <2>4. QED
    BY <2>1, <2>2, <2>3
<1>15. CopyInv'
  <2>1. copying' \in Calls'
    BY <1>1, <1>4, <1>7, <1>12, <1>13, <1>14 DEF Calls
  <2>2. /\ copying'.page = page /\ copying'.stage = "mapped" /\ copying'.c = c /\ copying'.v = v
        /\ copying'.before = Translation(c) /\ copying'.old_entry = paging_get(c, page)
        /\ copying'.meant = paging_get_physical_address(c, v)
    BY <1>7
  <2>3. copying'.old_entry = copying'.before[copying'.page \div PageSize]
    BY <1>5, <1>12, <1>13, <2>2 DEF p
  <2>4. \A q \in Pages : Get(tables, c, q)' =
          IF q = copying'.page \div PageSize THEN copying'.page + 7 ELSE copying'.before[q]
    BY <1>1, <1>11, <1>13, <2>2 DEF p, w
  <2>5. copying'.meant = Frame(copying'.before[copying'.v \div PageSize]) + (copying'.v % PageSize)
    BY <1>13, <1>14, <2>2
  <2>6. CopyExact'
    BY <2>2 DEF CopyExact
  <2>7. cr3' = c /\ tmp' = {copying'.page}
    BY <1>1, <2>2
  <2>8. \A q \in Pages : Get(tables, copying.c, q)' =
          IF q = copying'.page \div PageSize THEN copying'.page + 7 ELSE copying'.before[q]
    BY <2>2, <2>4 DEF Get
  <2>9. QED
    BY <2>1, <2>2, <2>3, <2>5, <2>6, <2>7, <2>8 DEF CopyInv
<1>16. QED
  BY <1>1, <1>5, <1>6, <1>10, <1>11, <1>15 DEF IInv

\* During a copy the second part of CopyInv holds.
LEMMA InCopy ==
    ASSUME IInv, copying.stage \in {"mapped", "copied"}
    PROVE  /\ copying \in Calls /\ tmp = {copying.page}
           /\ cr3 = IF copying.stage = "mapped" THEN copying.c ELSE Kernel
           /\ copying.old_entry = copying.before[copying.page \div PageSize]
           /\ \A q \in Pages : Get(tables, copying.c, q) =
                  IF q = copying.page \div PageSize THEN copying.page + 7 ELSE copying.before[q]
           /\ copying.meant = Frame(copying.before[copying.v \div PageSize]) + (copying.v % PageSize)
           /\ CopyExact
<1>1. copying # Idle
  BY DEF Idle
<1>2. QED
  BY <1>1 DEF IInv, CopyInv

LEMMA CopyStringStep ==
    ASSUME IInv, CopyString
    PROVE  IInv' /\ UNCHANGED <<directory, tables>>
<1> DEFINE v == copying.v
           c == copying.c
           page == copying.page
           src == paging_get_physical_address(cr3, v)
<1>1. /\ copying.stage = "mapped" /\ cr3' = Kernel /\ UNCHANGED <<directory, tables, tmp, maps>>
      /\ copying' = [copying EXCEPT !.stage = "copied", !.source = src]
  BY DEF CopyString
<1>2. /\ copying \in Calls /\ tmp = {page} /\ cr3 = c
      /\ copying.old_entry = copying.before[page \div PageSize]
      /\ \A q \in Pages : Get(tables, c, q) = IF q = page \div PageSize THEN page + 7 ELSE copying.before[q]
      /\ copying.meant = Frame(copying.before[v \div PageSize]) + (v % PageSize)
  BY <1>1, InCopy
<1>3. c \in DOMAIN directory /\ v \in Virts /\ page \in HeapPages
  BY <1>2 DEF Calls
<1>4. /\ v \div PageSize \in Pages /\ src = Frame(Get(tables, c, v \div PageSize)) + (v % PageSize)
  BY <1>2, <1>3, Physical
<1>5. v \in 0..(Space - 1) /\ v % PageSize \in Int /\ paging_align_to_lower_page(v) = (v \div PageSize) * PageSize
  <2>1. v \in 0..(Space - 1)
    BY <1>3, CallersTyped
  <2>2. QED
    BY <2>1, AddressPage
<1>6. src \in Int
  <2>1. Types /\ TablesExact
    BY DEF IInv
  <2>2. Frame(Get(tables, c, v \div PageSize)) \in Int
    BY <1>3, <1>4, <2>1, WordTyped, FrameTyped
  <2>3. QED
    BY <1>4, <1>5, <2>2
<1>7. page = (page \div PageSize) * PageSize /\ page \div PageSize \in Pages
  BY <1>3, HeapTyped
<1>8. \/ src = copying.meant
      \/ paging_align_to_lower_page(v) = page /\ Frame(copying.old_entry) # page
  <2>1. CASE v \div PageSize # page \div PageSize
    BY <1>2, <1>4, <2>1
  <2>2. CASE v \div PageSize = page \div PageSize
    <3>1. Frame(page + 7) = page
      <4>1. PICK p \in Pages : page = p * PageSize
        BY <1>7
      <4>2. 7 \in 0..7
        OBVIOUS
      <4>3. Frame(p * PageSize + 7) = p * PageSize
        BY <4>2, FrameOf
      <4>4. QED
        BY <4>1, <4>3
    <3>2. src = page + (v % PageSize) /\ copying.meant = Frame(copying.old_entry) + (v % PageSize)
      BY <1>2, <1>4, <2>2, <3>1
    <3>3. paging_align_to_lower_page(v) = page
      BY <1>5, <1>7, <2>2
    <3>4. QED
      BY <3>2, <3>3
  <2>3. QED
    BY <2>1, <2>2
<1> HIDE DEF src
<1>9. /\ copying' \in Calls /\ copying'.stage = "copied" /\ copying'.c = c /\ copying'.v = v
      /\ copying'.page = page /\ copying'.old_entry = copying.old_entry /\ copying'.before = copying.before
      /\ copying'.meant = copying.meant /\ copying'.source = src
  BY <1>1, <1>2, <1>6 DEF Calls
<1>10. CopyExact'
  BY <1>8, <1>9 DEF CopyExact
<1>11. Types' /\ TablesExact'
  BY <1>1 DEF IInv, Types, TableSet, TablesExact
<1>12. CopyInv'
  <2>1. Calls' = Calls /\ \A q : Get(tables, copying.c, q)' = Get(tables, c, q)
    BY <1>1, <1>9 DEF Calls, Get
  <2>2. QED
    BY <1>1, <1>2, <1>9, <1>10, <2>1 DEF CopyInv
<1>13. QED
  BY <1>1, <1>11, <1>12 DEF IInv

LEMMA CopyEndStep ==
    ASSUME IInv, CopyEnd
    PROVE  /\ IInv' /\ copying.c \in DOMAIN directory /\ UNCHANGED directory
           /\ \A q \in Pages : \A c : copying.c = c => Get(tables, c, q)' = copying.before[q]
           /\ \E p \in Pages, w \in PageWords : \A d \in DOMAIN directory, q \in Pages :
                 Get(tables, d, q)' = IF d = copying.c /\ q = p THEN w ELSE Get(tables, d, q)
<1>1. /\ copying.stage = "copied" /\ tmp' = {} /\ copying' = Idle /\ UNCHANGED <<directory, cr3, maps>>
      /\ tables' = paging_set(tables, copying.c, copying.page, copying.old_entry)
  BY DEF CopyEnd
<1>2. /\ copying \in Calls /\ cr3 = Kernel
      /\ copying.old_entry = copying.before[copying.page \div PageSize]
      /\ \A q \in Pages : Get(tables, copying.c, q) =
              IF q = copying.page \div PageSize THEN copying.page + 7 ELSE copying.before[q]
  BY <1>1, InCopy
<1>3. PICK c \in DOMAIN directory, w \in PageWords, p \in Pages :
        /\ c = copying.c /\ w = copying.old_entry /\ p = copying.page \div PageSize
        /\ copying.page = p * PageSize
  BY <1>2, HeapTyped DEF Calls
<1>4. Types /\ TablesExact /\ tables \in TableSet
  BY DEF IInv, Types
<1>5. /\ tables' \in TableSet
      /\ \A d \in DOMAIN directory, q \in Pages :
            Get(tables', d, q) = IF d = c /\ q = p THEN w ELSE Get(tables, d, q)
  <2>1. tables' = paging_set(tables, c, p * PageSize, w)
    BY <1>1, <1>3
  <2>2. QED
    BY <1>4, <2>1, SetPage
<1>6. Types' /\ TablesExact' /\ \A t, d, q : Get(t, d, q)' = Get(t', d, q)
  <2>1. maps' \in 0..MaxMaps /\ tmp' \cap DOMAIN tables = {}
    BY <1>1, <1>4 DEF Types
  <2>2. QED
    BY <1>1, <1>4, <1>5, <2>1, WordsOnly
<1>7. \A d \in DOMAIN directory, q \in Pages :
         Get(tables, d, q)' = IF d = c /\ q = p THEN w ELSE Get(tables, d, q)
  BY <1>5, <1>6
<1>8. \A q \in Pages : Get(tables, c, q)' = copying.before[q]
  BY <1>2, <1>3, <1>7
<1>9. CopyInv'
  BY <1>1, <1>2 DEF CopyInv
<1>10. QED
  BY <1>1, <1>3, <1>6, <1>7, <1>8, <1>9 DEF IInv

-----------------------------------------------------------------------------
(***************************************************************************)
(* The theorems.                                                           *)
(***************************************************************************)
LEMMA InvInit == Init => IInv
<1> SUFFICES ASSUME Init PROVE IInv
  OBVIOUS
<1>1. DOMAIN directory = {} /\ DOMAIN tables = {} /\ maps = 0 /\ tmp = {} /\ copying = Idle /\ cr3 = Kernel
  BY DEF Init
<1>2. tables \in TableSet
  BY <1>1 DEF TableSet, Init
<1>3. Types
  BY <1>1, <1>2, PagingAssumption DEF Types
<1>4. TablesExact
  BY <1>1 DEF TablesExact
<1>5. QED
  BY <1>1, <1>3, <1>4 DEF IInv, CopyInv

LEMMA InvStep == IInv /\ [Next]_vars => IInv'
<1> SUFFICES ASSUME IInv, [Next]_vars PROVE IInv'
  OBVIOUS
<1>1. ASSUME NEW c \in Chunks, NEW flags \in NewFlags, paging_new_4gb(c, flags) PROVE IInv'
  BY <1>1, NewStep
<1>2. ASSUME NEW c \in Chunks, paging_free_4gb(c) PROVE IInv'
  BY <1>2, FreeStep
<1>3. ASSUME NEW c \in Chunks, NEW virt \in Virts, NEW phys \in Physs, NEW phys_end \in Ends,
             NEW flags \in Flags, paging_map_to(c, virt, phys, phys_end, flags)
      PROVE  IInv'
  BY <1>3, MapToStep
<1>4. ASSUME NEW c \in Chunks, NEW v \in Virts, CopyBegin(c, v) PROVE IInv'
  BY <1>4, CopyBeginStep
<1>5. CASE CopyString
  BY <1>5, CopyStringStep
<1>6. CASE CopyEnd
  BY <1>6, CopyEndStep
<1>7. CASE UNCHANGED vars
  <2>1. Types' /\ TablesExact'
    BY <1>7 DEF vars, IInv, Types, TablesExact, TableSet
  <2>2. CopyInv'
    <3>1. UNCHANGED <<directory, tables, cr3, copying, tmp>>
      BY <1>7 DEF vars
    <3>2. Calls' = Calls /\ (CopyExact' <=> CopyExact) /\ \A q : Get(tables, copying.c, q)' = Get(tables, copying.c, q)
      BY <3>1 DEF Calls, CopyExact, Get
    <3>3. QED
      BY <3>1, <3>2 DEF IInv, CopyInv
  <2>3. QED
    BY <2>1, <2>2 DEF IInv
<1>8. QED
  BY <1>1, <1>2, <1>3, <1>4, <1>5, <1>6, <1>7 DEF Next

LEMMA InvAlways == Spec => []IInv
<1>1. QED
  BY InvInit, InvStep, PTL DEF Spec

\* Spec => []TypeOK: every word that paging.c stores is an address of the
\* machine with its flags, and every table is a page of the heap.
THEOREM TypeCorrect == Spec => []TypeOK
<1>1. IInv => TypeOK
  <2> SUFFICES ASSUME IInv PROVE TypeOK
    OBVIOUS
  <2>1. Types
    BY DEF IInv
  <2>2. \A a \in DOMAIN tables : tables[a] \in [Indices -> 0..(Space - 1)]
    BY <2>1, WordsTyped DEF Types, TableSet
  <2>3. /\ cr3 \in Chunks \cup {Kernel} /\ copying.stage \in {"idle", "mapped", "copied"}
        /\ tmp \subseteq HeapPages
    BY <2>1 DEF IInv, CopyInv, Calls, Idle, Types
  <2>4. QED
    BY <2>1, <2>2, <2>3 DEF Types, TypeOK
<1>2. QED
  BY <1>1, InvAlways, PTL

\* Spec => []TablesExact: paging_free_4gb gives back every table of the chunk
\* and no page of any other, however paging_new_4gb, paging_free_4gb and
\* copy_string_from_task alternate in the heap.
THEOREM TablesAlwaysExact == Spec => []TablesExact
<1>1. IInv => TablesExact
  BY DEF IInv
<1>2. QED
  BY <1>1, InvAlways, PTL

\* Spec => []CopySafe: copy_string_from_task runs in the task's tables only
\* while it copies, and copies what the task means by the address.
THEOREM CopyAlwaysSafe == Spec => []CopySafe
<1>1. IInv => CopySafe
  BY DEF IInv, CopyInv, CopySafe, KernelOutsideCopy, CopyExact, Idle
<1>2. QED
  BY <1>1, InvAlways, PTL

LEMMA StepBack ==
    ASSUME NEW p \in Pages, NEW v \in Pages
    PROVE  /\ (p * PageSize - v * PageSize) % Space = Off(p, v) * PageSize
           /\ Off(p, v) \in 0..(Count - 1)
<1> DEFINE o == Off(p, v)
           k == IF p >= v THEN 0 ELSE -1
<1>1. /\ Count \in Nat \ {0} /\ p \in 0..(Count - 1) /\ v \in 0..(Count - 1)
      /\ PageSize \in Nat \ {0} /\ Space \in Nat \ {0} /\ Space = PageSize * Count
  BY Constants
<1>2. o = IF p >= v THEN p - v ELSE p - v + Count
  BY <1>1, RingSub DEF Off
<1>3. o \in 0..(Count - 1) /\ o \in Pages /\ k \in Int
  BY <1>1, <1>2, Constants
<1>4. p - v = Count * k + o
  BY <1>1, <1>2
<1> HIDE DEF o, k
<1>5. PICK z \in 0..(Space - 1) : z = o * PageSize
  BY <1>3, PageAddress
<1>6. p * PageSize - v * PageSize = Space * k + z
  <2>1. p * PageSize - v * PageSize = (Count * k + o) * PageSize
    BY <1>1, <1>4
  <2>2. (Count * k + o) * PageSize = (PageSize * Count) * k + o * PageSize
    BY <1>1, <1>3
  <2>3. QED
    BY <1>1, <1>5, <2>1, <2>2
<1>7. (Space * k + z) % Space = z
  BY <1>1, <1>3, <1>5, DivModUnique
<1>8. QED
  BY <1>3, <1>5, <1>6, <1>7, Zenon DEF o

LEMMA MapExactStep == IInv => MapExact
<1> SUFFICES ASSUME IInv, NEW c \in DOMAIN directory, NEW virt \in Virts, NEW phys \in Physs,
                    NEW phys_end \in Ends, NEW flags \in Flags,
                    paging_map_to(c, virt, phys, phys_end, flags), NEW p \in Pages
             PROVE  LET at == (p * PageSize - virt) % Space
                    IN  paging_get(c, p * PageSize)' =
                          IF virt % PageSize = 0 /\ phys % PageSize = 0 /\ phys_end % PageSize = 0
                                /\ phys + at < phys_end
                          THEN phys + at + flags
                          ELSE paging_get(c, p * PageSize)
  BY DEF MapExact
<1> DEFINE at == (p * PageSize - virt) % Space
           All == virt % PageSize = 0 /\ phys % PageSize = 0 /\ phys_end % PageSize = 0
<1>1. paging_get(c, p * PageSize) = Get(tables, c, p) /\ paging_get(c, p * PageSize)' = Get(tables, c, p)'
  BY PageSlot DEF paging_get, TableOf, Get
<1>2. c \in Chunks
  BY DEF IInv, Types
<1>3. /\ virt \in 0..(Space - 1) /\ phys \in 0..(Space - 1) /\ phys_end \in 0..(Space - 1)
  BY CallersTyped
<1>4. flags \in Int
  BY FlagsSmall
<1>5. at \in Nat
  <2>1. \A z \in Int : z % Space \in 0..(Space - 1)
    BY Constants, DivMod
  <2>2. p * PageSize - virt \in Int
    BY <1>3, PageAddress
  <2>3. QED
    BY <2>1, <2>2, Constants
<1> HIDE DEF at
<1>6. CASE /\ UNCHANGED tables /\ UNCHANGED directory
           /\ ~((\A a \in {virt, phys, phys_end} : paging_is_aligned(a)) /\ phys_end >= phys)
  <2>1. ~(All /\ phys + at < phys_end)
    <3>1. phys + at < phys_end => phys_end >= phys
      BY <1>3, <1>5
    <3>2. All => \A a \in {virt, phys, phys_end} : paging_is_aligned(a)
      BY DEF paging_is_aligned
    <3>3. QED
      BY <1>6, <3>1, <3>2
  <2>2. Get(tables, c, p)' = Get(tables, c, p)
    BY <1>6 DEF Get
  <2>3. QED
    BY <1>1, <2>1, <2>2 DEF at
<1>7. ASSUME NEW v \in Pages, NEW fp \in Pages, NEW ep \in Pages, Ranges(virt, phys, phys_end, v, fp, ep),
             Get(tables, c, p)' = IF Off(p, v) < ep - fp THEN (fp + Off(p, v)) * PageSize + flags
                                  ELSE Get(tables, c, p)
      PROVE  Get(tables, c, p)' = IF All /\ phys + at < phys_end THEN phys + at + flags ELSE Get(tables, c, p)
  <2> DEFINE o == Off(p, v)
  <2>1. at = o * PageSize /\ o \in 0..(Count - 1)
    BY <1>7, StepBack DEF Ranges, at
  <2>2. All
    BY <1>7, PageAddress DEF Ranges, paging_is_aligned
  <2> HIDE DEF o
  <2>3. /\ PageSize \in Nat \ {0} /\ o \in Nat /\ fp \in Nat /\ ep \in Nat
    BY <1>7, <2>1, Constants
  <2>4. (fp + o) * PageSize = phys + at
    <3>1. (fp + o) * PageSize = fp * PageSize + o * PageSize
      BY <2>3
    <3>2. QED
      BY <1>7, <2>1, <3>1 DEF Ranges
  <2>5. phys + at < phys_end <=> o < ep - fp
    <3>1. PageSize * (fp + o) < PageSize * ep <=> fp + o < ep
      BY <2>3, MulLess
    <3>2. PageSize * (fp + o) = (fp + o) * PageSize /\ PageSize * ep = ep * PageSize
      BY <2>3
    <3>3. QED
      BY <1>7, <2>3, <2>4, <3>1, <3>2 DEF Ranges
  <2>6. QED
    BY <1>7, <2>2, <2>4, <2>5 DEF o
<1>8. QED
  <2>1. \/ /\ UNCHANGED tables /\ UNCHANGED directory
           /\ ~((\A a \in {virt, phys, phys_end} : paging_is_aligned(a)) /\ phys_end >= phys)
        \/ \E v, fp, ep \in Pages :
              /\ Ranges(virt, phys, phys_end, v, fp, ep)
              /\ Get(tables, c, p)' = IF Off(p, v) < ep - fp THEN (fp + Off(p, v)) * PageSize + flags
                                      ELSE Get(tables, c, p)
    BY <1>2, MapToStep
  <2>2. QED
    BY <1>1, <1>6, <1>7, <2>1 DEF at

LEMMA CopyRestoresStep == IInv /\ [Next]_vars => CopyRestores
<1> SUFFICES ASSUME IInv, [Next]_vars, NEW c \in Chunks, copying.stage = "copied", copying.c = c, copying' = Idle
             PROVE  Translation(c)' = copying.before
  BY DEF CopyRestores
<1>1. copying # Idle /\ copying' # copying
  BY DEF Idle
<1>2. CopyEnd
  BY <1>1 DEF Next, vars, paging_new_4gb, paging_free_4gb, paging_map_to, CopyBegin, CopyString
<1>3. \A q \in Pages : Get(tables, c, q)' = copying.before[q]
  BY <1>2, CopyEndStep
<1>4. \A q \in Pages : paging_get(c, q * PageSize)' = Get(tables, c, q)'
  BY PageSlot DEF paging_get, TableOf, Get
<1>5. copying.before \in [Pages -> PageWords]
  BY InCopy DEF Calls
<1>6. QED
  BY <1>3, <1>4, <1>5 DEF Translation

\* Spec => EditsExact: paging_map_to maps exactly the pages of its range, and
\* copy_string_from_task leaves every page as it found it.
THEOREM EditsAlwaysExact == Spec => EditsExact
<1>1. IInv /\ [Next]_vars => [MapExact /\ CopyRestores]_vars
  BY MapExactStep, CopyRestoresStep
<1>2. QED
  BY <1>1, InvAlways, PTL DEF Spec, EditsExact

-----------------------------------------------------------------------------
(***************************************************************************)
(* The tables implement address spaces.                                    *)
(***************************************************************************)
Abstract == [c \in DOMAIN directory |-> Translation(c)]

LEMMA AbstractParts ==
    /\ A!Pages = Pages /\ A!Words = PageWords
    /\ \A c \in DOMAIN directory : \A q \in Pages : Abstract[c][q] = Get(tables, c, q)
    /\ \A c \in DOMAIN directory : Abstract[c] = [q \in Pages |-> Get(tables, c, q)]
    /\ DOMAIN Abstract = DOMAIN directory
<1>1. A!Pages = Pages
  BY DEF A!Pages, Pages
<1>2. A!Words = PageWords
  BY <1>1 DEF A!Words, PageWords
<1>3. \A c : Translation(c) = [q \in Pages |-> Get(tables, c, q)]
  BY GetTranslation
<1>4. QED
  BY <1>1, <1>2, <1>3 DEF Abstract

LEMMA AbstractPrimed ==
    /\ \A c \in DOMAIN directory' : \A q \in Pages : Abstract'[c][q] = Get(tables, c, q)'
    /\ \A c \in DOMAIN directory' : Abstract'[c] = [q \in Pages |-> Get(tables, c, q)']
    /\ DOMAIN Abstract' = DOMAIN directory'
<1>1. \A c : \A q \in Pages : paging_get(c, q * PageSize)' = Get(tables, c, q)'
  BY PageSlot DEF paging_get, TableOf, Get
<1>2. \A c : Translation(c)' = [q \in Pages |-> Get(tables, c, q)']
  BY <1>1 DEF Translation
<1>3. QED
  BY <1>2 DEF Abstract

\* Steps that change the words of consecutive pages of one chunk.
LEMMA MapsPages ==
    ASSUME IInv, NEW c \in DOMAIN directory, UNCHANGED directory, NEW v \in Pages,
           NEW n \in Nat \ {0}, n < Count, NEW w \in PageWords,
           \A d \in DOMAIN directory, q \in Pages :
              Get(tables, d, q)' = IF d = c /\ Off(q, v) < n THEN w + Off(q, v) * PageSize ELSE Get(tables, d, q)
    PROVE  A!Next
<1>1. c \in Chunks
  BY DEF IInv, Types
<1>2. Off(v, v) = 0
  <2>1. 0 \in 0..(Count - 1) /\ v \in 0..(Count - 1) /\ Count \in Nat \ {0}
    BY Constants
  <2>2. QED
    BY <2>1, RingSub DEF Off
<1>3. Get(tables, c, v)' = w
  <2>1. Get(tables, c, v)' = w + 0 * PageSize
    BY <1>2
  <2>2. w \in Int /\ 0 * PageSize = 0
    BY WordsTyped, Constants
  <2>3. QED
    BY <2>1, <2>2
<1>4. Abstract'[c][v] = w
  BY <1>3, AbstractPrimed
<1>5. \A d \in DOMAIN directory \ {c} : Abstract'[d] = Abstract[d]
  <2>1. ASSUME NEW d \in DOMAIN directory \ {c}
        PROVE  Abstract'[d] = Abstract[d]
    <3>1. \A q \in Pages : Get(tables, d, q)' = Get(tables, d, q)
      OBVIOUS
    <3>2. QED
      BY <3>1, AbstractParts, AbstractPrimed
  <2>2. QED
    BY <2>1
<1>6. \A q \in Pages : Abstract'[c][q] =
        IF (q - v) % (Entries * Entries) < n THEN w + ((q - v) % (Entries * Entries)) * PageSize
        ELSE Abstract[c][q]
  BY AbstractParts, AbstractPrimed DEF Off, Count
<1>7. A!Map(c, v, n)
  <2>1. DOMAIN Abstract' = DOMAIN Abstract /\ c \in DOMAIN Abstract /\ DOMAIN Abstract = DOMAIN directory
    BY AbstractParts, AbstractPrimed
  <2>2. Pages = A!Pages /\ PageWords = A!Words
    BY AbstractParts
  <2>3. QED
    BY <1>4, <1>5, <1>6, <2>1, <2>2 DEF A!Map, Abstract
<1>8. v \in A!Pages /\ n \in 1..(Entries * Entries - 1)
  BY AbstractParts, Constants DEF Count
<1>9. QED
  BY <1>1, <1>7, <1>8 DEF A!Next

LEMMA SetsPage ==
    ASSUME IInv, NEW c \in DOMAIN directory, UNCHANGED directory, NEW p \in Pages, NEW w \in PageWords,
           \A d \in DOMAIN directory, q \in Pages :
              Get(tables, d, q)' = IF d = c /\ q = p THEN w ELSE Get(tables, d, q)
    PROVE  A!Next
<1>1. 1 < Count
  <2>1. 0 \in Indices
    BY Constants DEF Indices
  <2>2. Frame(directory[c][0]) \in HeapPages
    BY <2>1 DEF IInv, Types, TablesExact
  <2>3. PICK r \in Pages \ {0} : TRUE
    BY <2>2, PagingAssumption
  <2>4. QED
    BY <2>3, Constants
<1>2. ASSUME NEW q \in Pages
      PROVE  (Off(q, p) < 1 <=> q = p) /\ (Off(q, p) < 1 => w + Off(q, p) * PageSize = w)
  <2>1. Count \in Nat \ {0} /\ p \in 0..(Count - 1) /\ q \in 0..(Count - 1)
    BY Constants
  <2>2. Off(q, p) = IF q >= p THEN q - p ELSE q - p + Count
    BY <2>1, RingSub DEF Off
  <2>3. Off(q, p) < 1 <=> q = p
    BY <2>1, <2>2
  <2>4. q = p => w + Off(q, p) * PageSize = w
    BY <2>1, <2>2, WordsTyped, Constants
  <2>5. QED
    BY <2>3, <2>4
<1>3. \A d \in DOMAIN directory, q \in Pages :
        Get(tables, d, q)' = IF d = c /\ Off(q, p) < 1 THEN w + Off(q, p) * PageSize ELSE Get(tables, d, q)
  BY <1>2
<1>4. 1 \in Nat \ {0}
  OBVIOUS
<1>5. QED
  BY <1>1, <1>3, <1>4, MapsPages

LEMMA AbstractInit == Init => A!Init
<1> SUFFICES ASSUME Init PROVE A!Init
  OBVIOUS
<1>1. directory = <<>> /\ DOMAIN directory = {}
  BY DEF Init
<1>2. Abstract = <<>>
  BY <1>1 DEF Abstract
<1>3. QED
  BY <1>2 DEF A!Init, Abstract

LEMMA AbstractStep == IInv /\ [Next]_vars => [A!Next]_Abstract
<1> SUFFICES ASSUME IInv, [Next]_vars PROVE A!Next \/ Abstract' = Abstract
  OBVIOUS
<1>1. ASSUME NEW c \in Chunks, NEW flags \in NewFlags, paging_new_4gb(c, flags) PROVE A!Next
  <2>1. /\ c \notin DOMAIN directory /\ DOMAIN directory' = DOMAIN directory \cup {c}
        /\ \A q \in Pages : Get(tables, c, q)' = q * PageSize + flags
        /\ \A d \in DOMAIN directory, q \in Pages : Get(tables, d, q)' = Get(tables, d, q)
    BY <1>1, NewStep
  <2>2. Abstract'[c] = [q \in Pages |-> q * PageSize + flags]
    <3>1. c \in DOMAIN directory'
      BY <2>1
    <3>2. Abstract'[c] = [q \in Pages |-> Get(tables, c, q)']
      BY <3>1, AbstractPrimed
    <3>3. QED
      BY <2>1, <3>2
  <2>3. ASSUME NEW d \in DOMAIN directory PROVE Abstract'[d] = Abstract[d]
    BY <2>1, AbstractParts, AbstractPrimed
  <2>4. Abstract' = [d \in DOMAIN Abstract \cup {c} |->
                       IF d = c THEN [q \in A!Pages |-> q * PageSize + flags] ELSE Abstract[d]]
    <3>1. Abstract' = [d \in DOMAIN directory' |-> Abstract'[d]]
      BY DEF Abstract
    <3>2. DOMAIN Abstract = DOMAIN directory /\ A!Pages = Pages
      BY AbstractParts
    <3>3. QED
      BY <2>1, <2>2, <2>3, <3>1, <3>2
  <2>5. flags \in AllFlags /\ c \notin DOMAIN Abstract
    BY <2>1, FlagsSmall, AbstractParts
  <2>6. A!New(c, flags)
    BY <2>4, <2>5 DEF A!New, Abstract
  <2>7. QED
    BY <1>1, <2>5, <2>6 DEF A!Next
<1>2. ASSUME NEW c \in Chunks, paging_free_4gb(c) PROVE A!Next
  <2>1. /\ c \in DOMAIN directory /\ DOMAIN directory' = DOMAIN directory \ {c}
        /\ \A d \in DOMAIN directory \ {c}, q \in Pages : Get(tables, d, q)' = Get(tables, d, q)
    BY <1>2, FreeStep
  <2>2. ASSUME NEW d \in DOMAIN directory \ {c} PROVE Abstract'[d] = Abstract[d]
    BY <2>1, AbstractParts, AbstractPrimed
  <2>3. Abstract' = [d \in DOMAIN Abstract \ {c} |-> Abstract[d]] /\ c \in DOMAIN Abstract
    <3>1. Abstract' = [d \in DOMAIN directory' |-> Abstract'[d]]
      BY DEF Abstract
    <3>2. DOMAIN Abstract = DOMAIN directory
      BY AbstractParts
    <3>3. QED
      BY <2>1, <2>2, <3>1, <3>2
  <2>4. A!Free(c)
    BY <2>3 DEF A!Free, Abstract
  <2>5. QED
    BY <1>2, <2>4 DEF A!Next
<1>3. ASSUME UNCHANGED <<directory, tables>> PROVE Abstract' = Abstract
  BY <1>3 DEF Abstract, Translation, paging_get, TableOf
<1>4. ASSUME NEW c \in Chunks, NEW virt \in Virts, NEW phys \in Physs, NEW phys_end \in Ends,
             NEW flags \in Flags, paging_map_to(c, virt, phys, phys_end, flags)
      PROVE  A!Next \/ Abstract' = Abstract
  <2>1. c \in DOMAIN directory /\ UNCHANGED directory
    BY <1>4, MapToStep
  <2>2. CASE UNCHANGED tables
    BY <1>3, <2>1, <2>2
  <2>3. ASSUME NEW v \in Pages, NEW fp \in Pages, NEW ep \in Pages, ep >= fp,
               \A d \in DOMAIN directory, q \in Pages :
                  Get(tables, d, q)' = IF d = c /\ Off(q, v) < ep - fp
                                       THEN (fp + Off(q, v)) * PageSize + flags ELSE Get(tables, d, q)
        PROVE  A!Next \/ Abstract' = Abstract
    <3>1. fp \in Nat /\ ep \in Nat /\ ep < Count /\ PageSize \in Nat /\ Count \in Nat /\ flags \in Nat
      BY <2>3, Constants, FlagsSmall
    <3>2. \A q \in Pages : Off(q, v) \in Nat
      BY <2>3, StepBack
    <3>3. CASE ep = fp
      <4>1. \A q \in Pages : ~(Off(q, v) < ep - fp)
        BY <3>1, <3>2, <3>3
      <4>2. \A d \in DOMAIN directory, q \in Pages : Get(tables, d, q)' = Get(tables, d, q)
        BY <2>3, <4>1
      <4>3. \A d \in DOMAIN directory : Abstract'[d] = Abstract[d]
        BY <2>1, <4>2, AbstractParts, AbstractPrimed
      <4>4. Abstract' = [d \in DOMAIN directory |-> Abstract'[d]] /\ Abstract = [d \in DOMAIN directory |-> Abstract[d]]
        BY <2>1 DEF Abstract
      <4>5. QED
        BY <4>3, <4>4
    <3>4. CASE ep # fp
      <4>1. PICK n \in Nat \ {0} : n = ep - fp
        BY <2>3, <3>1, <3>4
      <4>2. n < Count
        BY <3>1, <4>1
      <4>3. PICK w \in PageWords : w = fp * PageSize + flags
        BY <2>3, FlagsSmall DEF PageWords
      <4>4. \A q \in Pages : (fp + Off(q, v)) * PageSize + flags = w + Off(q, v) * PageSize
        BY <3>1, <3>2, <4>3
      <4>5. \A d \in DOMAIN directory, q \in Pages :
               Get(tables, d, q)' = IF d = c /\ Off(q, v) < n THEN w + Off(q, v) * PageSize ELSE Get(tables, d, q)
        BY <2>3, <4>1, <4>4
      <4>6. QED
        BY <2>1, <2>3, <4>2, <4>5, MapsPages
    <3>5. QED
      BY <3>3, <3>4
  <2>4. QED
    BY <1>4, <2>2, <2>3, MapToStep
<1>5. ASSUME NEW c \in Chunks, NEW v \in Virts, CopyBegin(c, v) PROVE A!Next
  <2>1. PICK p \in Pages, w \in PageWords : \A d \in DOMAIN directory, q \in Pages :
          Get(tables, d, q)' = IF d = c /\ q = p THEN w ELSE Get(tables, d, q)
    BY <1>5, CopyBeginStep
  <2>2. c \in DOMAIN directory /\ UNCHANGED directory
    BY <1>5, CopyBeginStep
  <2>3. QED
    BY <2>1, <2>2, SetsPage
<1>6. CASE CopyEnd
  <2>1. PICK p \in Pages, w \in PageWords : \A d \in DOMAIN directory, q \in Pages :
          Get(tables, d, q)' = IF d = copying.c /\ q = p THEN w ELSE Get(tables, d, q)
    BY <1>6, CopyEndStep
  <2>2. PICK c \in DOMAIN directory : c = copying.c
    BY <1>6, CopyEndStep
  <2>3. UNCHANGED directory
    BY <1>6, CopyEndStep
  <2>4. QED
    BY <2>1, <2>2, <2>3, SetsPage
<1>7. CASE CopyString \/ UNCHANGED vars
  BY <1>3, <1>7 DEF CopyString, vars
<1>8. QED
  BY <1>1, <1>2, <1>4, <1>5, <1>6, <1>7 DEF Next

\* Spec => ImplementsAddressSpace: seen through paging_get, the two-level tables
\* behave as independent address spaces in which an operation changes the
\* pages it is asked to change and no other.
THEOREM PagingImplementsAddressSpace == Spec => ImplementsAddressSpace
<1>1. Init => A!Init
  BY AbstractInit
<1>2. IInv /\ [Next]_vars => [A!Next]_([c \in DOMAIN directory |-> Translation(c)])
  BY AbstractStep DEF Abstract
<1>3. QED
  BY <1>1, <1>2, InvAlways, PTL DEF Spec, ImplementsAddressSpace, A!Spec
=============================================================================

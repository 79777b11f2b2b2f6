------------------------------ MODULE NatLemmas ------------------------------
(***************************************************************************)
(* Facts about numbers that several proofs need: least and greatest        *)
(* elements, induction for sets of natural numbers, functions defined by   *)
(* recursion and the ranks of the members of a set, all of them from the   *)
(* well-foundedness of the natural numbers; quotients and remainders.      *)
(***************************************************************************)
EXTENDS Integers, FiniteSetsExt, FiniteSetTheorems, WellFoundedInduction, TLAPS

\* Every set of natural numbers that is not empty has a least element.
LEMMA LeastExists ==
    ASSUME NEW S \in SUBSET Nat, S # {}
    PROVE  \E n \in S : \A m \in S : n <= m
<1>1. \E n \in S : \A m \in S : <<m, n>> \notin OpToRel(<, Nat)
  BY NatLessThanWellFounded, WFMin, Zenon
<1>2. \E n \in S : \A m \in S : ~(m < n)
  BY <1>1, Zenon DEF OpToRel
<1>3. QED
  BY <1>2

\* What Min of FiniteSetsExt returns for such a set.
LEMMA MinOf ==
    ASSUME NEW S \in SUBSET Nat, S # {}
    PROVE  Min(S) \in S /\ \A m \in S : Min(S) <= m
BY LeastExists DEF Min

\* What Max returns for a set of natural numbers with an upper bound.
LEMMA MaxOf ==
    ASSUME NEW b \in Nat, NEW S \in SUBSET 0..b, S # {}
    PROVE  Max(S) \in S /\ \A m \in S : m <= Max(S)
<1> DEFINE R == {n \in Nat : b - n \in S}
<1>1. R # {}
  <2>1. PICK m \in S : TRUE
    OBVIOUS
  <2>2. b - m \in R
    BY <2>1
  <2>3. QED
    BY <2>2
<1>2. PICK n \in R : \A m \in R : n <= m
  BY <1>1, LeastExists
<1>3. b - n \in S /\ \A m \in S : b - n >= m
  <2>1. ASSUME NEW m \in S PROVE b - n >= m
    <3>1. b - m \in R
      OBVIOUS
    <3>2. QED
      BY <1>2, <3>1
  <2>2. QED
    BY <2>1
<1>4. \E x \in S : \A m \in S : x >= m
  BY <1>3
<1>5. Max(S) \in S /\ \A m \in S : Max(S) >= m
  BY <1>4 DEF Max
<1>6. QED
  BY <1>5

\* Induction, for a set in place of a predicate.
LEMMA SetInduction ==
    ASSUME NEW S, 0 \in S, \A n \in Nat : n \in S => n + 1 \in S
    PROVE  Nat \subseteq S
<1> SUFFICES ASSUME Nat \ S # {} PROVE FALSE
  OBVIOUS
<1>1. PICK n \in Nat \ S : \A m \in Nat \ S : n <= m
  BY LeastExists
<1>2. n # 0 /\ n - 1 \in Nat
  BY <1>1
<1>3. n - 1 \in S
  BY <1>1, <1>2
<1>4. QED
  BY <1>1, <1>2, <1>3

\* A function defined by recursion over 0..n exists.
Iterates(m, n, t, F) == m[0] = t /\ \A i \in 1..n : m[i] = F[i][m[i - 1]]

LEMMA IterationExists ==
    ASSUME NEW n \in Nat, NEW T, NEW t \in T, NEW F \in [1..n -> [T -> T]]
    PROVE  \E m \in [0..n -> T] : Iterates(m, n, t, F)
<1> DEFINE Good(k, m) == m[0] = t /\ \A i \in 1..k : m[i] = F[i][m[i - 1]]
           S == {k \in Nat : k <= n => \E m \in [0..k -> T] : Good(k, m)}
<1>1. 0 \in S
  <2>1. [i \in 0..0 |-> t] \in [0..0 -> T] /\ Good(0, [i \in 0..0 |-> t])
    OBVIOUS
  <2>2. QED
    BY <2>1
<1>2. ASSUME NEW k \in Nat, k \in S PROVE k + 1 \in S
  <2> SUFFICES ASSUME k + 1 <= n PROVE \E m \in [0..(k + 1) -> T] : Good(k + 1, m)
    OBVIOUS
  <2>1. PICK m \in [0..k -> T] : Good(k, m)
    BY <1>2
  <2> DEFINE w == F[k + 1][m[k]]
             l == [i \in 0..(k + 1) |-> IF i = k + 1 THEN w ELSE m[i]]
  <2>2. w \in T
    <3>1. k + 1 \in 1..n /\ m[k] \in T
      OBVIOUS
    <3>2. F[k + 1] \in [T -> T]
      BY <3>1
    <3>3. QED
      BY <3>1, <3>2
  <2>3. l \in [0..(k + 1) -> T]
    <3> HIDE DEF w
    <3>1. \A i \in 0..(k + 1) : i # k + 1 => i \in 0..k
      OBVIOUS
    <3>2. QED
      BY <2>2, <3>1
  <2>4. Good(k + 1, l)
    <3>1. l[0] = t
      BY <2>1
    <3>2. ASSUME NEW i \in 1..(k + 1) PROVE l[i] = F[i][l[i - 1]]
      <4>1. CASE i = k + 1
        <5>1. l[i] = w /\ i - 1 = k /\ l[k] = m[k]
          BY <4>1
        <5>2. QED
          BY <4>1, <5>1
      <4>2. CASE i # k + 1
        <5>1. i \in 1..k /\ i - 1 \in 0..k /\ i - 1 # k + 1
          BY <4>2
        <5>2. l[i] = m[i] /\ l[i - 1] = m[i - 1]
          BY <5>1
        <5>3. QED
          BY <2>1, <5>1, <5>2
      <4>3. QED
        BY <4>1, <4>2
    <3>3. QED
      BY <3>1, <3>2
  <2>5. QED
    BY <2>3, <2>4
<1>3. n \in S
  <2> HIDE DEF S
  <2>1. Nat \subseteq S
    BY <1>1, <1>2, SetInduction
  <2>2. QED
    BY <2>1
<1>4. QED
  BY <1>3 DEF Iterates

-----------------------------------------------------------------------------
(***************************************************************************)
(* Quotient and remainder.                                                 *)
(***************************************************************************)
LEMMA DivMod ==
    ASSUME NEW a \in Int, NEW m \in Nat \ {0}
    PROVE  /\ a \div m \in Int /\ a % m \in 0..(m - 1)
           /\ a = m * (a \div m) + (a % m)
BY SMT

LEMMA DivModUnique ==
    ASSUME NEW q \in Int, NEW m \in Nat \ {0}, NEW r \in 0..(m - 1)
    PROVE  (m * q + r) \div m = q /\ (m * q + r) % m = r
BY SMT

LEMMA ModSmall ==
    ASSUME NEW m \in Nat \ {0}, NEW r \in 0..(m - 1)
    PROVE  r % m = r /\ r \div m = 0
BY SMT

LEMMA MulLess ==
    ASSUME NEW m \in Nat \ {0}, NEW x \in Int, NEW y \in Int
    PROVE  /\ m * x \in Int /\ m * (x + 1) = m * x + m /\ m * (x + y) = m * x + m * y
           /\ m * x < m * y <=> x < y
           /\ m * (x - y) = m * x - m * y
BY SMT

LEMMA DivBetween ==
    ASSUME NEW m \in Nat \ {0}, NEW q \in Int, NEW a \in Int, m * q <= a, a < m * q + m
    PROVE  a \div m = q
<1>1. a - m * q \in 0..(m - 1) /\ a = m * q + (a - m * q)
  BY MulLess
<1>2. QED
  BY <1>1, DivModUnique

\* Sums and differences modulo n, of numbers below n.
LEMMA RingAdd ==
    ASSUME NEW n \in Nat \ {0}, NEW a \in 0..(n - 1), NEW b \in 0..(n - 1)
    PROVE  (a + b) % n = IF a + b < n THEN a + b ELSE a + b - n
<1>1. CASE a + b < n
  BY <1>1, ModSmall
<1>2. CASE a + b >= n
  <2>1. a + b - n \in 0..(n - 1) /\ a + b = n * 1 + (a + b - n)
    BY <1>2
  <2>2. (n * 1 + (a + b - n)) % n = a + b - n
    BY <2>1, DivModUnique
  <2>3. QED
    BY <1>2, <2>1, <2>2
<1>3. QED
  BY <1>1, <1>2

LEMMA RingSub ==
    ASSUME NEW n \in Nat \ {0}, NEW a \in 0..(n - 1), NEW b \in 0..(n - 1)
    PROVE  (a - b) % n = IF a >= b THEN a - b ELSE a - b + n
<1>1. CASE a >= b
  BY <1>1, ModSmall
<1>2. CASE a < b
  <2>1. a - b + n \in 0..(n - 1) /\ a - b = n * (-1) + (a - b + n) /\ -1 \in Int
    BY <1>2
  <2>2. (n * (-1) + (a - b + n)) % n = a - b + n
    BY <2>1, DivModUnique
  <2>3. QED
    BY <1>2, <2>1, <2>2
<1>3. QED
  BY <1>1, <1>2

\* A bounded set of natural numbers is finite and has a k-th lowest member for
\* each k up to its size.
LEMMA RankExists ==
    ASSUME NEW b \in Nat, NEW S \in SUBSET 0..b, NEW k \in 1..Cardinality(S)
    PROVE  \E x \in S : Cardinality({y \in S : y <= x}) = k
<1> DEFINE Upto(m) == {y \in S : y <= m}
           G == {m \in Nat : Cardinality(Upto(m)) >= k}
<1>0. \A y \in S : y \in Nat /\ y <= b
  OBVIOUS
<1>1. IsFiniteSet(S) /\ Cardinality(S) \in Nat
  <2>1. IsFiniteSet(0..b)
    BY FS_Interval
  <2>2. QED
    BY <2>1, FS_Subset, FS_CardinalityType
<1>2. \A m \in Nat : IsFiniteSet(Upto(m)) /\ Cardinality(Upto(m)) \in Nat
  <2>1. \A m \in Nat : Upto(m) \subseteq S
    OBVIOUS
  <2>2. QED
    BY <1>1, <2>1, FS_Subset, FS_CardinalityType
<1>3. b \in G
  <2>1. Upto(b) = S
    BY <1>0
  <2>2. Cardinality(Upto(b)) >= k
    BY <1>1, <2>1
  <2>3. QED
    BY <2>2
<1>4. PICK m \in G : \A q \in G : m <= q
  BY <1>3, LeastExists
<1>5. m \in Nat /\ Cardinality(Upto(m)) >= k
  OBVIOUS
<1> DEFINE Below == {y \in S : y < m}
<1> HIDE DEF G
<1>5a. /\ m = 0 => \A y \in S : ~(y < m)
       /\ m # 0 => m - 1 \in Nat /\ \A y \in S : y < m <=> y <= m - 1
       /\ \A y \in S : y <= m <=> y < m \/ y = m
  BY <1>0, <1>5
<1>6. IsFiniteSet(Below) /\ Cardinality(Below) \in Nat /\ Cardinality(Below) < k
  <2>1. CASE m = 0
    <3>1. Below = {}
      BY <1>5a, <2>1
    <3>2. QED
      BY <3>1, FS_EmptySet
  <2>2. CASE m # 0
    <3>1. m - 1 \in Nat /\ Below = Upto(m - 1)
      BY <1>5a, <2>2
    <3>2. m - 1 \notin G
      <4>1. ~(m <= m - 1)
        BY <1>5
      <4>2. QED
        BY <1>4, <4>1
    <3>3. ~(Cardinality(Upto(m - 1)) >= k)
      BY <3>1, <3>2 DEF G
    <3> HIDE DEF Upto, Below
    <3>4. Cardinality(Upto(m - 1)) \in Nat /\ k \in Int
      BY <1>2, <3>1
    <3>5. QED
      BY <1>2, <3>1, <3>3, <3>4
  <2>3. QED
    BY <2>1, <2>2
<1>7. m \in S
  <2> SUFFICES ASSUME m \notin S PROVE FALSE
    OBVIOUS
  <2>1. Below = Upto(m)
    BY <1>5a
  <2>2. QED
    BY <1>5, <1>6, <2>1
<1>8. Upto(m) = Below \cup {m} /\ m \notin Below
  <2>1. ~(m < m)
    BY <1>5
  <2>2. QED
    BY <1>5a, <1>7, <2>1
<1>9. Cardinality(Upto(m)) = Cardinality(Below) + 1
  <2> HIDE DEF Below, Upto
  <2>1. QED
    BY <1>6, <1>8, FS_AddElement
<1>10. Cardinality(Upto(m)) = k
  BY <1>1, <1>5, <1>6, <1>9
<1>11. QED
  BY <1>7, <1>10
=============================================================================

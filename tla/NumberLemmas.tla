---------------------------- MODULE NumberLemmas ----------------------------
(***************************************************************************)
(* Facts of numbers that several proofs use: counters that wrap, and the   *)
(* least number of a set, from which induction over the naturals follows.  *)
(***************************************************************************)
EXTENDS Integers, TLAPS, WellFoundedInduction

----------------------------------------------------------------------------
\* Arithmetic of counters that wrap

LEMMA DivMod ==
    ASSUME NEW a \in Int, NEW b \in Nat \ {0}
    PROVE  /\ a = b * (a \div b) + (a % b)
           /\ a % b \in 0 .. b - 1 /\ a \div b \in Int
OBVIOUS

LEMMA ModUnique ==
    ASSUME NEW b \in Nat \ {0}, NEW q \in Int, NEW r \in 0 .. b - 1
    PROVE  (b * q + r) % b = r
OBVIOUS

LEMMA ModStep ==
    ASSUME NEW b \in Nat \ {0}, NEW a \in Int, -b <= a, a < b + b
    PROVE  /\ (0 <= a /\ a < b) => a % b = a
           /\ a < 0 => a % b = a + b
           /\ b <= a => a % b = a - b
<1>1. CASE 0 <= a /\ a < b
  BY <1>1
<1>2. CASE a < 0
  <2>1. a + b \in 0 .. b - 1 /\ a = b * (-1) + (a + b)
    BY <1>2
  <2>2. (b * (-1) + (a + b)) % b = a + b
    BY <2>1, ModUnique
  <2> QED
    BY <1>2, <2>1, <2>2
<1>3. CASE b <= a
  <2>1. a - b \in 0 .. b - 1 /\ a = b * 1 + (a - b)
    BY <1>3
  <2>2. (b * 1 + (a - b)) % b = a - b
    BY <2>1, ModUnique
  <2> QED
    BY <1>3, <2>1, <2>2
<1> QED
  BY <1>1, <1>2, <1>3

\* A turn of b does not change the rest.
LEMMA ModTurn ==
    ASSUME NEW b \in Nat \ {0}, NEW a \in Int, NEW k \in Int
    PROVE  (a - b * k) % b = a % b
<1> DEFINE q == a \div b
           r == a % b
<1>1. a = b * q + r /\ r \in 0 .. b - 1 /\ q \in Int
  BY DivMod
<1> HIDE DEF q, r
<1>2. a - b * k = b * (q - k) + r /\ q - k \in Int
  BY <1>1
<1>3. (b * (q - k) + r) % b = r
  BY <1>1, <1>2, ModUnique
<1> QED
  BY <1>2, <1>3 DEF r

LEMMA ModShift ==
    ASSUME NEW b \in Nat \ {0}, NEW a \in Int, NEW k \in Int
    PROVE  ((a % b) + k) % b = (a + k) % b
<1> DEFINE q == a \div b
           r == a % b
<1>1. a = b * q + r /\ r \in Int /\ q \in Int
  BY DivMod
<1> HIDE DEF q, r
<1>2. r + k = (a + k) - b * q /\ a + k \in Int
  BY <1>1
<1>3. ((a + k) - b * q) % b = (a + k) % b
  BY <1>1, <1>2, ModTurn
<1> QED
  BY <1>2, <1>3 DEF r

\* Numbers less than b apart have different rests.
LEMMA ModDistinct ==
    ASSUME NEW b \in Nat \ {0}, NEW i \in Int, NEW j \in Int, i < j, j - i < b
    PROVE  i % b # j % b
<1> SUFFICES ASSUME i % b = j % b PROVE FALSE
  OBVIOUS
<1> DEFINE p == i \div b
           q == j \div b
           r == i % b
<1>1. i = b * p + r /\ j = b * q + r /\ p \in Int /\ q \in Int /\ r \in Int
  BY DivMod
<1> HIDE DEF p, q, r
<1>2. j - i = b * (q - p) /\ q - p \in Int
  BY <1>1
<1>3. CASE q - p <= 0
  <2>1. b * (q - p) <= 0
    BY <1>2, <1>3
  <2> QED
    BY <1>2, <2>1
<1>4. CASE q - p >= 1
  <2>1. b * (q - p) >= b
    BY <1>2, <1>4
  <2> QED
    BY <1>2, <2>1
<1> QED
  BY <1>2, <1>3, <1>4

----------------------------------------------------------------------------
\* A set of naturals that is not empty has a least member: what holds of 0 and
\* of n + 1 whenever it holds of n has no least exception.
LEMMA LeastNumber ==
    ASSUME NEW T \in SUBSET Nat, T # {}
    PROVE  \E n \in T : \A m \in T : n <= m
<1> DEFINE Less == {p \in Nat \X Nat : p[1] < p[2]}
<1>1. IsWellFoundedOn(Less, Nat)
  BY NatLessThanWellFounded, Zenon DEF OpToRel
<1>2. \E n \in T : \A m \in T : ~(<<m, n>> \in Less)
  BY <1>1, WFMin, Zenon
<1>3. ASSUME NEW m \in Nat, NEW n \in Nat, m < n
      PROVE  <<m, n>> \in Less
  <2>1. <<m, n>> \in Nat \X Nat /\ <<m, n>>[1] = m /\ <<m, n>>[2] = n
    OBVIOUS
  <2> QED
    BY <1>3, <2>1
<1>4. \A m, n \in Nat : m < n => <<m, n>> \in Less
  BY <1>3
<1>5. \E n \in T : \A m \in T : ~(m < n)
  BY <1>2, <1>4, Zenon
<1> QED
  BY <1>5

=============================================================================

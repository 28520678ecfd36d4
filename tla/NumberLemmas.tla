---------------------------- MODULE NumberLemmas ----------------------------
(***************************************************************************)
(* Facts on remainders and on induction that the proofs about sequence     *)
(* numbers share.  A number that wraps around is the remainder of an       *)
(* unbounded one; the lemmas let a proof reason about the latter.          *)
(***************************************************************************)
EXTENDS Integers, WellFoundedInduction, TLAPS

-----------------------------------------------------------------------------
\* A set of naturals has a least element.
LEMMA LeastNat ==
    ASSUME NEW X, X \subseteq Nat, X # {}
    PROVE  \E x \in X : \A z \in X : x <= z
<1>1. PICK x \in X : \A z \in X : ~(<<z, x>> \in OpToRel(<, Nat))
  BY NatLessThanWellFounded, WFMin
<1>2. \A z \in X : ~(z < x)
  BY <1>1 DEF OpToRel
<1> QED
  BY <1>2

\* Induction, for a set of naturals.
LEMMA Induct ==
    ASSUME NEW X, X \subseteq Nat, 0 \in X, \A n \in X : n + 1 \in X
    PROVE  X = Nat
<1>1. SUFFICES ASSUME Nat \ X # {} PROVE FALSE
  OBVIOUS
<1>2. PICK n \in Nat \ X : \A z \in Nat \ X : n <= z
  BY <1>1, LeastNat
<1>3. n - 1 \in X
  BY <1>2
<1> QED
  BY <1>2, <1>3

\* A bounded set of integers has a greatest element.
LEMMA Greatest ==
    ASSUME NEW n \in Int, NEW X, X # {}, \A x \in X : x \in Int /\ x <= n
    PROVE  \E x \in X : \A z \in X : x >= z
<1> DEFINE Y == {k \in Nat : n - k \in X}
<1>1. Y # {}
  <2>1. PICK x \in X : TRUE
    OBVIOUS
  <2>2. n - x \in Nat /\ n - (n - x) = x
    BY <2>1
  <2> QED
    BY <2>1, <2>2
<1>2. PICK k \in Y : \A z \in Y : k <= z
  BY <1>1, LeastNat
<1>3. ASSUME NEW z \in X PROVE n - k >= z
  <2>1. n - z \in Nat /\ n - (n - z) = z
    OBVIOUS
  <2>2. k <= n - z
    BY <1>2, <2>1
  <2> QED
    BY <1>2, <2>2
<1> QED
  BY <1>2, <1>3

-----------------------------------------------------------------------------
\* Division with remainder.
LEMMA ModDef ==
    ASSUME NEW M \in Nat \ {0}, NEW a \in Int
    PROVE  a % M \in 0 .. M - 1 /\ a \div M \in Int /\ a = M * (a \div M) + (a % M)
  BY Z3

\* The quotient and the remainder are unique.
LEMMA ModUnique ==
    ASSUME NEW M \in Nat \ {0}, NEW a \in Int, NEW q \in Int, NEW r \in 0 .. M - 1, a = M * q + r
    PROVE  a % M = r /\ a \div M = q
<1>1. /\ a % M \in Int /\ 0 <= a % M /\ a % M < M
      /\ a \div M \in Int /\ a = M * (a \div M) + (a % M)
  BY ModDef
<1> DEFINE k == a \div M
           s == a % M
<1>2. /\ s \in Int /\ 0 <= s /\ s < M /\ k \in Int /\ a = M * k + s
  BY <1>1
<1> HIDE DEF k, s
<1>3. k = q
  <2>1. M * (q - k) = s - r
    BY <1>2
  <2>2. CASE q - k >= 1
    <3>1. M * (q - k) >= M
      BY <2>2, <1>2
    <3> QED
      BY <2>1, <3>1, <1>2
  <2>3. CASE q - k <= -1
    <3>1. M * (q - k) <= -M
      BY <2>3, <1>2
    <3> QED
      BY <2>1, <3>1, <1>2
  <2> QED
    BY <2>2, <2>3, <1>2
<1>4. s = r
  BY <1>2, <1>3
<1> QED
  BY <1>3, <1>4 DEF k, s

\* Two integers have the same remainder if they differ by a multiple.
LEMMA ModAdd ==
    ASSUME NEW M \in Nat \ {0}, NEW a \in Int, NEW k \in Int
    PROVE  (a + M * k) % M = a % M
<1>1. a % M \in 0 .. M - 1 /\ a \div M \in Int /\ a = M * (a \div M) + (a % M)
  BY ModDef
<1> DEFINE q == (a \div M) + k
           r == a % M
           b == a + M * k
<1>2. q \in Int /\ b \in Int /\ r \in 0 .. M - 1 /\ b = M * q + r
  BY <1>1
<1> HIDE DEF q, r, b
<1>3. b % M = r
  BY <1>2, ModUnique
<1> QED
  BY <1>3 DEF r, b

\* The same, from an equation.
LEMMA ModEq ==
    ASSUME NEW M \in Nat \ {0}, NEW a \in Int, NEW b \in Int, NEW k \in Int, b = a + M * k
    PROVE  b % M = a % M
  BY ModAdd

\* A number within the range is its own remainder; one range below it, the
\* remainder is a range higher.
LEMMA ModSmall ==
    ASSUME NEW M \in Nat \ {0}, NEW a \in Int, -M <= a, a < M
    PROVE  a % M = IF a >= 0 THEN a ELSE a + M
<1>1. CASE a >= 0
  <2>1. a \in 0 .. M - 1 /\ a = M * 0 + a
    BY <1>1
  <2>2. a % M = a
    BY <2>1, ModUnique
  <2> QED
    BY <1>1, <2>2
<1>2. CASE a < 0
  <2>1. a + M \in 0 .. M - 1 /\ a = M * (-1) + (a + M)
    BY <1>2
  <2>2. a % M = a + M
    BY <2>1, ModUnique
  <2> QED
    BY <1>2, <2>2
<1> QED
  BY <1>1, <1>2

\* The remainder of a sum.
LEMMA ModSum ==
    ASSUME NEW M \in Nat \ {0}, NEW a \in Int, NEW d \in Int
    PROVE  ((a % M) + d) % M = (a + d) % M
<1>1. a % M \in Int /\ a \div M \in Int /\ a = M * (a \div M) + (a % M)
  BY ModDef
<1> DEFINE r == a % M
           q == a \div M
<1>2. r \in Int /\ q \in Int /\ r + d \in Int /\ a + d \in Int /\ a + d = (r + d) + M * q
  BY <1>1
<1> HIDE DEF r, q
<1>3. (a + d) % M = (r + d) % M
  BY <1>2, ModEq
<1> QED
  BY <1>3 DEF r

\* The same for a difference.
LEMMA ModSub ==
    ASSUME NEW M \in Nat \ {0}, NEW a \in Int, NEW d \in Int
    PROVE  ((a % M) - d) % M = (a - d) % M
<1> DEFINE m == 0 - d
           r == a % M
<1>1. m \in Int /\ r \in Int /\ r + m = r - d /\ a + m = a - d
  BY ModDef
<1>2. (r + m) % M = (a + m) % M
  BY <1>1, ModSum
<1> HIDE DEF m, r
<1>3. (r - d) % M = (a - d) % M
  BY <1>1, <1>2
<1> QED
  BY <1>3 DEF r

\* The same for the difference of two remainders.
LEMMA ModDiff ==
    ASSUME NEW M \in Nat \ {0}, NEW a \in Int, NEW b \in Int
    PROVE  ((a % M) - (b % M)) % M = (a - b) % M
<1>1. /\ a % M \in Int /\ a \div M \in Int /\ a = M * (a \div M) + (a % M)
      /\ b % M \in Int /\ b \div M \in Int /\ b = M * (b \div M) + (b % M)
  BY ModDef
<1> DEFINE r == a % M
           q == a \div M
           s == b % M
           p == b \div M
<1>2. r \in Int /\ q \in Int /\ s \in Int /\ p \in Int /\ a = M * q + r /\ b = M * p + s
  BY <1>1
<1> HIDE DEF r, q, s, p
<1>3. /\ r - s \in Int /\ a - b \in Int /\ q - p \in Int
      /\ a - b = (r - s) + M * (q - p)
  BY <1>2
<1>4. (a - b) % M = (r - s) % M
  BY <1>3, ModEq
<1> QED
  BY <1>4 DEF r, s

\* The number that is e ahead of a, for the distance e from a to x.
LEMMA ModAhead ==
    ASSUME NEW M \in Nat \ {0}, NEW a \in Int, NEW x \in 0 .. M - 1
    PROVE  LET e == (x - (a % M)) % M IN
           e \in 0 .. M - 1 /\ (a + e) % M = x
<1>1. x \in Int /\ x % M = x
  BY ModSmall
<1>2. (x - (a % M)) % M = (x - a) % M
  BY <1>1, ModDiff
<1> DEFINE e == (x - a) % M
           q == (x - a) \div M
<1>3. e \in 0 .. M - 1 /\ q \in Int /\ x - a = M * q + e
  BY <1>1, ModDef
<1> HIDE DEF e, q
<1>4. a + e \in Int /\ x = (a + e) + M * q
  BY <1>1, <1>3
<1>5. x % M = (a + e) % M
  BY <1>1, <1>3, <1>4, ModEq
<1> QED
  BY <1>1, <1>2, <1>3, <1>5 DEF e

\* Two numbers in the same slot of a ring of M are the same or at least M apart.
LEMMA ModInjective ==
    ASSUME NEW M \in Nat \ {0}, NEW a \in Int, NEW b \in Int, a % M = b % M, a - b < M, b - a < M
    PROVE  a = b
<1>1. /\ a % M \in Int /\ a \div M \in Int /\ a = M * (a \div M) + (a % M)
      /\ b % M \in Int /\ b \div M \in Int /\ b = M * (b \div M) + (b % M)
  BY ModDef
<1> DEFINE r == a % M
           q == a \div M
           p == b \div M
<1>2. r \in Int /\ q \in Int /\ p \in Int /\ a = M * q + r /\ b = M * p + r
  BY <1>1
<1> HIDE DEF r, q, p
<1>3. a - b = M * (q - p)
  BY <1>2
<1>4. CASE q - p >= 1
  <2>1. M * (q - p) >= M
    BY <1>4, <1>2
  <2> QED
    BY <2>1, <1>3
<1>5. CASE q - p <= -1
  <2>1. M * (q - p) <= -M
    BY <1>5, <1>2
  <2> QED
    BY <2>1, <1>3
<1> QED
  BY <1>2, <1>4, <1>5

\* A ring whose size divides the range has the same slots for a number and for
\* its remainder.
LEMMA ModMod ==
    ASSUME NEW M \in Nat \ {0}, NEW B \in Nat \ {0}, M % B = 0, NEW a \in Int
    PROVE  (a % M) % B = a % B
<1>1. a % M \in Int /\ a \div M \in Int /\ a = M * (a \div M) + (a % M)
  BY ModDef
<1>2. M \div B \in Int /\ M = B * (M \div B)
  BY ModDef
<1> DEFINE r == a % M
           q == a \div M
           c == M \div B
<1>3. r \in Int /\ q \in Int /\ c \in Int /\ a = M * q + r /\ M = B * c
  BY <1>1, <1>2
<1> HIDE DEF r, q, c
<1>4. c * q \in Int /\ M * q = B * (c * q)
  BY <1>3
<1>5. a = r + B * (c * q)
  BY <1>3, <1>4
<1>6. a % B = r % B
  BY <1>3, <1>4, <1>5, ModEq
<1> QED
  BY <1>6 DEF r
=============================================================================

--------------------------- MODULE ArithmeticLemmas ---------------------------
(* Remainders, for indices that wrap around, and least elements.            *)
EXTENDS Integers, WellFoundedInduction, TLAPS

(* The remainder is what the quotient leaves.                               *)
LEMMA DivMod ==
  ASSUME NEW m \in Nat, m > 0, NEW x \in Nat
  PROVE  \E q \in Nat, s \in 0..(m - 1) : x = m * q + s /\ x % m = s
<1>1. x = m * (x \div m) + (x % m)
  OBVIOUS
<1>2. x \div m \in Nat /\ x % m \in 0..(m - 1)
  OBVIOUS
<1> QED BY <1>1, <1>2

(* Nothing else is a remainder.                                             *)
LEMMA ModUnique ==
  ASSUME NEW m \in Nat, m > 0, NEW x \in Nat, NEW q \in Nat, NEW s \in 0..(m - 1),
         x = m * q + s
  PROVE  x % m = s
OBVIOUS

(* Multiplication distributes over addition.                                *)
LEMMA Distributes ==
  ASSUME NEW m \in Nat, NEW q \in Nat, NEW k \in Nat
  PROVE  m * (q + k) = m * q + m * k /\ m * (q + 1) = m * q + m
OBVIOUS

(* The remainder of a number that wraps at most once.                       *)
LEMMA ModOnce ==
  ASSUME NEW m \in Nat, m > 0, NEW x \in 0..(m + m - 1)
  PROVE  x % m = IF x < m THEN x ELSE x - m
<1>1. CASE x < m
  BY <1>1
<1>2. CASE x >= m
  BY <1>2
<1> QED BY <1>1, <1>2

(* Numbers less than m apart have different remainders.                     *)
LEMMA ModApart ==
  ASSUME NEW m \in Nat, m > 0, NEW x \in Nat, NEW d \in 1..(m - 1)
  PROVE  x % m # (x + d) % m
<1>1. PICK q \in Nat, s \in 0..(m - 1) : x = m * q + s /\ x % m = s
  BY DivMod
<1>2. x + d \in Nat /\ m * q \in Nat /\ q + 1 \in Nat
  BY <1>1
<1>3. CASE s + d < m
  <2>1. x + d = m * q + (s + d)
    BY <1>1, <1>2
  <2>2. s + d \in 0..(m - 1)
    BY <1>3
  <2>3. (x + d) % m = s + d
    BY <2>1, <2>2, <1>2, ModUnique
  <2> QED BY <2>3, <1>1
<1>4. CASE s + d >= m
  <2>1. m * (q + 1) = m * q + m
    BY Distributes
  <2>2. x + d = m * (q + 1) + (s + d - m)
    BY <1>1, <1>2, <2>1
  <2>3. s + d - m \in 0..(m - 1)
    BY <1>4
  <2>4. (x + d) % m = s + d - m
    BY <2>2, <2>3, <1>2, ModUnique
  <2> QED BY <2>4, <1>1
<1> QED BY <1>3, <1>4

(* A multiple of m changes no remainder.                                    *)
LEMMA ModMultiple ==
  ASSUME NEW m \in Nat, m > 0, NEW n \in Nat, n % m = 0, NEW x \in Nat
  PROVE  (x + n) % m = x % m
<1>1. PICK q \in Nat, s \in 0..(m - 1) : x = m * q + s /\ x % m = s
  BY DivMod
<1>2. PICK k \in Nat, r \in 0..(m - 1) : n = m * k + r /\ n % m = r
  BY DivMod
<1>3. m * (q + k) = m * q + m * k
  BY Distributes
<1>4. m * k \in Nat /\ m * q \in Nat /\ m * (q + k) \in Nat /\ q + k \in Nat
  OBVIOUS
<1>5. n = m * k
  BY <1>2, <1>4
<1>6. x + n \in Nat /\ x + n = m * (q + k) + s
  BY <1>1, <1>3, <1>4, <1>5
<1>7. (x + n) % m = s
  BY <1>4, <1>6, ModUnique
<1> QED BY <1>7, <1>1

(* How far one index is ahead of another, modulo m.                         *)
LEMMA Distance ==
  ASSUME NEW m \in Nat, m > 0, NEW i \in 0..(m - 1), NEW j \in 0..(m - 1)
  PROVE  /\ (j + m - i) % m = IF j >= i THEN j - i ELSE j + m - i
         /\ (j + m - i) % m \in 0..(m - 1)
<1>1. j + m - i \in 0..(m + m - 1)
  OBVIOUS
<1>2. (j + m - i) % m = IF j + m - i < m THEN j + m - i ELSE (j + m - i) - m
  BY <1>1, ModOnce
<1> QED BY <1>2

(* An index that moves wraps.                                             *)
LEMMA Moves ==
  ASSUME NEW m \in Nat, m > 0, NEW i \in 0..(m - 1), NEW n \in 0..m
  PROVE  (i + n) % m = (IF i + n < m THEN i + n ELSE i + n - m) /\ (i + n) % m \in 0..(m - 1)
<1>1. i + n \in 0..(m + m - 1)
  OBVIOUS
<1>2. (i + n) % m = IF i + n < m THEN i + n ELSE (i + n) - m
  BY <1>1, ModOnce
<1> QED BY <1>2

(* The index in front moves on.                                            *)
LEMMA DistanceGrows ==
  ASSUME NEW m \in Nat, m > 0, NEW i \in 0..(m - 1), NEW j \in 0..(m - 1), NEW n \in Nat,
         ((j + m - i) % m) + n < m
  PROVE  (((j + n) % m) + m - i) % m = ((j + m - i) % m) + n
<1>1. PICK d \in 0..(m - 1) : d = (j + m - i) % m /\ d = IF j >= i THEN j - i ELSE j + m - i
  BY Distance
<1>2. n \in 0..m
  BY <1>1
<1>3. PICK k \in 0..(m - 1) : k = (j + n) % m /\ k = IF j + n < m THEN j + n ELSE j + n - m
  BY <1>2, Moves
<1>4. (k + m - i) % m = IF k >= i THEN k - i ELSE k + m - i
  BY Distance
<1>5. (k + m - i) % m = d + n
  BY <1>1, <1>3, <1>4
<1> QED BY <1>1, <1>3, <1>5

(* The index behind follows.                                               *)
LEMMA DistanceShrinks ==
  ASSUME NEW m \in Nat, m > 0, NEW i \in 0..(m - 1), NEW j \in 0..(m - 1), NEW n \in Nat,
         n <= (j + m - i) % m
  PROVE  (j + m - ((i + n) % m)) % m = ((j + m - i) % m) - n
<1>1. PICK d \in 0..(m - 1) : d = (j + m - i) % m /\ d = IF j >= i THEN j - i ELSE j + m - i
  BY Distance
<1>2. n \in 0..m
  BY <1>1
<1>3. PICK k \in 0..(m - 1) : k = (i + n) % m /\ k = IF i + n < m THEN i + n ELSE i + n - m
  BY <1>2, Moves
<1>4. (j + m - k) % m = IF j >= k THEN j - k ELSE j + m - k
  BY Distance
<1>5. (j + m - k) % m = d - n
  BY <1>1, <1>3, <1>4
<1> QED BY <1>1, <1>3, <1>5

(* A set of naturals has a least element, which stands in for induction.    *)
LEMMA LeastNat ==
  ASSUME NEW T, T \subseteq Nat, T # {}
  PROVE  \E x \in T : \A y \in T : x <= y
<1> DEFINE R == {ss \in Nat \X Nat : ss[1] < ss[2]}
<1>1. IsWellFoundedOn(R, Nat)
  BY NatLessThanWellFounded DEF OpToRel
<1>2. PICK x \in T : \A y \in T : ~ (<<y, x>> \in R)
  <2> HIDE DEF R
  <2> QED BY <1>1, WFMin
<1>3. \A y \in T : <<y, x>> \in R <=> y < x
  OBVIOUS
<1>4. \A y \in T : ~ (y < x) => x <= y
  OBVIOUS
<1> QED BY <1>2, <1>3, <1>4

(* So does a set on which an integer function is bounded from below.        *)
LEMMA LeastInt ==
  ASSUME NEW S, S # {}, NEW d, NEW low \in Int,
         \A t \in S : d[t] \in Int /\ low <= d[t]
  PROVE  \E t \in S : \A u \in S : d[t] <= d[u]
<1> DEFINE T == {d[t] - low : t \in S}
<1>1. T \subseteq Nat /\ T # {}
  OBVIOUS
<1>2. PICK x \in T : \A y \in T : x <= y
  BY <1>1, LeastNat
<1>3. PICK t \in S : x = d[t] - low
  OBVIOUS
<1>4. ASSUME NEW u \in S PROVE d[t] <= d[u]
  <2>1. d[u] - low \in T /\ d[t] \in Int /\ d[u] \in Int
    OBVIOUS
  <2>2. d[t] - low <= d[u] - low
    BY <1>2, <1>3, <2>1
  <2> QED BY <2>1, <2>2
<1> QED BY <1>4
=============================================================================

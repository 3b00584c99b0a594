----------------------------- MODULE Arithmetic -----------------------------
(***************************************************************************)
(* What the other proofs need of products, quotients and remainders whose  *)
(* operands are not numerals.                                              *)
(***************************************************************************)
EXTENDS Integers, WellFoundedInduction, TLAPS

(* A product with a natural number is monotonic.                           *)
LEMMA TimesMonotonic ==
    ASSUME NEW k \in Nat, NEW m \in Int, NEW n \in Int, m <= n
    PROVE  k * m <= k * n
<1>1. PICK d \in Nat : n = m + d
    <2>1. n - m \in Nat /\ n = m + (n - m)
        OBVIOUS
    <2>2. QED
        BY <2>1
<1>2. k * n = k * m + k * d
    BY <1>1
<1>3. k * d \in Nat
    BY <1>1
<1>4. k * m \in Int
    OBVIOUS
<1>5. QED
    BY <1>2, <1>3, <1>4

(* The quotient and the remainder of a division.                           *)
LEMMA Division ==
    ASSUME NEW x \in Nat, NEW y \in Nat \ {0}
    PROVE  /\ x \div y \in Nat
           /\ x % y \in 0 .. y - 1
           /\ x = y * (x \div y) + (x % y)
OBVIOUS

(* Also of a negative number.                                              *)
LEMMA IntegerDivision ==
    ASSUME NEW x \in Int, NEW y \in Nat \ {0}
    PROVE  /\ x \div y \in Int
           /\ x % y \in 0 .. y - 1
           /\ x = y * (x \div y) + (x % y)
OBVIOUS

(* A number has one quotient and one remainder only.                       *)
LEMMA DivisionUnique ==
    ASSUME NEW y \in Nat \ {0}, NEW p \in Int, NEW q \in Int,
           NEW r \in 0 .. y - 1, NEW s \in 0 .. y - 1,
           y * p + r = y * q + s
    PROVE  p = q /\ r = s
<1>1. y * p \in Int /\ y * q \in Int /\ r \in Int /\ s \in Int
    OBVIOUS
<1>2. y * (q + 1) = y * q + y /\ y * (p + 1) = y * p + y
    OBVIOUS
<1>3. ~(p < q)
    <2>1. SUFFICES ASSUME p < q PROVE FALSE
        OBVIOUS
    <2>2. y * (p + 1) <= y * q
        BY <2>1, TimesMonotonic
    <2>3. QED
        BY <1>1, <1>2, <2>2
<1>4. ~(q < p)
    <2>1. SUFFICES ASSUME q < p PROVE FALSE
        OBVIOUS
    <2>2. y * (q + 1) <= y * p
        BY <2>1, TimesMonotonic
    <2>3. QED
        BY <1>1, <1>2, <2>2
<1>5. p = q
    BY <1>3, <1>4
<1>6. QED
    BY <1>1, <1>5

(* The remainder is the only number with its property.                     *)
LEMMA RemainderUnique ==
    ASSUME NEW x \in Int, NEW y \in Nat \ {0}, NEW q \in Int, NEW r \in 0 .. y - 1,
           x = y * q + r
    PROVE  x % y = r
<1>1. /\ x \div y \in Int /\ x % y \in 0 .. y - 1
      /\ x = y * (x \div y) + (x % y)
    BY IntegerDivision
<1>2. y * (x \div y) + (x % y) = y * q + r
    BY <1>1
<1> DEFINE p == x \div y
           t == x % y
<1> HIDE DEF p, t
<1>3. p \in Int /\ t \in 0 .. y - 1 /\ y * p + t = y * q + r
    BY <1>1, <1>2 DEF p, t
<1>4. t = r
    BY <1>3, DivisionUnique
<1>5. QED
    BY <1>4 DEF t

(* The remainder of a number less than one divisor out of range.           *)
LEMMA RemainderNear ==
    ASSUME NEW y \in Nat \ {0}, NEW x \in -y .. 2 * y - 1
    PROVE  x % y = IF x < 0 THEN x + y ELSE IF x < y THEN x ELSE x - y
<1>1. CASE x < 0
    <2>1. x = y * (-1) + (x + y) /\ x + y \in 0 .. y - 1
        BY <1>1
    <2>2. QED
        BY <1>1, <2>1, RemainderUnique
<1>2. CASE x >= 0 /\ x < y
    <2>1. x = y * 0 + x /\ x \in 0 .. y - 1
        BY <1>2
    <2>2. QED
        BY <1>2, <2>1, RemainderUnique
<1>3. CASE x >= y
    <2>1. x = y * 1 + (x - y) /\ x - y \in 0 .. y - 1
        BY <1>3
    <2>2. QED
        BY <1>3, <2>1, RemainderUnique
<1>4. QED
    BY <1>1, <1>2, <1>3

(* Counting modulo y, one step at a time, stays in step.                   *)
LEMMA RemainderSuccessor ==
    ASSUME NEW x \in Int, NEW y \in Nat \ {0}
    PROVE  ((x % y) + 1) % y = (x + 1) % y
<1> DEFINE q == x \div y
           r == x % y
<1>1. q \in Int /\ r \in 0 .. y - 1 /\ x = y * q + r
    BY IntegerDivision
<1> HIDE DEF q, r
<1>2. CASE r + 1 < y
    <2>1. r + 1 \in 0 .. y - 1 /\ x + 1 = y * q + (r + 1) /\ r + 1 = y * 0 + (r + 1)
        BY <1>1, <1>2
    <2>2. (x + 1) % y = r + 1 /\ (r + 1) % y = r + 1
        BY <1>1, <2>1, RemainderUnique
    <2>3. QED
        BY <2>2 DEF r
<1>3. CASE r + 1 = y
    <2>1. x + 1 = y * (q + 1) + 0
        BY <1>1, <1>3
    <2>2. r + 1 = y * 1 + 0 /\ 0 \in 0 .. y - 1
        BY <1>1, <1>3
    <2>3. (x + 1) % y = 0 /\ (r + 1) % y = 0
        BY <1>1, <2>1, <2>2, RemainderUnique
    <2>4. QED
        BY <2>3 DEF r
<1>4. QED
    BY <1>1, <1>2, <1>3

(* The quotient is the only number with its property.                      *)
LEMMA QuotientUnique ==
    ASSUME NEW x \in Nat, NEW y \in Nat \ {0}, NEW q \in Nat,
           y * q <= x, x < y * (q + 1)
    PROVE  x \div y = q
<1> DEFINE p == x \div y
           r == x - y * q
<1>1. p \in Nat /\ x % y \in 0 .. y - 1 /\ x = y * p + (x % y)
    BY Division
<1>2. y * q \in Int /\ y * (q + 1) = y * q + y
    OBVIOUS
<1>3. r \in 0 .. y - 1 /\ x = y * q + r
    BY <1>2
<1> HIDE DEF p, r
<1>4. y * p + (x % y) = y * q + r
    BY <1>1, <1>3
<1>5. p = q
    BY <1>1, <1>3, <1>4, DivisionUnique
<1>6. QED
    BY <1>5 DEF p

(* Every set of natural numbers that is not empty has a least element.     *)
LEMMA LeastNatural ==
    ASSUME NEW S \in SUBSET Nat, S # {}
    PROVE  \E i \in S : \A j \in S : i <= j
<1> DEFINE R == OpToRel(<, Nat)
<1>1. IsWellFoundedOn(R, Nat)
    BY NatLessThanWellFounded
<1>2. \A i, j \in Nat : i < j => <<i, j>> \in R
    BY DEF OpToRel
<1> HIDE DEF R
<1>3. PICK i \in S : \A j \in S : <<j, i>> \notin R
    BY <1>1, WFMin
<1>4. ASSUME NEW j \in S
      PROVE  i <= j
    <2>1. i \in Nat /\ j \in Nat /\ <<j, i>> \notin R
        BY <1>3
    <2>2. ~(j < i)
        BY <1>2, <2>1
    <2>3. QED
        BY <2>1, <2>2
<1>5. QED
    BY <1>4
=============================================================================

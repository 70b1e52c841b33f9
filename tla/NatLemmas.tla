------------------------------ MODULE NatLemmas ------------------------------
(***************************************************************************)
(* Facts about natural numbers that the proofs of the other modules cite:  *)
(* extreme elements of sets, and integer division by a page size.          *)
(***************************************************************************)
EXTENDS Integers, FiniteSetTheorems, TLAPS

(* Every nonempty set of naturals has a least element: what a search loop  *)
(* that counts upwards (frame_alloc of memory.cpp) returns is well defined.*)
(* The intervals 0..i are finite, and strict inclusion of finite sets is   *)
(* well founded.                                                           *)
THEOREM LeastElement ==
  ASSUME NEW S \in SUBSET Nat, S # {}
  PROVE  \E i \in S : \A j \in S : i <= j
<1> DEFINE Segments == {0 .. i : i \in S}
           Smaller  == StrictSubsetOrdering(Nat)
<1>1. Segments \subseteq FiniteSubsetsOf(Nat)
  <2>1. \A i \in S : IsFiniteSet(0 .. i) /\ 0 .. i \subseteq Nat
    BY FS_Interval
  <2> QED
    BY <2>1 DEF FiniteSubsetsOf
<1>2. Segments # {}
  OBVIOUS
<1>3. \E X \in Segments : \A Y \in Segments : <<Y, X>> \notin Smaller
  <2> HIDE DEF Segments, Smaller
  <2>1. IsWellFoundedOn(Smaller, FiniteSubsetsOf(Nat))
    BY FS_StrictSubsetOrderingWellFounded DEF Smaller
  <2> QED
    BY <1>1, <1>2, <2>1, WFMin
<1>4. PICK i \in S : \A j \in S : <<0 .. j, 0 .. i>> \notin Smaller
  BY <1>3
<1>5. ASSUME NEW j \in S, j < i PROVE FALSE
  <2>1. 0 .. j \subseteq 0 .. i /\ i \in 0 .. i /\ i \notin 0 .. j
    BY <1>5
  <2>2. 0 .. j # 0 .. i
    BY <2>1
  <2>3. 0 .. j \in SUBSET Nat /\ 0 .. i \in SUBSET Nat
    OBVIOUS
  <2>4. <<0 .. j, 0 .. i>> \in Smaller
    BY <2>1, <2>2, <2>3 DEF StrictSubsetOrdering
  <2> QED
    BY <1>4, <2>4
<1> QED
  BY <1>5

(* A nonempty set of naturals with an upper bound has a greatest element:  *)
(* the loop of memory_init that keeps the highest address.                 *)
THEOREM GreatestElement ==
  ASSUME NEW S \in SUBSET Nat, S # {}, NEW b \in Nat, \A s \in S : s <= b
  PROVE  \E i \in S : \A j \in S : j <= i
<1> DEFINE D == {b - s : s \in S}
<1>1. D \in SUBSET Nat /\ D # {}
  <2>1. \A s \in S : b - s \in Nat
    OBVIOUS
  <2> QED
    BY <2>1
<1>2. PICK d \in D : \A e \in D : d <= e
  <2> HIDE DEF D
  <2> QED
    BY <1>1, LeastElement
<1>3. PICK i \in S : d = b - i
  OBVIOUS
<1>4. ASSUME NEW j \in S PROVE j <= i
  <2>1. b - j \in D
    OBVIOUS
  <2>2. b - i <= b - j
    BY <1>2, <1>3, <2>1
  <2> QED
    BY <2>2
<1> QED
  BY <1>4

-----------------------------------------------------------------------------
(* Division by a page size p. *)

(* Quotient and remainder are naturals and make up the number again: an    *)
(* address is its frame's base, p * (a \div p), plus an offset below p.    *)
LEMMA Division ==
  ASSUME NEW a \in Nat, NEW p \in Nat \ {0}
  PROVE  /\ a \div p \in Nat
         /\ a % p \in 0 .. (p - 1)
         /\ a = p * (a \div p) + (a % p)
OBVIOUS

(* Comparing two multiples of p compares the factors. *)
LEMMA Multiples ==
  ASSUME NEW p \in Nat \ {0}, NEW q \in Int, NEW r \in Int, p * q < p * (r + 1)
  PROVE  q <= r
OBVIOUS

(* The quotient is the only number whose multiple is within p below a. *)
LEMMA QuotientUnique ==
  ASSUME NEW a \in Nat, NEW p \in Nat \ {0}, NEW q \in Int,
         p * q <= a, a < p * (q + 1)
  PROVE  a \div p = q
<1>1. a \div p \in Nat /\ a % p \in 0 .. (p - 1) /\ a = p * (a \div p) + (a % p)
  BY Division
<1>2. p * (a \div p + 1) = p * (a \div p) + p
  BY <1>1
<1>3. a \div p <= q
  BY <1>1, Multiples
<1>4. q <= a \div p
  BY <1>1, <1>2, Multiples
<1> QED
  BY <1>1, <1>3, <1>4

(* A higher address lies in the same page or in a later one, so the frames *)
(* of a contiguous range are an interval.                                  *)
LEMMA DivMonotone ==
  ASSUME NEW a \in Nat, NEW b \in Nat, a <= b, NEW p \in Nat \ {0}
  PROVE  a \div p <= b \div p
<1>1. a \div p \in Nat /\ a % p \in 0 .. (p - 1) /\ a = p * (a \div p) + (a % p)
  BY Division
<1>2. b \div p \in Nat /\ b % p \in 0 .. (p - 1) /\ b = p * (b \div p) + (b % p)
  BY Division
<1>3. p * (b \div p + 1) = p * (b \div p) + p
  BY <1>2
<1> QED
  BY <1>1, <1>2, <1>3, Multiples

(* The page of an address below hi lies below hi rounded up to pages. *)
LEMMA PageBelow ==
  ASSUME NEW a \in Nat, NEW hi \in Nat, a < hi, NEW p \in Nat \ {0}
  PROVE  a \div p <= (hi + p - 1) \div p - 1
<1>1. a + p \in Nat /\ hi + p - 1 \in Nat /\ a + p <= hi + p - 1
  OBVIOUS
<1>2. (a + p) \div p <= (hi + p - 1) \div p
  BY <1>1, DivMonotone
<1>3. (a + p) \div p = a \div p + 1
  <2>1. a \div p \in Nat /\ a % p \in 0 .. (p - 1) /\ a = p * (a \div p) + (a % p)
    BY Division
  <2>2. /\ p * (a \div p + 1) = p * (a \div p) + p
        /\ p * (a \div p + 1 + 1) = p * (a \div p) + p + p
    BY <2>1
  <2>3. a + p \in Nat /\ a \div p + 1 \in Int
    BY <2>1
  <2>4. p * (a \div p + 1) <= a + p /\ a + p < p * (a \div p + 1 + 1)
    BY <2>1, <2>2
  <2> QED
    BY <2>3, <2>4, QuotientUnique
<1>4. a \div p \in Nat /\ (hi + p - 1) \div p \in Nat
  BY <1>1, Division
<1> QED
  BY <1>2, <1>3, <1>4

(* A number is known by its quotient and its remainder.                    *)
LEMMA DigitsUnique ==
  ASSUME NEW e \in Nat \ {0}, NEW a \in Nat, NEW b \in Nat,
         NEW i \in 0 .. (e - 1), NEW j \in 0 .. (e - 1),
         a * e + i = b * e + j
  PROVE  a = b /\ i = j
<1>1. e \in Nat \ {0} /\ a * e = e * a /\ b * e = e * b
  OBVIOUS
<1> DEFINE c == e * a + i
<1>2. c \in Nat /\ e * a <= c /\ c < e * (a + 1)
  <2>1. e * (a + 1) = e * a + e /\ e * a \in Nat
    BY <1>1
  <2> QED
    BY <1>1, <2>1
<1>3. e * b <= c /\ c < e * (b + 1)
  <2>1. e * (b + 1) = e * b + e /\ e * b \in Nat /\ e * a + i = e * b + j
    BY <1>1
  <2> QED
    BY <1>1, <2>1
<1> HIDE DEF c
<1>4. a = c \div e /\ b = c \div e
  BY <1>1, <1>2, <1>3, QuotientUnique
<1>5. a = b
  BY <1>4
<1>6. i = j
  <2>1. e * a \in Nat /\ e * a + i = e * a + j
    BY <1>1, <1>5
  <2> DEFINE d == e * a
  <2> HIDE DEF d
  <2>2. d \in Nat /\ d + i = d + j
    BY <2>1 DEF d
  <2> QED
    BY <2>2
<1> QED
  BY <1>5, <1>6

(* Multiplication keeps the order of numbers.                              *)
LEMMA TimesMonotone ==
  ASSUME NEW a \in Nat, NEW b \in Nat, a <= b, NEW c \in Nat
  PROVE  a * c \in Nat /\ b * c \in Nat /\ a * c <= b * c
<1>1. PICK d \in Nat : b = a + d
  <2>1. b - a \in Nat /\ b = a + (b - a)
    OBVIOUS
  <2> QED
    BY <2>1
<1>2. \A i \in Nat, j \in Nat : i * j \in Nat
  OBVIOUS
<1>3. (a + d) * c = a * c + d * c
  OBVIOUS
<1>4. a * c \in Nat /\ d * c \in Nat
  BY <1>2
<1> DEFINE ac == a * c
           dc == d * c
<1>5. ac \in Nat /\ dc \in Nat /\ b * c = ac + dc
  BY <1>1, <1>3, <1>4
<1> HIDE DEF ac, dc
<1>6. ac + dc \in Nat /\ ac <= ac + dc
  BY <1>5
<1>7. b * c \in Nat /\ ac <= b * c
  BY <1>5, <1>6
<1> QED
  BY <1>5, <1>7 DEF ac

(* Division by a product is division by one factor, then by the other.     *)
LEMMA DivideTwice ==
  ASSUME NEW a \in Nat, NEW p \in Nat \ {0}, NEW q \in Nat \ {0}
  PROVE  a \div (p * q) = (a \div p) \div q
<1> DEFINE b == a \div p
           c == b \div q
<1>1. b \in Nat /\ a % p \in 0 .. (p - 1) /\ a = p * b + (a % p)
  BY Division
<1> HIDE DEF b
<1>2. c \in Nat /\ b % q \in 0 .. (q - 1) /\ b = q * c + (b % q)
  BY <1>1, Division
<1> HIDE DEF c
<1>3. p * q \in Nat \ {0}
  OBVIOUS
<1>4. (p * q) * c <= a
  <2>1. q * c <= b /\ q * c \in Nat
    BY <1>1, <1>2
  <2>2. p * (q * c) <= p * b
    BY <1>1, <2>1
  <2>3. (p * q) * c = p * (q * c)
    BY <1>2
  <2>4. p * b <= a
    BY <1>1
  <2>5. p * b \in Nat /\ p * (q * c) \in Nat
    BY <1>1, <2>1
  <2> QED
    BY <2>2, <2>3, <2>4, <2>5
<1>5. a < (p * q) * (c + 1)
  <2>1. b + 1 <= q * (c + 1) /\ q * (c + 1) \in Nat
    BY <1>1, <1>2
  <2>2. p * (b + 1) <= p * (q * (c + 1))
    BY <1>1, <2>1
  <2>3. (p * q) * (c + 1) = p * (q * (c + 1))
    BY <1>2
  <2>4. a < p * (b + 1)
    BY <1>1
  <2>5. p * (b + 1) \in Nat /\ p * (q * (c + 1)) \in Nat
    BY <1>1, <2>1
  <2> QED
    BY <2>2, <2>3, <2>4, <2>5
<1>6. a \div (p * q) = c
  <2> DEFINE r == p * q
  <2>1. r \in Nat \ {0} /\ r * c <= a /\ a < r * (c + 1) /\ c \in Int
    BY <1>2, <1>3, <1>4, <1>5
  <2> HIDE DEF r
  <2>2. a \div r = c
    BY <2>1, QuotientUnique
  <2> QED
    BY <2>2 DEF r
<1> QED
  BY <1>6 DEF c, b

=============================================================================

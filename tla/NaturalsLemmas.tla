--------------------------- MODULE NaturalsLemmas ---------------------------
(***************************************************************************)
(* Facts about natural numbers that the proofs of several components use:  *)
(* smallest and largest elements, and arithmetic modulo a cycle time.      *)
(***************************************************************************)
EXTENDS Integers, FiniteSetsExt, WellFoundedInduction, TLAPS

(* A set of natural numbers that is not empty has a smallest element.  An  *)
(* induction is done with it by looking at the smallest counterexample.    *)
LEMMA SmallestElement ==
  ASSUME NEW S \in SUBSET Nat, S # {}
  PROVE  \E x \in S : \A y \in S : x <= y
<1> DEFINE R == OpToRel(<, Nat)
<1>1. IsWellFoundedOn(R, Nat)
  BY NatLessThanWellFounded
<1>2. \A x, y \in Nat : x < y => <<x, y>> \in R
  BY DEF OpToRel
<1> HIDE DEF R
<1>3. PICK x \in S : \A y \in S : ~(<<y, x>> \in R)
  BY <1>1, WFMin, Zenon
<1>4. ASSUME NEW y \in S PROVE x <= y
  <2>1. ~(y < x)
    BY <1>2, <1>3, Zenon
  <2> QED BY <2>1
<1> QED BY <1>4

(* Min is the smallest element (the first match of a search in a list).    *)
LEMMA MinLemma ==
  ASSUME NEW S \in SUBSET Nat, S # {}
  PROVE  Min(S) \in S /\ \A y \in S : Min(S) <= y
BY SmallestElement DEF Min

(* Max is the largest element of a set that is bounded.                    *)
LEMMA MaxLemma ==
  ASSUME NEW S \in SUBSET Nat, S # {}, NEW b \in Nat, \A x \in S : x <= b
  PROVE  Max(S) \in S /\ \A y \in S : y <= Max(S)
<1> DEFINE T == {b - x : x \in S}
<1>1. T \in SUBSET Nat /\ T # {}
  <2>1. PICK z \in S : TRUE
    OBVIOUS
  <2>2. b - z \in T
    OBVIOUS
  <2>3. \A x \in S : b - x \in Nat
    OBVIOUS
  <2> QED BY <2>2, <2>3
<1>2. PICK t \in T : \A u \in T : t <= u
  <2> HIDE DEF T
  <2> QED BY <1>1, SmallestElement
<1>3. PICK x \in S : t = b - x
  OBVIOUS
<1>4. \A y \in S : y <= x
  <2> TAKE y \in S
  <2>1. b - y \in T
    OBVIOUS
  <2>2. b - x <= b - y
    BY <1>2, <1>3, <2>1
  <2> QED BY <2>2
<1> QED BY <1>4 DEF Max

-----------------------------------------------------------------------------
(* Numbers that differ by a multiple of c are equal modulo c.              *)
LEMMA ModCongruence ==
  ASSUME NEW c \in Nat \ {0}, NEW a \in Int, NEW b \in Int, NEW k \in Int,
         a = b + k * c
  PROVE  a % c = b % c
<1> DEFINE qa == a \div c
           qb == b \div c
           ra == a % c
           rb == b % c
           m == qa - qb - k
<1>1. /\ a = qa * c + ra /\ qa \in Int /\ ra \in 0 .. c - 1
      /\ b = qb * c + rb /\ qb \in Int /\ rb \in 0 .. c - 1
  OBVIOUS
<1> HIDE DEF qa, qb, ra, rb
<1>2. rb - ra = m * c /\ m \in Int
  <2>1. m * c = qa * c - qb * c - k * c /\ m \in Int
    BY <1>1
  <2>2. qa * c \in Int /\ qb * c \in Int /\ k * c \in Int
    BY <1>1
  <2> QED BY <1>1, <2>1, <2>2
<1> HIDE DEF m
<1>3. m >= 1 => m * c >= c
  BY <1>2
<1>4. m <= -1 => m * c <= -c
  BY <1>2
<1>5. m = 0
  BY <1>1, <1>2, <1>3, <1>4
<1>6. m * c = 0
  BY <1>5
<1> QED BY <1>1, <1>2, <1>6 DEF ra, rb

(* A whole cycle more does not change the remainder.                       *)
LEMMA ModShift ==
  ASSUME NEW c \in Nat \ {0}, NEW a \in Int
  PROVE  (a + c) % c = a % c
<1> DEFINE k == 1
           b == a + c
<1>1. k \in Int /\ b \in Int /\ b = a + k * c
  OBVIOUS
<1> HIDE DEF k, b
<1>2. b % c = a % c
  BY <1>1, ModCongruence
<1> QED BY <1>2 DEF b

(* The range of the remainder, and numbers that are their own remainder.   *)
LEMMA ModRange ==
  ASSUME NEW c \in Nat \ {0}, NEW a \in Int
  PROVE  a % c \in 0 .. c - 1 /\ (a \in 0 .. c - 1 => a % c = a)
OBVIOUS

(* Every number is its remainder and a multiple of c.                      *)
LEMMA ModDivision ==
  ASSUME NEW c \in Nat \ {0}, NEW a \in Int
  PROVE  \E k \in Int : a = (a % c) + k * c
<1>1. a = (a % c) + (a \div c) * c /\ a \div c \in Int
  OBVIOUS
<1> QED BY <1>1

(* A summand may be replaced by its remainder.                             *)
LEMMA ModSum ==
  ASSUME NEW c \in Nat \ {0}, NEW a \in Int, NEW b \in Int
  PROVE  /\ ((a % c) + b) % c = (a + b) % c
         /\ (b - (a % c)) % c = (b - a) % c
<1>1. PICK k \in Int : a = (a % c) + k * c
  BY ModDivision
<1>2. a % c \in Int /\ -k \in Int
  BY ModRange
<1> DEFINE r == a % c
<1>3. a = r + k * c /\ r \in Int /\ k * c \in Int /\ (-k) * c = -(k * c)
  BY <1>1, <1>2
<1> HIDE DEF r
<1>4. a + b = (r + b) + k * c /\ b - a = (b - r) + (-k) * c
  BY <1>3
<1> DEFINE s == r + b
           d == b - r
<1>5. s \in Int /\ d \in Int /\ a + b \in Int /\ b - a \in Int
  BY <1>3
<1>6. a + b = s + k * c /\ b - a = d + (-k) * c
  BY <1>4
<1> HIDE DEF s, d
<1>7. (a + b) % c = s % c
  BY <1>5, <1>6, ModCongruence
<1>8. (b - a) % c = d % c
  BY <1>2, <1>5, <1>6, ModCongruence
<1> QED BY <1>7, <1>8 DEF r, s, d
=============================================================================

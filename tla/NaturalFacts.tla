---------------------------- MODULE NaturalFacts ----------------------------
(***************************************************************************)
(* What the proofs of the other modules need to know of natural numbers:   *)
(* least and greatest members, which stand in for induction, and products, *)
(* which the provers know little of.                                       *)
(***************************************************************************)
EXTENDS Integers, WellFoundedInduction, TLAPS

\* A set of naturals that is not empty has a least member.
LEMMA LeastMember ==
  ASSUME NEW T \in SUBSET Nat, T # {}
  PROVE  \E i \in T : \A j \in T : i <= j
<1> DEFINE R == OpToRel(<, Nat)
<1>1. PICK i \in T : \A j \in T : <<j, i>> \notin R
  <2>1. IsWellFoundedOn(R, Nat)
    BY NatLessThanWellFounded
  <2> HIDE DEF R
  <2> QED
    BY <2>1, WFMin
<1>2. ASSUME NEW j \in T PROVE i <= j
  <2>1. j < i => <<j, i>> \in R
    BY DEF OpToRel
  <2>2. ~ (j < i)
    BY <1>1, <2>1
  <2> HIDE DEF R
  <2> QED
    BY <2>2
<1> QED
  BY <1>2

\* A set of numbers up to i that is not empty has a greatest member.
LEMMA GreatestMember ==
  ASSUME NEW i \in Nat, NEW T \in SUBSET (1..i), T # {}
  PROVE  \E j \in T : \A k \in T : k <= j
<1> DEFINE R == OpToRel(<, Nat)
           D == {i - k : k \in T}
<1>1. D \subseteq Nat /\ D # {}
  <2>1. \A k \in T : i - k \in Nat
    OBVIOUS
  <2>2. PICK k \in T : TRUE
    OBVIOUS
  <2>3. i - k \in D
    OBVIOUS
  <2> QED
    BY <2>1, <2>3
<1>2. PICK d \in D : \A e \in D : <<e, d>> \notin R
  <2>1. IsWellFoundedOn(R, Nat)
    BY NatLessThanWellFounded
  <2> HIDE DEF R, D
  <2> QED
    BY <1>1, <2>1, WFMin
<1>3. PICK j \in T : d = i - j
  OBVIOUS
<1>4. ASSUME NEW k \in T PROVE k <= j
  <2>1. i - k \in D /\ i - k \in Nat /\ d \in Nat
    BY <1>1
  <2>2. i - k < d => <<i - k, d>> \in R
    BY <2>1 DEF OpToRel
  <2>3. ~ (i - k < d)
    BY <1>2, <2>1, <2>2
  <2> HIDE DEF R, D
  <2> QED
    BY <1>3, <2>3
<1> QED
  BY <1>4

-----------------------------------------------------------------------------
(* Products and quotients.                                                  *)

LEMMA ProductIsNat ==
  ASSUME NEW x \in Nat, NEW y \in Nat
  PROVE  x * y \in Nat
  OBVIOUS

\* A product with a factor that is not 0 is no smaller than the other factor.
LEMMA ProductGrows ==
  ASSUME NEW x \in Nat, NEW y \in Nat, y # 0
  PROVE  x * y >= x
<1>1. PICK z \in Nat : y = z + 1
  <2>1. y - 1 \in Nat /\ y = (y - 1) + 1
    OBVIOUS
  <2> QED  BY <2>1
<1>2. x * y = x * z + x
  BY <1>1
<1>3. x * z \in Nat
  BY ProductIsNat
<1> QED  BY <1>2, <1>3

\* A common factor does not change an order.
LEMMA CommonFactor ==
  ASSUME NEW x \in Nat, NEW y \in Nat, NEW r \in Nat, r # 0
  PROVE  x * r > y * r <=> x > y
<1>1. ASSUME NEW a \in Nat, NEW b \in Nat, a > b
      PROVE  a * r > b * r
  <2>1. PICK e \in Nat : a = b + e /\ e # 0
    <3>1. a - b \in Nat /\ a = b + (a - b) /\ a - b # 0
      BY <1>1
    <3> QED  BY <3>1
  <2>2. a * r = b * r + e * r
    BY <2>1
  <2>3. e * r >= e /\ e * r \in Nat /\ b * r \in Nat
    BY ProductGrows, ProductIsNat
  <2> QED  BY <2>1, <2>2, <2>3
<1>2. x * r \in Nat /\ y * r \in Nat
  BY ProductIsNat
<1>3. CASE x > y
  BY <1>1, <1>3
<1>4. CASE y > x
  <2>1. y * r > x * r
    BY <1>1, <1>4
  <2> QED  BY <1>2, <1>4, <2>1
<1>5. CASE x = y
  BY <1>2, <1>5
<1> QED  BY <1>3, <1>4, <1>5

\* A number is a quotient and a remainder in one way only.
LEMMA QuotientRemainder ==
  ASSUME NEW m \in Nat \ {0}, NEW q \in Nat, NEW r \in 0..m-1
  PROVE  (m * q + r) \div m = q /\ (m * q + r) % m = r
<1> DEFINE x == m * q + r
           d == x \div m
           e == x % m
<1>1. x \in Nat /\ d \in Nat /\ e \in 0..m-1 /\ x = m * d + e
  OBVIOUS
<1> HIDE DEF d, e
<1>2. m * (q - d) = e - r
  BY <1>1
<1>3. CASE q - d >= 1
  <2>1. m * (q - d) >= m
    BY <1>1, <1>3
  <2> QED
    BY <1>1, <1>2, <2>1
<1>4. CASE d - q >= 1
  <2>1. m * (d - q) >= m /\ m * (d - q) = r - e
    BY <1>1, <1>2, <1>4
  <2> QED
    BY <1>1, <2>1
<1>5. CASE q = d
  <2>1. e = r
    BY <1>1, <1>2, <1>5
  <2> QED
    BY <1>5, <2>1 DEF d, e
<1> QED
  BY <1>1, <1>3, <1>4, <1>5

=============================================================================

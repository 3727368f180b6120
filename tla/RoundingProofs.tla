--------------------------- MODULE RoundingProofs ---------------------------
(***************************************************************************)
(* What PickStrategy's arithmetic does, for every width of u64 and of an   *)
(* f64: Round rounds to nearest with ties to even, keeps the order of what *)
(* it rounds, doubles with it, and is off by no more than one part in 16.  *)
(***************************************************************************)
EXTENDS PickStrategy, NaturalFacts, TLAPS

-----------------------------------------------------------------------------
(* Powers of two.                                                           *)

IsPow2(f, n) == f = [i \in 0..n |-> IF i = 0 THEN 1 ELSE 2 * f[i - 1]]

\* One power more.
LEMMA Pow2Grows ==
  ASSUME NEW n \in Nat, NEW g, IsPow2(g, n)
  PROVE  \E f : IsPow2(f, n + 1)
<1> DEFINE f == [i \in 0..n + 1 |-> IF i = n + 1 THEN 2 * g[n] ELSE g[i]]
           h == [i \in 0..n + 1 |-> IF i = 0 THEN 1 ELSE 2 * f[i - 1]]
           g0 == [i \in 0..n |-> IF i = 0 THEN 1 ELSE 2 * g[i - 1]]
<1>1. ASSUME NEW i \in 0..n + 1 PROVE f[i] = h[i]
  <2>1. CASE i = n + 1
    BY <2>1
  <2>2. CASE i # n + 1
    <3>1. i \in 0..n
      BY <2>2
    <3>2. g = g0
      BY DEF IsPow2
    <3>3. g0[i] = IF i = 0 THEN 1 ELSE 2 * g[i - 1]
      BY <3>1
    <3>4. g[i] = IF i = 0 THEN 1 ELSE 2 * g[i - 1]
      <4> HIDE DEF g0
      <4> QED
        BY <3>2, <3>3
    <3>5. i # 0 => i - 1 \in 0..n + 1 /\ i - 1 # n + 1
      BY <3>1
    <3>6. f[i] = g[i] /\ (i # 0 => f[i - 1] = g[i - 1])
      BY <2>2, <3>5
    <3>7. h[i] = IF i = 0 THEN 1 ELSE 2 * f[i - 1]
      OBVIOUS
    <3> HIDE DEF f, h
    <3> QED
      BY <3>4, <3>6, <3>7
  <2> QED
    BY <2>1, <2>2
<1>2. f = h
  BY <1>1
<1>3. IsPow2(f, n + 1)
  BY <1>2 DEF IsPow2
<1> HIDE DEF f
<1> QED
  BY <1>3

\* The recursion of Pow2 defines a function.
LEMMA Pow2Exists ==
  ASSUME NEW n \in Nat
  PROVE  \E f : IsPow2(f, n)
<1> DEFINE Without == {i \in Nat : ~ \E f : IsPow2(f, i)}
<1> SUFFICES ASSUME Without # {} PROVE FALSE
  OBVIOUS
<1>1. PICK i \in Without : \A j \in Without : i <= j
  BY LeastMember
<1>2. CASE i = 0
  <2> DEFINE f == [j \in 0..0 |-> 1]
  <2>1. IsPow2(f, 0)
    BY DEF IsPow2
  <2> HIDE DEF f
  <2> QED
    BY <1>2, <2>1
<1>3. CASE i # 0
  <2>1. i - 1 \in Nat /\ (i - 1) + 1 = i /\ ~ (i <= i - 1)
    BY <1>3
  <2>2. PICK g : IsPow2(g, i - 1)
    BY <1>1, <2>1
  <2>3. \E f : IsPow2(f, (i - 1) + 1)
    BY <2>1, <2>2, Pow2Grows
  <2> QED
    BY <2>1, <2>3
<1> QED
  BY <1>2, <1>3

LEMMA Pow2Steps ==
  /\ Pow2[0] = 1
  /\ \A i \in 1..MaxExp : Pow2[i] = 2 * Pow2[i - 1]
<1>1. MaxExp \in Nat
  BY ArithmeticAssumption
<1>2. Pow2 = CHOOSE f : IsPow2(f, MaxExp)
  BY DEF Pow2, IsPow2
<1>3. IsPow2(Pow2, MaxExp)
  BY <1>1, <1>2, Pow2Exists
<1>4. ASSUME NEW i \in 0..MaxExp PROVE Pow2[i] = IF i = 0 THEN 1 ELSE 2 * Pow2[i - 1]
  <2> DEFINE f0 == [j \in 0..MaxExp |-> IF j = 0 THEN 1 ELSE 2 * Pow2[j - 1]]
  <2>1. Pow2 = f0
    BY <1>3 DEF IsPow2
  <2>2. f0[i] = IF i = 0 THEN 1 ELSE 2 * Pow2[i - 1]
    OBVIOUS
  <2> HIDE DEF f0
  <2> QED
    BY <2>1, <2>2
<1> QED
  BY <1>1, <1>4

LEMMA Pow2IsPositive == \A i \in 0..MaxExp : Pow2[i] \in Nat \ {0}
<1> DEFINE Others == {i \in 0..MaxExp : Pow2[i] \notin Nat \ {0}}
<1> SUFFICES ASSUME Others # {} PROVE FALSE
  OBVIOUS
<1>1. PICK i \in Others : \A j \in Others : i <= j
  <2>1. Others \in SUBSET Nat
    BY ArithmeticAssumption
  <2> HIDE DEF Others
  <2> QED
    BY <2>1, LeastMember
<1>2. CASE i = 0
  BY <1>1, <1>2, Pow2Steps
<1>3. CASE i # 0
  <2>1. i \in 1..MaxExp /\ i - 1 \in 0..MaxExp /\ ~ (i <= i - 1)
    BY <1>1, <1>3, ArithmeticAssumption
  <2>2. Pow2[i - 1] \in Nat \ {0}
    BY <1>1, <2>1
  <2>3. Pow2[i] = 2 * Pow2[i - 1]
    BY <2>1, Pow2Steps
  <2> QED
    BY <1>1, <2>2, <2>3
<1> QED
  BY <1>2, <1>3

\* A higher power is an even multiple of a lower one.
LEMMA Pow2Divides ==
  ASSUME NEW i \in 0..MaxExp, NEW j \in 0..MaxExp, i < j
  PROVE  \E k \in Nat \ {0} : Pow2[j] = Pow2[i] * (2 * k)
<1> DEFINE Divided(n) == \E k \in Nat \ {0} : Pow2[n] = Pow2[i] * (2 * k)
           Others == {n \in i + 1..MaxExp : ~ Divided(n)}
<1> SUFFICES ASSUME Others # {} PROVE FALSE
  <2>1. j \in i + 1..MaxExp
    BY ArithmeticAssumption
  <2> QED
    BY <2>1
<1>1. PICK n \in Others : \A m \in Others : n <= m
  <2>1. Others \in SUBSET Nat
    BY ArithmeticAssumption
  <2> HIDE DEF Others
  <2> QED
    BY <2>1, LeastMember
<1>2. n \in 1..MaxExp /\ n - 1 \in 0..MaxExp /\ ~ (n <= n - 1) /\ Pow2[i] \in Nat
  BY <1>1, ArithmeticAssumption, Pow2IsPositive
<1>3. Pow2[n] = 2 * Pow2[n - 1]
  BY <1>2, Pow2Steps
<1>4. CASE n = i + 1
  <2>1. n - 1 = i
    BY <1>4
  <2>2. Pow2[n] = Pow2[i] * (2 * 1)
    BY <1>2, <1>3, <2>1
  <2>3. Divided(n)
    BY <2>2
  <2> QED
    BY <1>1, <2>3
<1>5. CASE n # i + 1
  <2>1. n - 1 \in i + 1..MaxExp
    BY <1>1, <1>2, <1>5
  <2>2. Divided(n - 1)
    BY <1>1, <1>2, <2>1
  <2>3. PICK k \in Nat \ {0} : Pow2[n - 1] = Pow2[i] * (2 * k)
    BY <2>2
  <2>4. 2 * (Pow2[i] * (2 * k)) = Pow2[i] * (2 * (2 * k)) /\ 2 * k \in Nat \ {0}
    BY <1>2
  <2>5. Pow2[n] = Pow2[i] * (2 * (2 * k))
    BY <1>3, <2>3, <2>4
  <2>6. Divided(n)
    BY <2>4, <2>5
  <2> QED
    BY <1>1, <2>6
<1> QED
  BY <1>4, <1>5

-----------------------------------------------------------------------------
(* Ulps.                                                                    *)

Ulps == {Pow2[i] : i \in 0..MaxExp}

\* A significand is below B, and not below H unless the number is the smaller for it.
B == Pow2[Prec]
H == Pow2[Prec - 1]

LEMMA UlpsAreNat ==
  /\ Ulps \subseteq Nat \ {0}
  /\ 1 \in Ulps
  /\ \A u \in Ulps : u = 1 \/ \E v \in Ulps : u = 2 * v
<1>1. Ulps \subseteq Nat \ {0}
  BY Pow2IsPositive DEF Ulps
<1>2. 0 \in 0..MaxExp /\ Pow2[0] = 1
  BY ArithmeticAssumption, Pow2Steps
<1>3. ASSUME NEW u \in Ulps, u # 1 PROVE \E v \in Ulps : u = 2 * v
  <2>1. PICK i \in 0..MaxExp : u = Pow2[i]
    BY DEF Ulps
  <2>2. i \in 1..MaxExp /\ i - 1 \in 0..MaxExp
    BY <1>2, <1>3, <2>1, ArithmeticAssumption
  <2>3. Pow2[i - 1] \in Ulps /\ u = 2 * Pow2[i - 1]
    BY <2>1, <2>2, Pow2Steps DEF Ulps
  <2> QED
    BY <2>3
<1> QED
  BY <1>1, <1>2, <1>3 DEF Ulps

\* Of two ulps the larger is an even multiple of the smaller.
LEMMA UlpsDivide ==
  ASSUME NEW u \in Ulps, NEW v \in Ulps, u < v
  PROVE  \E k \in Nat \ {0} : v = u * (2 * k)
<1>1. PICK i \in 0..MaxExp : u = Pow2[i]
  BY DEF Ulps
<1>2. PICK j \in 0..MaxExp : v = Pow2[j]
  BY DEF Ulps
<1>3. u \in Nat \ {0} /\ v \in Nat \ {0} /\ i \in Nat /\ j \in Nat
  BY UlpsAreNat, ArithmeticAssumption
<1>4. CASE i < j
  BY <1>1, <1>2, <1>4, Pow2Divides
<1>5. CASE i = j
  BY <1>1, <1>2, <1>3, <1>5
<1>6. CASE j < i
  <2>1. PICK k \in Nat \ {0} : u = v * (2 * k)
    BY <1>1, <1>2, <1>6, Pow2Divides
  <2>2. v * (2 * k) >= v
    BY <1>3, ProductGrows
  <2> QED
    BY <1>3, <2>1, <2>2
<1> QED
  BY <1>3, <1>4, <1>5, <1>6

\* A significand has four bits at least.
LEMMA Significands == H \in Nat /\ H % 2 = 0 /\ H >= 8 /\ B = 2 * H
<1>1. Prec \in 1..MaxExp /\ Prec - 1 \in 1..MaxExp /\ 2 \in 0..MaxExp /\ 2 < Prec - 1
  BY ArithmeticAssumption
<1>2. B = 2 * H
  BY <1>1, Pow2Steps DEF B, H
<1>3. PICK k \in Nat \ {0} : H = Pow2[2] * (2 * k)
  BY <1>1, Pow2Divides DEF H
<1>4. Pow2[2] = 4
  <2>1. 1 \in 1..MaxExp /\ 2 \in 1..MaxExp
    BY ArithmeticAssumption
  <2>2. Pow2[1] = 2 * Pow2[1 - 1] /\ Pow2[2] = 2 * Pow2[2 - 1] /\ Pow2[0] = 1
    BY <2>1, Pow2Steps
  <2> QED
    BY <2>2
<1>5. H = 8 * k
  BY <1>3, <1>4
<1> QED
  BY <1>2, <1>5
-----------------------------------------------------------------------------
(* What Round yields.                                                       *)

\* u is the weight of the last bit kept of num / den.
IsUlp(u, num, den) ==
  /\ u \in Ulps
  /\ num < (den * u) * B
  /\ \A v \in Ulps : num < (den * v) * B => u <= v

\* m is the whole number nearest to num / s, the even one of two.
Nearest(m, num, s) ==
  /\ 2 * (s * m) <= 2 * num + s
  /\ 2 * num <= 2 * (s * m) + s
  /\ 2 * (s * m) = 2 * num + s \/ 2 * num = 2 * (s * m) + s => m % 2 = 0

IsRounded(w, num, den) ==
  \E u \in Ulps, m \in Nat :
    IsUlp(u, num, den) /\ Nearest(m, num, den * u) /\ w = u * m

\* The exponents reach up to num / den.
InRange(num, den) == \E u \in Ulps : num < (den * u) * B

\* div and % of Round, and the comparison with half an ulp.
LEMMA QuotientIsNearest ==
  ASSUME NEW num \in Nat, NEW s \in Nat \ {0}
  PROVE  LET q    == num \div s
             rest == 2 * (num % s)
             up   == rest > s \/ (rest = s /\ q % 2 = 1)
             m    == IF up THEN q + 1 ELSE q
         IN  m \in Nat /\ Nearest(m, num, s)
<1> DEFINE q == num \div s
           r == num % s
           up == 2 * r > s \/ (2 * r = s /\ q % 2 = 1)
           m == IF up THEN q + 1 ELSE q
<1>1. q \in Nat /\ r \in 0..s - 1 /\ num = s * q + r
  OBVIOUS
<1> HIDE DEF q, r
<1>2. PICK p \in Nat : p = s * q
  BY <1>1, ProductIsNat
<1>3. CASE up
  <2>1. m = q + 1 /\ m \in Nat /\ 2 * r >= s
    BY <1>1, <1>3
  <2>2. s * m = p + s
    BY <1>1, <1>2, <2>1
  <2>3. 2 * r = s => m % 2 = 0
    BY <1>1, <1>3, <2>1
  <2>4. Nearest(m, num, s)
    <3> HIDE DEF m, up
    <3> QED
      BY <1>1, <1>2, <2>1, <2>2, <2>3 DEF Nearest
  <2> QED
    BY <2>1, <2>4 DEF q, r
<1>4. CASE ~ up
  <2>1. m = q /\ m \in Nat /\ 2 * r <= s
    BY <1>1, <1>4
  <2>2. s * m = p
    BY <1>2, <2>1
  <2>3. 2 * r = s => m % 2 = 0
    BY <1>1, <1>4, <2>1
  <2>4. Nearest(m, num, s)
    <3> HIDE DEF m, up
    <3> QED
      BY <1>1, <1>2, <2>1, <2>2, <2>3 DEF Nearest
  <2> QED
    BY <2>1, <2>4 DEF q, r
<1> QED
  BY <1>3, <1>4

\* There is one ulp of a quotient in range: the least that leaves it Prec bits.
LEMMA UlpExists ==
  ASSUME NEW num \in Nat, NEW den \in Nat \ {0}, InRange(num, den)
  PROVE  \E u : IsUlp(u, num, den)
<1> DEFINE T == {u \in Ulps : num < (den * u) * B}
<1>1. T \in SUBSET Nat /\ T # {}
  BY UlpsAreNat DEF InRange
<1>2. PICK u \in T : \A v \in T : u <= v
  <2> HIDE DEF T
  <2> QED
    BY <1>1, LeastMember
<1> QED
  BY <1>2 DEF IsUlp

LEMMA RoundIsRounded ==
  ASSUME NEW num \in Nat, NEW den \in Nat \ {0}, InRange(num, den)
  PROVE  IsRounded(Round(num, den), num, den)
<1> DEFINE ulps == {u \in {Pow2[i] : i \in 0..MaxExp} : num < den * u * Pow2[Prec]}
           ulp  == CHOOSE u \in ulps : \A v \in ulps : u <= v
           s    == den * ulp
           q    == num \div s
           rest == 2 * (num % s)
           up   == rest > s \/ (rest = s /\ q % 2 = 1)
           m    == IF up THEN q + 1 ELSE q
<1>1. Round(num, den) = ulp * m
  BY DEF Round
<1>2. IsUlp(ulp, num, den)
  <2>1. PICK u : IsUlp(u, num, den)
    BY UlpExists
  <2>2. u \in ulps /\ \A v \in ulps : u <= v
    BY <2>1 DEF IsUlp, Ulps, B
  <2>3. ulp \in ulps /\ \A v \in ulps : ulp <= v
    <3> HIDE DEF ulps
    <3> QED
      BY <2>2
  <2> QED
    BY <2>3 DEF IsUlp, Ulps, B
<1> HIDE DEF ulp
<1>3. ulp \in Ulps /\ ulp \in Nat \ {0}
  BY <1>2, UlpsAreNat DEF IsUlp
<1>4. s \in Nat \ {0}
  <2>1. den * ulp >= den
    BY <1>3, ProductGrows
  <2> QED
    BY <1>3, <2>1
<1> HIDE DEF s
<1>5. m \in Nat /\ Nearest(m, num, s)
  BY <1>4, QuotientIsNearest
<1> HIDE DEF m
<1> QED
  BY <1>1, <1>2, <1>3, <1>5 DEF s, IsRounded
-----------------------------------------------------------------------------
(* Rounding keeps the order.                                                *)

LEMMA FactorsArePositive ==
  ASSUME NEW x \in Nat \ {0}, NEW y \in Nat \ {0}
  PROVE  x * y \in Nat \ {0}
<1>1. x * y >= x /\ x * y \in Nat
  BY ProductGrows, ProductIsNat
<1> QED
  BY <1>1

LEMMA FactorKeepsOrder ==
  ASSUME NEW x \in Nat, NEW y \in Nat, NEW r \in Nat
  PROVE  /\ x <= y => x * r <= y * r
         /\ r # 0 /\ x * r <= y * r => x <= y
<1>1. x * r \in Nat /\ y * r \in Nat
  BY ProductIsNat
<1>2. CASE r = 0
  BY <1>2
<1>3. CASE r # 0
  <2>1. x * r > y * r <=> x > y
    BY <1>3, CommonFactor
  <2> QED
    BY <1>1, <2>1
<1> QED
  BY <1>2, <1>3

\* Multiples of s less than half an s apart are in order.
LEMMA LessThanHalfAway ==
  ASSUME NEW s \in Nat \ {0}, NEW a \in Nat, NEW b \in Nat,
         2 * (s * a) <= 2 * (s * b) + s
  PROVE  a <= b
<1> SUFFICES ASSUME a >= b + 1 PROVE FALSE
  OBVIOUS
<1>1. (b + 1) * s <= a * s
  BY FactorKeepsOrder
<1>2. (b + 1) * s = s * b + s /\ a * s = s * a /\ s * a \in Nat /\ s * b \in Nat
  BY ProductIsNat
<1> QED
  BY <1>1, <1>2

LEMMA NearestScales ==
  ASSUME NEW m \in Nat, NEW num \in Nat, NEW s \in Nat, NEW d \in Nat \ {0}
  PROVE  Nearest(m, num, s) <=> Nearest(m, num * d, s * d)
<1>1. PICK a \in Nat : a = s * m
  BY ProductIsNat
<1>2. PICK n \in Nat : n = 2 * num + s
  OBVIOUS
<1>3. PICK c \in Nat : c = 2 * a + s
  BY <1>1
<1>4. /\ 2 * ((s * d) * m) = (2 * a) * d /\ 2 * (num * d) + s * d = n * d
      /\ 2 * (num * d) = (2 * num) * d /\ 2 * ((s * d) * m) + s * d = c * d
  BY <1>1, <1>2, <1>3
<1>5. /\ 2 * a <= n <=> (2 * a) * d <= n * d
      /\ 2 * a = n <=> (2 * a) * d = n * d
  <2>1. (2 * a) * d <= n * d => 2 * a <= n
    BY <1>1, FactorKeepsOrder
  <2>2. 2 * a <= n => (2 * a) * d <= n * d
    BY <1>1, FactorKeepsOrder
  <2>3. (2 * a) * d >= n * d => 2 * a >= n
    BY <1>1, FactorKeepsOrder
  <2> QED
    BY <1>1, <2>1, <2>2, <2>3
<1>6. /\ 2 * num <= c <=> (2 * num) * d <= c * d
      /\ 2 * num = c <=> (2 * num) * d = c * d
  <2>1. (2 * num) * d <= c * d => 2 * num <= c
    BY <1>1, FactorKeepsOrder
  <2>2. 2 * num <= c => (2 * num) * d <= c * d
    BY <1>1, FactorKeepsOrder
  <2>3. (2 * num) * d >= c * d => 2 * num >= c
    BY <1>1, FactorKeepsOrder
  <2> QED
    BY <1>1, <2>1, <2>2, <2>3
<1> QED
  BY <1>1, <1>2, <1>3, <1>4, <1>5, <1>6 DEF Nearest

LEMMA NearestKeepsOrder ==
  ASSUME NEW m1 \in Nat, NEW m2 \in Nat, NEW x1 \in Nat, NEW x2 \in Nat, NEW s \in Nat \ {0},
         Nearest(m1, x1, s), Nearest(m2, x2, s), x1 <= x2
  PROVE  m1 <= m2
<1> SUFFICES ASSUME m1 >= m2 + 1 PROVE FALSE
  OBVIOUS
<1>1. PICK a1 \in Nat : a1 = s * m1
  BY ProductIsNat
<1>2. PICK a2 \in Nat : a2 = s * m2
  BY ProductIsNat
<1>3. a1 <= a2 + s
  BY <1>1, <1>2 DEF Nearest
<1>4. m1 <= m2 + 1
  <2>1. s * (m2 + 1) = a2 + s
    BY <1>2
  <2>2. 2 * (s * m1) <= 2 * (s * (m2 + 1)) + s
    BY <1>1, <1>3, <2>1
  <2> QED
    BY <2>2, LessThanHalfAway
<1>5. m1 = m2 + 1
  BY <1>4
<1>6. a1 = a2 + s
  BY <1>1, <1>2, <1>5
<1>7. m1 % 2 = 0 /\ m2 % 2 = 0
  BY <1>1, <1>2, <1>3, <1>6 DEF Nearest
<1> QED
  BY <1>5, <1>7

\* What an ulp above 1 says of a quotient: it fills the significand.
LEMMA UlpIsNeeded ==
  ASSUME NEW num \in Nat, NEW den \in Nat \ {0}, NEW u, IsUlp(u, num, den), u # 1
  PROVE  (den * u) * H <= num
<1>1. u \in Ulps
  BY DEF IsUlp
<1>2. PICK v \in Ulps : u = 2 * v
  BY <1>1, UlpsAreNat
<1>3. v \in Nat \ {0}
  BY UlpsAreNat
<1>4. ~ (u <= v)
  BY <1>2, <1>3
<1>5. ~ (num < (den * v) * B)
  BY <1>4 DEF IsUlp
<1>6. (den * v) * B = (den * u) * H /\ (den * v) * B \in Nat
  BY <1>2, <1>3, Significands
<1> QED
  BY <1>5, <1>6

\* No significand is longer than Prec bits, and only that of a number with ulp 1
\* can be shorter.
LEMMA SignificandFits ==
  ASSUME NEW num \in Nat, NEW den \in Nat \ {0}, NEW u, NEW m \in Nat,
         IsUlp(u, num, den), Nearest(m, num, den * u)
  PROVE  m <= B /\ (u # 1 => H <= m)
<1>1. u \in Nat \ {0} /\ den * u \in Nat \ {0}
  BY UlpsAreNat, FactorsArePositive DEF IsUlp
<1>2. PICK s \in Nat \ {0} : s = den * u
  BY <1>1
<1>3. B \in Nat /\ H \in Nat
  BY Significands
<1>4. s * B \in Nat /\ s * H \in Nat /\ s * m \in Nat
  BY <1>2, <1>3, ProductIsNat
<1>5. m <= B
  <2>1. 2 * (s * m) <= 2 * (s * B) + s
    BY <1>2, <1>4 DEF IsUlp, Nearest
  <2> QED
    BY <1>3, <2>1, LessThanHalfAway
<1>6. u # 1 => H <= m
  <2> SUFFICES ASSUME u # 1 PROVE H <= m
    OBVIOUS
  <2>1. s * H <= num
    BY <1>2, UlpIsNeeded
  <2>2. 2 * (s * H) <= 2 * (s * m) + s
    BY <1>2, <1>4, <2>1 DEF Nearest
  <2> QED
    BY <1>3, <2>2, LessThanHalfAway
<1> QED
  BY <1>5, <1>6

\* The larger of two quotients has no smaller an ulp.
LEMMA UlpKeepsOrder ==
  ASSUME NEW n1 \in Nat, NEW d1 \in Nat \ {0}, NEW n2 \in Nat, NEW d2 \in Nat \ {0},
         n1 * d2 <= n2 * d1,
         NEW u1, NEW u2, IsUlp(u1, n1, d1), IsUlp(u2, n2, d2)
  PROVE  u1 <= u2
<1>1. u2 \in Ulps /\ u2 \in Nat /\ B \in Nat
  BY UlpsAreNat, Significands DEF IsUlp
<1>2. PICK x \in Nat : x = (d1 * u2) * B
  BY <1>1, ProductIsNat
<1>3. PICK y \in Nat : y = (d2 * u2) * B
  BY <1>1, ProductIsNat
<1>4. n2 < y
  BY <1>3 DEF IsUlp
<1>5. y * d1 > n2 * d1
  BY <1>4, CommonFactor
<1>6. y * d1 = x * d2
  BY <1>1, <1>2, <1>3
<1>7. x * d2 > n1 * d2
  <2>1. n1 * d2 \in Nat /\ n2 * d1 \in Nat /\ x * d2 \in Nat
    BY ProductIsNat
  <2> QED
    BY <1>5, <1>6, <2>1
<1>8. n1 < x
  BY <1>7, CommonFactor
<1> QED
  BY <1>1, <1>2, <1>8 DEF IsUlp

LEMMA RoundedKeepsOrder ==
  ASSUME NEW n1 \in Nat, NEW d1 \in Nat \ {0}, NEW n2 \in Nat, NEW d2 \in Nat \ {0},
         n1 * d2 <= n2 * d1,
         NEW w1, NEW w2, IsRounded(w1, n1, d1), IsRounded(w2, n2, d2)
  PROVE  w1 <= w2
<1>1. PICK u1 \in Ulps : \E m \in Nat :
        IsUlp(u1, n1, d1) /\ Nearest(m, n1, d1 * u1) /\ w1 = u1 * m
  BY DEF IsRounded
<1>2. PICK m1 \in Nat : IsUlp(u1, n1, d1) /\ Nearest(m1, n1, d1 * u1) /\ w1 = u1 * m1
  BY <1>1
<1>3. PICK u2 \in Ulps : \E m \in Nat :
        IsUlp(u2, n2, d2) /\ Nearest(m, n2, d2 * u2) /\ w2 = u2 * m
  BY DEF IsRounded
<1>4. PICK m2 \in Nat : IsUlp(u2, n2, d2) /\ Nearest(m2, n2, d2 * u2) /\ w2 = u2 * m2
  BY <1>3
<1>5. u1 \in Nat \ {0} /\ u2 \in Nat \ {0} /\ u1 <= u2
  BY <1>2, <1>4, UlpsAreNat, UlpKeepsOrder
<1>6. CASE u1 = u2
  <2>1. PICK s \in Nat \ {0} : s = (d1 * u1) * d2
    BY <1>5, FactorsArePositive
  <2>2. (d2 * u2) * d1 = s
    BY <1>5, <1>6, <2>1
  <2>3. d1 * u1 \in Nat /\ d2 * u2 \in Nat
    BY <1>5
  <2>4. Nearest(m1, n1 * d2, s) /\ Nearest(m2, n2 * d1, s)
    BY <1>2, <1>4, <2>1, <2>2, <2>3, NearestScales
  <2>5. n1 * d2 \in Nat /\ n2 * d1 \in Nat
    BY ProductIsNat
  <2>6. m1 <= m2
    BY <2>4, <2>5, NearestKeepsOrder
  <2>7. m1 * u1 <= m2 * u1
    BY <1>5, <2>6, FactorKeepsOrder
  <2> QED
    BY <1>2, <1>4, <1>5, <1>6, <2>7
<1>7. CASE u1 < u2
  <2>1. PICK k \in Nat \ {0} : u2 = u1 * (2 * k)
    BY <1>7, UlpsDivide
  <2>2. m1 <= B /\ H <= m2 /\ B = 2 * H /\ H \in Nat
    <3>1. m1 <= B
      BY <1>2, SignificandFits
    <3>2. u2 # 1
      BY <1>5, <1>7
    <3>3. H <= m2
      BY <1>4, <3>2, SignificandFits
    <3> QED
      BY <3>1, <3>3, Significands
  <2>3. m1 * u1 <= B * u1 /\ H * u2 <= m2 * u2
    BY <1>5, <2>2, FactorKeepsOrder
  <2>4. H * u2 = (B * u1) * k
    BY <1>5, <2>1, <2>2
  <2>5. B * u1 \in Nat /\ (B * u1) * k >= B * u1
    BY <1>5, <2>2, ProductIsNat, ProductGrows
  <2>6. m1 * u1 \in Nat /\ m2 * u2 \in Nat
    BY <1>5
  <2> QED
    BY <1>2, <1>4, <1>5, <2>3, <2>4, <2>5, <2>6
<1> QED
  BY <1>5, <1>6, <1>7

LEMMA RoundedIsNat ==
  ASSUME NEW num, NEW den, NEW w, IsRounded(w, num, den)
  PROVE  w \in Nat
  BY UlpsAreNat, ProductIsNat DEF IsRounded

\* There is one way of rounding.
LEMMA RoundIs ==
  ASSUME NEW num \in Nat, NEW den \in Nat \ {0}, NEW w, IsRounded(w, num, den)
  PROVE  Round(num, den) = w
<1>1. InRange(num, den)
  BY DEF IsRounded, IsUlp, InRange
<1>2. IsRounded(Round(num, den), num, den)
  BY <1>1, RoundIsRounded
<1>3. num * den \in Nat
  BY ProductIsNat
<1>4. Round(num, den) <= w /\ w <= Round(num, den)
  BY <1>2, <1>3, RoundedKeepsOrder
<1> QED
  BY <1>2, <1>4, RoundedIsNat

\* A larger quotient is never rounded to less.
THEOREM RoundKeepsOrder ==
  ASSUME NEW n1 \in Nat, NEW d1 \in Nat \ {0}, NEW n2 \in Nat, NEW d2 \in Nat \ {0},
         InRange(n1, d1), InRange(n2, d2), n1 * d2 <= n2 * d1
  PROVE  Round(n1, d1) <= Round(n2, d2)
<1>1. IsRounded(Round(n1, d1), n1, d1) /\ IsRounded(Round(n2, d2), n2, d2)
  BY RoundIsRounded
<1> QED
  BY <1>1, RoundedKeepsOrder
-----------------------------------------------------------------------------
(* How far off a rounding is.                                               *)

\* The parts of a rounding: its ulp u, its significand m, and s, what one step of
\* the significand is worth.
LEMMA RoundParts ==
  ASSUME NEW num \in Nat, NEW den \in Nat \ {0}, InRange(num, den)
  PROVE  \E u \in Nat \ {0}, m \in Nat, s \in Nat \ {0} :
           /\ IsUlp(u, num, den) /\ s = den * u /\ Nearest(m, num, s)
           /\ Round(num, den) = u * m /\ Round(num, den) * den = s * m
<1>1. PICK u \in Ulps : \E m \in Nat :
        IsUlp(u, num, den) /\ Nearest(m, num, den * u) /\ Round(num, den) = u * m
  BY RoundIsRounded DEF IsRounded
<1>2. PICK m \in Nat : IsUlp(u, num, den) /\ Nearest(m, num, den * u) /\ Round(num, den) = u * m
  BY <1>1
<1>3. u \in Nat \ {0}
  BY UlpsAreNat
<1>4. PICK s \in Nat \ {0} : s = den * u
  BY <1>3, FactorsArePositive
<1>5. (u * m) * den = s * m
  BY <1>3, <1>4
<1> QED
  BY <1>2, <1>3, <1>4, <1>5

LEMMA RoundIsNat ==
  ASSUME NEW num \in Nat, NEW den \in Nat \ {0}, InRange(num, den)
  PROVE  Round(num, den) \in Nat
  BY RoundIsRounded, RoundedIsNat

\* Never more than twice what it rounds.
LEMMA RoundAtMostTwice ==
  ASSUME NEW num \in Nat, NEW den \in Nat \ {0}, InRange(num, den)
  PROVE  Round(num, den) * den <= 2 * num
<1>1. PICK u \in Nat \ {0}, m \in Nat, s \in Nat \ {0} :
        /\ IsUlp(u, num, den) /\ s = den * u /\ Nearest(m, num, s)
        /\ Round(num, den) = u * m /\ Round(num, den) * den = s * m
  BY RoundParts
<1>2. CASE m = 0
  BY <1>1, <1>2
<1>3. CASE m # 0
  <2>1. s * m >= s /\ s * m \in Nat
    BY <1>3, ProductGrows, ProductIsNat
  <2> QED
    BY <1>1, <2>1 DEF Nearest
<1> QED
  BY <1>2, <1>3

\* Nor less than half of it, where that is 1 at least.
LEMMA RoundAtLeastHalf ==
  ASSUME NEW num \in Nat, NEW den \in Nat \ {0}, InRange(num, den), den <= num
  PROVE  num <= 2 * (Round(num, den) * den)
<1>1. PICK u \in Nat \ {0}, m \in Nat, s \in Nat \ {0} :
        /\ IsUlp(u, num, den) /\ s = den * u /\ Nearest(m, num, s)
        /\ Round(num, den) = u * m /\ Round(num, den) * den = s * m
  BY RoundParts
<1>2. s <= num
  <2>1. CASE u = 1
    BY <1>1, <2>1
  <2>2. CASE u # 1
    <3>1. s * H <= num
      BY <1>1, <2>2, UlpIsNeeded
    <3>2. s * H >= s /\ s * H \in Nat
      BY Significands, ProductGrows, ProductIsNat
    <3> QED
      BY <3>1, <3>2
  <2> QED
    BY <2>1, <2>2
<1>3. s * m \in Nat
  BY ProductIsNat
<1> QED
  BY <1>1, <1>2, <1>3 DEF Nearest

\* Within one part in 16, where it fills a significand.
LEMMA RoundIsClose ==
  ASSUME NEW num \in Nat, NEW den \in Nat \ {0}, InRange(num, den), den * H <= num
  PROVE  /\ 16 * (Round(num, den) * den) <= 17 * num
         /\ 15 * num <= 16 * (Round(num, den) * den)
<1>1. PICK u \in Nat \ {0}, m \in Nat, s \in Nat \ {0} :
        /\ IsUlp(u, num, den) /\ s = den * u /\ Nearest(m, num, s)
        /\ Round(num, den) = u * m /\ Round(num, den) * den = s * m
  BY RoundParts
<1>2. s * H <= num
  <2>1. CASE u = 1
    BY <1>1, <2>1
  <2>2. CASE u # 1
    BY <1>1, <2>2, UlpIsNeeded
  <2> QED
    BY <2>1, <2>2
<1>3. 8 * s <= s * H
  <2>1. 8 * s <= H * s
    BY Significands, FactorKeepsOrder
  <2> QED
    BY <2>1, Significands
<1>4. s * m \in Nat /\ s * H \in Nat
  BY Significands, ProductIsNat
<1> QED
  BY <1>1, <1>2, <1>3, <1>4 DEF Nearest

\* A whole number of at most Prec bits is not rounded at all.
LEMMA SmallIsExact ==
  ASSUME NEW x \in Nat, x < B
  PROVE  Round(x, 1) = x
<1>1. B \in Nat /\ 1 \in Ulps
  BY Significands, UlpsAreNat
<1>2. IsUlp(1, x, 1)
  <2>1. (1 * 1) * B = B
    BY <1>1
  <2>2. \A v \in Ulps : 1 <= v
    BY UlpsAreNat
  <2> QED
    BY <1>1, <2>1, <2>2 DEF IsUlp
<1>3. Nearest(x, x, 1 * 1)
  BY DEF Nearest
<1>4. IsRounded(x, x, 1)
  <2>1. x = 1 * x
    OBVIOUS
  <2> QED
    BY <1>1, <1>2, <1>3, <2>1 DEF IsRounded
<1> QED
  BY <1>4, RoundIs

-----------------------------------------------------------------------------
(* Twice a quotient.                                                        *)

\* Twice a quotient that fills its significand has twice its ulp.
LEMMA UlpDoubles ==
  ASSUME NEW num \in Nat, NEW den \in Nat \ {0}, NEW u, IsUlp(u, num, den),
         (den * u) * H <= num, InRange(2 * num, den)
  PROVE  IsUlp(2 * u, 2 * num, den)
<1>1. PICK w : IsUlp(w, 2 * num, den)
  BY UlpExists
<1>2. u \in Nat \ {0} /\ w \in Ulps /\ H \in Nat /\ B = 2 * H
  <2>1. u \in Ulps /\ w \in Ulps
    BY <1>1 DEF IsUlp
  <2> QED
    BY <2>1, UlpsAreNat, Significands
<1>3. PICK t \in Nat : t = den * u
  BY <1>2, ProductIsNat
<1>4. PICK f \in Nat : f = t * H
  BY <1>2, ProductIsNat
<1>5. t * B = 2 * f /\ f <= num
  BY <1>2, <1>3, <1>4
<1>6. w # 1
  <2>1. den * 1 <= t
    <3>1. den * u >= den
      BY <1>2, ProductGrows
    <3> QED
      BY <1>3, <3>1
  <2>2. (den * 1) * B <= t * B
    BY <1>2, <2>1, FactorKeepsOrder
  <2>3. (den * 1) * B \in Nat
    BY <1>2
  <2> SUFFICES ASSUME w = 1 PROVE FALSE
    OBVIOUS
  <2>4. 2 * num < (den * 1) * B
    BY <1>1 DEF IsUlp
  <2> QED
    BY <1>5, <2>2, <2>3, <2>4
<1>7. PICK v \in Ulps : w = 2 * v
  BY <1>2, <1>6, UlpsAreNat
<1>8. v \in Nat \ {0}
  BY UlpsAreNat
<1>9. PICK g \in Nat : g = (den * v) * H
  BY <1>2, <1>8, ProductIsNat
<1>10. u <= v
  <2>1. (den * w) * B = 2 * ((den * v) * B) /\ (den * v) * B \in Nat
    BY <1>2, <1>7, <1>8
  <2>2. num < (den * v) * B
    BY <1>1, <2>1 DEF IsUlp
  <2> QED
    BY <2>2 DEF IsUlp
<1>11. v <= u
  <2> SUFFICES ASSUME u < v PROVE FALSE
    BY <1>2, <1>8
  <2>1. PICK k \in Nat \ {0} : v = u * (2 * k)
    BY UlpsDivide DEF IsUlp
  <2>2. (den * w) * H <= 2 * num
    BY <1>1, <1>6, UlpIsNeeded
  <2>3. (den * w) * H = 2 * g
    BY <1>2, <1>7, <1>8, <1>9
  <2>4. g = (2 * f) * k
    BY <1>2, <1>3, <1>4, <1>9, <2>1
  <2>5. (2 * f) * k >= 2 * f
    BY ProductGrows
  <2>6. num < 2 * f
    BY <1>3, <1>5 DEF IsUlp
  <2> QED
    BY <2>2, <2>3, <2>4, <2>5, <2>6
<1> QED
  BY <1>1, <1>2, <1>7, <1>8, <1>10, <1>11

\* Doubling what fills a significand doubles what it is rounded to.
THEOREM RoundDoubles ==
  ASSUME NEW num \in Nat, NEW den \in Nat \ {0}, InRange(num, den), InRange(2 * num, den),
         den * H <= num
  PROVE  Round(2 * num, den) = 2 * Round(num, den)
<1>1. PICK u \in Nat \ {0}, m \in Nat, s \in Nat \ {0} :
        /\ IsUlp(u, num, den) /\ s = den * u /\ Nearest(m, num, s)
        /\ Round(num, den) = u * m /\ Round(num, den) * den = s * m
  BY RoundParts
<1>2. s * H <= num
  <2>1. CASE u = 1
    BY <1>1, <2>1
  <2>2. CASE u # 1
    BY <1>1, <2>2, UlpIsNeeded
  <2> QED
    BY <2>1, <2>2
<1>3. IsUlp(2 * u, 2 * num, den)
  BY <1>1, <1>2, UlpDoubles
<1>4. Nearest(m, num * 2, s * 2)
  <2>1. 2 \in Nat \ {0} /\ s \in Nat /\ Nearest(m, num, s)
    BY <1>1
  <2> QED
    BY <2>1, NearestScales
<1>5. num * 2 = 2 * num /\ s * 2 = den * (2 * u) /\ 2 * (u * m) = (2 * u) * m
  BY <1>1
<1>6. IsRounded(2 * Round(num, den), 2 * num, den)
  <2>1. Nearest(m, 2 * num, den * (2 * u))
    BY <1>4, <1>5
  <2>2. 2 * u \in Ulps
    BY <1>3 DEF IsUlp
  <2> QED
    BY <1>1, <1>3, <1>5, <2>1, <2>2 DEF IsRounded
<1> QED
  BY <1>6, RoundIs
-----------------------------------------------------------------------------
(* Shares of two costs. What rounding may make of a share never turns the    *)
(* order of the sums round.                                                  *)

\* A number with a significand of Prec bits.
IsFloat(x) == \E u \in Ulps, m \in Nat : m <= B /\ x = u * m

LEMMA RoundIsFloat ==
  ASSUME NEW num \in Nat, NEW den \in Nat \ {0}, InRange(num, den)
  PROVE  IsFloat(Round(num, den))
<1>1. PICK u \in Nat \ {0}, m \in Nat, s \in Nat \ {0} :
        /\ IsUlp(u, num, den) /\ s = den * u /\ Nearest(m, num, s)
        /\ Round(num, den) = u * m /\ Round(num, den) * den = s * m
  BY RoundParts
<1>2. m <= B
  BY <1>1, SignificandFits
<1>3. u \in Ulps
  BY <1>1 DEF IsUlp
<1> QED
  BY <1>1, <1>2, <1>3 DEF IsFloat

\* Above a full significand of ulps v only every other multiple of v is left.
LEMMA FloatIsMultiple ==
  ASSUME NEW b \in Nat, IsFloat(b), NEW v \in Ulps, v * B <= b
  PROVE  \E c \in Nat : b = v * (2 * c)
<1>1. PICK u \in Ulps : \E m \in Nat : m <= B /\ b = u * m
  BY DEF IsFloat
<1>2. PICK m \in Nat : m <= B /\ b = u * m
  BY <1>1
<1>3. u \in Nat \ {0} /\ v \in Nat \ {0} /\ H \in Nat /\ B = 2 * H /\ B # 0
  BY UlpsAreNat, Significands
<1>4. PICK f \in Nat \ {0} : f = B * u
  BY <1>3, FactorsArePositive
<1>5. b <= f
  <2>1. m * u <= B * u
    BY <1>2, <1>3, FactorKeepsOrder
  <2> QED
    BY <1>2, <1>3, <1>4, <2>1
<1>6. CASE u < v
  <2>1. PICK k \in Nat \ {0} : v = u * (2 * k)
    BY <1>6, UlpsDivide
  <2>2. v * B = (2 * f) * k
    BY <1>3, <1>4, <2>1
  <2>3. (2 * f) * k >= 2 * f
    BY <1>4, ProductGrows
  <2> QED
    BY <1>4, <1>5, <2>2, <2>3
<1>7. CASE u = v
  <2>1. B * v <= m * v
    BY <1>2, <1>3, <1>7
  <2>2. B <= m
    BY <1>3, <2>1, FactorKeepsOrder
  <2>3. m = 2 * H
    BY <1>2, <1>3, <2>2
  <2> QED
    BY <1>2, <1>3, <1>7, <2>3
<1>8. CASE v < u
  <2>1. PICK k \in Nat \ {0} : u = v * (2 * k)
    BY <1>8, UlpsDivide
  <2>2. b = v * (2 * (k * m)) /\ k * m \in Nat
    BY <1>2, <1>3, <2>1
  <2> QED
    BY <2>2
<1> QED
  BY <1>3, <1>6, <1>7, <1>8

\* Two different multiples of v are v apart.
LEMMA MultiplesAreApart ==
  ASSUME NEW v \in Nat \ {0}, NEW x \in Nat, NEW y \in Nat, v * x < v * y
  PROVE  v * x + v <= v * y
<1>1. x < y
  <2>1. v * x = x * v /\ v * y = y * v
    OBVIOUS
  <2>2. y * v > x * v
    BY <2>1
  <2> QED
    BY <2>2, CommonFactor
<1>2. (x + 1) * v <= y * v
  BY <1>1, FactorKeepsOrder
<1> QED
  BY <1>2

\* How far a number with a full significand of ulps v or more is above another: v
\* at least, and twice that unless the other is below a full significand.
LEMMA FloatsAreApart ==
  ASSUME NEW a \in Nat, IsFloat(a), NEW b \in Nat, IsFloat(b), a < b,
         NEW v \in Ulps, v * B <= b
  PROVE  /\ a + v <= b
         /\ v * B <= a => a + 2 * v <= b
<1>0. v \in Nat \ {0} /\ H \in Nat /\ H >= 8 /\ B = 2 * H
  BY UlpsAreNat, Significands
<1>1. PICK c \in Nat : b = v * (2 * c)
  BY FloatIsMultiple
<1>2. v * B <= a => a + 2 * v <= b
  <2> SUFFICES ASSUME v * B <= a PROVE a + 2 * v <= b
    OBVIOUS
  <2>1. PICK e \in Nat : a = v * (2 * e)
    BY FloatIsMultiple
  <2>2. a = (2 * v) * e /\ b = (2 * v) * c
    BY <1>0, <1>1, <2>1
  <2>3. (2 * v) * e + 2 * v <= (2 * v) * c
    BY <1>0, <2>2, MultiplesAreApart
  <2> QED
    BY <2>2, <2>3
<1>3. a + v <= b
  <2>1. PICK u \in Ulps : \E m \in Nat : m <= B /\ a = u * m
    BY DEF IsFloat
  <2>2. PICK m \in Nat : m <= B /\ a = u * m
    BY <2>1
  <2>3. u \in Nat \ {0}
    BY UlpsAreNat
  <2>4. CASE u < v
    <3>1. PICK k \in Nat \ {0} : v = u * (2 * k)
      BY <2>4, UlpsDivide
    <3>2. PICK f \in Nat : f = H * u
      BY <1>0, <2>3, ProductIsNat
    <3>3. a <= 2 * f
      <4>1. m * u <= B * u
        BY <1>0, <2>2, <2>3, FactorKeepsOrder
      <4> QED
        BY <1>0, <2>2, <2>3, <3>2, <4>1
    <3>4. v * H = (2 * f) * k /\ (2 * f) * k >= 2 * f
      BY <1>0, <2>3, <3>1, <3>2, ProductGrows
    <3>5. v * B = 2 * (v * H) /\ v * H >= v /\ v * H \in Nat
      BY <1>0, ProductGrows
    <3> QED
      BY <1>0, <3>2, <3>3, <3>4, <3>5
  <2>5. CASE u = v
    <3>1. v * m + v <= v * (2 * c)
      BY <1>0, <1>1, <2>2, <2>5, MultiplesAreApart
    <3> QED
      BY <1>1, <2>2, <2>5, <3>1
  <2>6. CASE v < u
    <3>1. PICK k \in Nat \ {0} : u = v * (2 * k)
      BY <2>6, UlpsDivide
    <3>2. a = v * ((2 * k) * m) /\ (2 * k) * m \in Nat
      BY <1>0, <2>2, <3>1
    <3>3. v * ((2 * k) * m) + v <= v * (2 * c)
      BY <1>0, <1>1, <3>2, MultiplesAreApart
    <3> QED
      BY <1>1, <3>2, <3>3
  <2> QED
    BY <1>0, <2>3, <2>4, <2>5, <2>6
<1> QED
  BY <1>2, <1>3
\* Dividing the larger of two costs by the number of cards makes the sum no larger
\* than dividing the smaller one: the shares are rounded, but by less than the
\* costs, rounded to the same bits, can be apart.
THEOREM ShareTheLarger ==
  ASSUME NEW a \in Nat, IsFloat(a), NEW b \in Nat, IsFloat(b), a <= b,
         NEW n \in Nat, n >= 2, InRange(a, n), InRange(b, n)
  PROVE  Round(b, n) + a <= b + Round(a, n)
<1> DEFINE x == Round(b, n)
           y == Round(a, n)
<1>0. n \in Nat \ {0} /\ x \in Nat /\ y \in Nat
  BY RoundIsNat
<1>1. PICK v \in Nat \ {0}, p \in Nat, s \in Nat \ {0} :
        IsUlp(v, b, n) /\ s = n * v /\ Nearest(p, b, s) /\ x = v * p /\ x * n = s * p
  BY <1>0, RoundParts
<1>2. PICK w \in Nat \ {0}, q \in Nat, r \in Nat \ {0} :
        IsUlp(w, a, n) /\ r = n * w /\ Nearest(q, a, r) /\ y = w * q /\ y * n = r * q
  BY <1>0, RoundParts
<1> HIDE DEF x, y
<1>3. w <= v
  <2>1. a * n <= b * n
    BY FactorKeepsOrder
  <2> QED
    BY <1>0, <1>1, <1>2, <2>1, UlpKeepsOrder
<1>4. r <= s
  <2>1. w * n <= v * n
    BY <1>3, FactorKeepsOrder
  <2> QED
    BY <1>1, <1>2, <2>1
<1>5. x * n \in Nat /\ y * n \in Nat
  BY <1>0, ProductIsNat
<1>6. 2 * (x * n) <= 2 * b + s /\ 2 * a <= 2 * (y * n) + r
  BY <1>1, <1>2 DEF Nearest
<1>7. PICK d \in Nat : b = a + d
  <2>1. b - a \in Nat /\ b = a + (b - a)
    OBVIOUS
  <2> QED
    BY <2>1
<1>8. CASE d = 0
  BY <1>0, <1>7, <1>8 DEF x, y
<1>9. ASSUME d # 0, x * n <= y * n + d * n PROVE x <= y + d
  <2>1. (y + d) * n = y * n + d * n
    BY <1>0
  <2>2. x * n <= (y + d) * n
    BY <1>9, <2>1
  <2>3. y + d \in Nat
    BY <1>0
  <2> QED
    BY <1>0, <2>2, <2>3, FactorKeepsOrder
<1>10. CASE d # 0 /\ v = 1
  <2>1. x * n <= y * n + d + n
    BY <1>0, <1>1, <1>4, <1>5, <1>6, <1>7, <1>10
  <2>2. 2 * d <= d * n
    <3>1. 2 * d <= n * d
      BY FactorKeepsOrder
    <3> QED
      BY <3>1
  <2>3. SUFFICES ASSUME x >= y + d + 1 PROVE FALSE
    BY <1>0, <1>7 DEF x, y
  <2>4. (y + d + 1) * n <= x * n
    BY <1>0, <2>3, FactorKeepsOrder
  <2>5. (y + d + 1) * n = y * n + d * n + n /\ d * n \in Nat
    BY <1>0
  <2> QED
    BY <1>0, <1>5, <1>10, <2>1, <2>2, <2>4, <2>5
<1>11. CASE d # 0 /\ v # 1
  <2>1. s * H <= b
    BY <1>0, <1>1, <1>11, UlpIsNeeded
  <2>2. H \in Nat /\ H >= 8 /\ B = 2 * H /\ v \in Ulps
    BY <1>1, Significands DEF IsUlp
  <2>3. PICK f \in Nat : f = v * H
    BY <2>2, ProductIsNat
  <2>4. s * H = f * n /\ v * B = 2 * f /\ 8 * v <= f
    <3>1. 8 * v <= H * v
      BY <2>2, FactorKeepsOrder
    <3> QED
      BY <1>0, <1>1, <2>2, <2>3, <3>1
  <2>5. 2 * f <= f * n /\ f * n \in Nat
    <3>1. 2 * f <= n * f
      BY FactorKeepsOrder
    <3> QED
      BY <2>3, <3>1, ProductIsNat
  <2>6. v * B <= b
    BY <2>1, <2>4, <2>5
  <2>7. v <= d /\ (2 * f <= a => 2 * v <= d)
    <3>1. a < b
      BY <1>7, <1>11
    <3>2. a + v <= b /\ (v * B <= a => a + 2 * v <= b)
      BY <2>2, <2>6, <3>1, FloatsAreApart
    <3> QED
      BY <1>7, <2>4, <3>2
  <2>8. CASE n = 2
    <3>1. PICK c \in Nat : b = v * (2 * c)
      BY <2>2, <2>6, FloatIsMultiple
    <3>2. b = s * c
      BY <1>1, <2>8, <3>1
    <3>3. 2 * (s * p) <= 2 * (s * c) + s
      BY <1>1, <3>2 DEF Nearest
    <3>4. p <= c
      BY <3>3, LessThanHalfAway
    <3>5. p * s <= c * s
      BY <3>4, FactorKeepsOrder
    <3>6. x * n <= b
      BY <1>1, <3>2, <3>5
    <3>7. x * 2 <= b /\ 2 * a <= 2 * (y * 2) + 2 * w
      BY <1>2, <1>6, <2>8, <3>6
    <3> QED
      BY <1>0, <1>3, <1>7, <2>7, <3>7 DEF x, y
  <2>9. CASE n >= 3
    <3>1. 2 * v <= d
      <4>1. 3 * f <= f * n
        <5>1. 3 * f <= n * f
          BY <2>9, FactorKeepsOrder
        <5> QED
          BY <2>3, <5>1
      <4> QED
        BY <1>7, <2>1, <2>3, <2>4, <2>7, <4>1
    <3>2. PICK k \in Nat : n = k + 1 /\ k >= 2
      <4>1. n - 1 \in Nat /\ n = (n - 1) + 1 /\ n - 1 >= 2
        BY <2>9
      <4> QED
        BY <4>1
    <3>3. PICK g \in Nat : g = v * k
      BY <3>2, ProductIsNat
    <3>4. s = g + v /\ d * n = d * k + d /\ d * k \in Nat
      BY <1>1, <3>2, <3>3
    <3>5. 2 * g <= d * k
      <4>1. (2 * v) * k <= d * k
        BY <3>1, <3>2, FactorKeepsOrder
      <4>2. (2 * v) * k = 2 * g
        BY <3>2, <3>3
      <4> QED
        BY <4>1, <4>2
    <3>6. v <= g
      <4>1. v * k >= v
        BY <3>2, ProductGrows
      <4> QED
        BY <3>3, <4>1
    <3>7. x * n <= y * n + d + s
      BY <1>4, <1>5, <1>6, <1>7
    <3>8. x * n <= y * n + d * n
      BY <1>5, <3>3, <3>4, <3>5, <3>6, <3>7
    <3>9. x <= y + d
      BY <1>9, <1>11, <3>8
    <3> QED
      BY <1>0, <1>7, <3>9 DEF x, y
  <2> QED
    BY <2>8, <2>9
<1> QED
  BY <1>8, <1>10, <1>11
=============================================================================

------------------------- MODULE PickStrategyProofs -------------------------
(***************************************************************************)
(* Theorems about PickStrategy, for every width of u64 and of an f64, and  *)
(* every set of inputs.                                                    *)
(***************************************************************************)
EXTENDS RoundingProofs

-----------------------------------------------------------------------------
(* Footprints.                                                              *)

\* saturating_mul stays in u64, and is the product wherever that fits.
LEMMA SaturatingMulIsCapped ==
  ASSUME NEW x \in Nat, NEW y \in Nat
  PROVE  /\ SaturatingMul(x, y) \in 0..MaxU
         /\ x * y <= MaxU => SaturatingMul(x, y) = x * y
         /\ x * y >= MaxU => SaturatingMul(x, y) = MaxU
  BY ProductIsNat, ArithmeticAssumption DEF SaturatingMul

\* Of three factors, too: once the first product has saturated, the third factor
\* cannot bring it back, unless it is 0.
LEMMA SaturatingMulThrice ==
  ASSUME NEW x \in Nat, NEW y \in Nat, NEW z \in Nat
  PROVE  LET p == SaturatingMul(SaturatingMul(x, y), z) IN
         /\ p \in 0..MaxU
         /\ x * y * z <= MaxU => p = x * y * z
         /\ x * y * z >= MaxU => p = MaxU
<1> DEFINE s == SaturatingMul(x, y)
           p == SaturatingMul(s, z)
<1>1. x * y \in Nat /\ s \in Nat /\ s \in 0..MaxU /\ MaxU \in Nat
  BY ProductIsNat, SaturatingMulIsCapped, ArithmeticAssumption
<1>2. /\ p \in 0..MaxU
      /\ s * z <= MaxU => p = s * z
      /\ s * z >= MaxU => p = MaxU
  BY <1>1, SaturatingMulIsCapped
<1>3. CASE x * y <= MaxU
  <2>1. s = x * y
    BY <1>3, SaturatingMulIsCapped
  <2>2. s * z = x * y * z
    BY <2>1
  <2> QED  BY <1>2, <2>2
<1>4. CASE x * y > MaxU /\ z = 0
  <2>1. s * z = 0 /\ x * y * z = 0
    BY <1>1, <1>4
  <2> QED  BY <1>1, <1>2, <2>1
<1>5. CASE x * y > MaxU /\ z # 0
  <2>1. s = MaxU
    BY <1>1, <1>5, SaturatingMulIsCapped
  <2>2. s * z >= MaxU
    BY <1>1, <1>5, <2>1, ProductGrows
  <2>3. (x * y) * z >= x * y
    BY <1>1, <1>5, ProductGrows
  <2>4. (x * y) * z > MaxU /\ (x * y) * z \in Nat
    BY <1>1, <1>5, <2>3, ProductIsNat
  <2> QED  BY <1>1, <1>2, <2>2, <2>4
<1> QED  BY <1>1, <1>3, <1>4, <1>5

-----------------------------------------------------------------------------
(* What a state of the model is.                                            *)

Inputs ==
  /\ tile \in TileShapes
  /\ n_sails \in SailCounts /\ local_ddr_bw \in Bandwidths /\ intercard_bw \in Bandwidths
  /\ n_sails \in Nat /\ local_ddr_bw \in Nat /\ intercard_bw \in Nat

LEMMA TileIsNat ==
  ASSUME Inputs
  PROVE  /\ tile.m \in Nat /\ tile.n \in Nat /\ tile.k \in Nat
         /\ tile.bytes_per_element \in Nat
<1>1. Dims \subseteq Nat /\ Widths \subseteq Nat
  BY ArithmeticAssumption
<1> QED  BY <1>1 DEF Inputs, TileShapes

\* The arguments are never written to.
LEMMA InputsStay == Spec => []Inputs
<1>1. Init => Inputs
  BY ArithmeticAssumption DEF Init, Inputs
<1>2. Inputs /\ [Next]_vars => Inputs'
  BY DEF Inputs, Next, SingleCard, Compare, vars, args
<1> QED  BY <1>1, <1>2, PTL DEF Spec

\* A footprint beyond u64 is the largest u64, whatever the width, and the true
\* one below that: TileShape's saturating products never wrap.
THEOREM FootprintsSaturate == Spec => []SaturationKeepsFootprints
<1>1. Inputs => SaturationKeepsFootprints
  <2> SUFFICES ASSUME Inputs PROVE SaturationKeepsFootprints
    OBVIOUS
  <2>0. \A x, y, z \in Nat :
          x * y * z >= MaxU => SaturatingMul(SaturatingMul(x, y), z) = MaxU
    BY SaturatingMulThrice
  <2>1. Weight >= MaxU => weight_bytes(tile) = MaxU
    BY <2>0, TileIsNat DEF Weight, weight_bytes
  <2>2. Activation >= MaxU => activation_bytes(tile) = MaxU
    BY <2>0, TileIsNat DEF Activation, activation_bytes
  <2> QED  BY <2>1, <2>2 DEF SaturationKeepsFootprints
<1> QED  BY <1>1, InputsStay, PTL

-----------------------------------------------------------------------------
(* Degenerate inputs.                                                       *)

\* With a bandwidth of 0 both costs are infinite, whichever of the two it is.
LEMMA NoBandwidthNoCost ==
  ASSUME NEW t, NEW n, NEW ddr, NEW link, ddr = 0 \/ link = 0
  PROVE  TpCost(t, n, ddr, link) = Inf /\ MpCost(t, n, ddr, link) = Inf
<1>1. CASE ddr = 0
  <2>1. Seconds(weight_bytes(t), ddr) = Inf
    BY <1>1 DEF Seconds
  <2>2. DivF64(Seconds(weight_bytes(t), ddr), n) = Inf
    BY <2>1 DEF DivF64
  <2> QED  BY <2>1, <2>2 DEF TpCost, MpCost, AddF64
<1>2. CASE link = 0
  <2>1. Seconds(activation_bytes(t), link) = Inf
    BY <1>2 DEF Seconds
  <2>2. DivF64(Seconds(activation_bytes(t), link), n) = Inf
    BY <2>1 DEF DivF64
  <2> QED  BY <2>1, <2>2 DEF TpCost, MpCost, AddF64
<1> QED  BY <1>1, <1>2

\* pick_strategy falls back to tensor parallelism without a second card or
\* without a bandwidth: 0 * infinity and infinity - infinity never arise.
THEOREM DefaultIsTensorParallel == Spec => []DegenerateIsTensorParallel
<1>1. Init => DegenerateIsTensorParallel
  BY DEF Init, DegenerateIsTensorParallel
<1>2. Inputs /\ DegenerateIsTensorParallel /\ [Next]_vars => DegenerateIsTensorParallel'
  <2> SUFFICES ASSUME Inputs, DegenerateIsTensorParallel, [Next]_vars
               PROVE  DegenerateIsTensorParallel'
    OBVIOUS
  <2>1. CASE SingleCard
    BY <2>1 DEF SingleCard, DegenerateIsTensorParallel
  <2>2. CASE Compare
    <3> SUFFICES ASSUME n_sails <= 1 \/ local_ddr_bw = 0 \/ intercard_bw = 0
                 PROVE  choice' = "TensorParallel"
      BY <2>2 DEF Compare, args, DegenerateIsTensorParallel
    <3>1. local_ddr_bw = 0 \/ intercard_bw = 0
      BY <2>2 DEF Compare, Inputs
    <3>2. tp_cost' = Inf /\ mp_cost' = Inf
      BY <2>2, <3>1, NoBandwidthNoCost DEF Compare
    <3> QED  BY <2>2, <3>2 DEF Compare, Cheaper, LeqF64
  <2>3. CASE UNCHANGED vars
    BY <2>3 DEF vars, args, DegenerateIsTensorParallel
  <2> QED  BY <2>1, <2>2, <2>3 DEF Next
<1> QED  BY <1>1, <1>2, InputsStay, PTL DEF Spec

-----------------------------------------------------------------------------
(* The decision over the rationals.                                         *)

\* Both costs times n_sails * local_ddr_bw * intercard_bw, without rounding.
ExactTp == Weight * intercard_bw + Activation * local_ddr_bw * n_sails
ExactMp == Weight * intercard_bw * n_sails + Activation * local_ddr_bw

LEMMA FootprintsAreNat ==
  ASSUME Inputs
  PROVE  /\ Weight \in Nat /\ Activation \in Nat
         /\ Weight * intercard_bw \in Nat /\ Activation * local_ddr_bw \in Nat
<1>1. tile.m * tile.k \in Nat /\ tile.m * tile.n \in Nat
  BY TileIsNat, ProductIsNat
<1>2. Weight \in Nat /\ Activation \in Nat
  BY <1>1, TileIsNat, ProductIsNat DEF Weight, Activation
<1> QED  BY <1>2, ProductIsNat DEF Inputs

\* Which strategy is cheaper does not depend on how many cards there are.
THEOREM SailsDoNotMatter ==
  ASSUME Inputs, n_sails > 1
  PROVE  ExactTp > ExactMp <=> MpCheaper
<1> DEFINE P == Weight * intercard_bw
           Q == Activation * local_ddr_bw
<1>1. P \in Nat /\ Q \in Nat
  BY FootprintsAreNat
<1>2. PICK r \in Nat : n_sails = r + 1 /\ r # 0
  <2>1. n_sails - 1 \in Nat /\ n_sails = (n_sails - 1) + 1 /\ n_sails - 1 # 0
    BY DEF Inputs
  <2> QED  BY <2>1
<1>3. ExactTp = P + (Q * r + Q) /\ ExactMp = (P * r + P) + Q
  <2> HIDE DEF P, Q
  <2>1. Q * (r + 1) = Q * r + Q /\ P * (r + 1) = P * r + P
    BY <1>1
  <2> QED  BY <1>2, <2>1 DEF P, Q, ExactTp, ExactMp
<1>4. P * r \in Nat /\ Q * r \in Nat
  BY <1>1, ProductIsNat
<1>5. ExactTp > ExactMp <=> Q * r > P * r
  <2> HIDE DEF P, Q
  <2> QED  BY <1>1, <1>3, <1>4
<1>6. Q * r > P * r <=> Q > P
  BY <1>1, <1>2, CommonFactor
<1> QED  BY <1>5, <1>6 DEF MpCheaper

\* Nor on the rows of the tile, nor on the width of its elements: only on how
\* wide the output is beside the contraction.
THEOREM RowsDoNotMatter ==
  ASSUME Inputs, tile.m # 0, tile.bytes_per_element # 0
  PROVE  MpCheaper <=> tile.n * local_ddr_bw > tile.k * intercard_bw
<1> DEFINE m == tile.m
           n == tile.n
           k == tile.k
           b == tile.bytes_per_element
           d == local_ddr_bw
           i == intercard_bw
<1>1. m \in Nat /\ n \in Nat /\ k \in Nat /\ b \in Nat /\ d \in Nat /\ i \in Nat
  BY TileIsNat DEF Inputs
<1> HIDE DEF m, n, k, b, d, i
<1>2. m * b \in Nat /\ m * b # 0 /\ n * d \in Nat /\ k * i \in Nat
  <2>1. m # 0 /\ b # 0
    BY DEF m, b
  <2>2. m * b >= m
    BY <1>1, <2>1, ProductGrows
  <2> QED  BY <1>1, <2>1, <2>2, ProductIsNat
<1>3. (n * d) * (m * b) > (k * i) * (m * b) <=> n * d > k * i
  BY <1>2, CommonFactor
<1>4. (m * n * b) * d = (n * d) * (m * b) /\ (m * k * b) * i = (k * i) * (m * b)
  BY <1>1
<1>5. MpCheaper <=> (m * n * b) * d > (m * k * b) * i
  BY DEF MpCheaper, Activation, Weight, m, n, k, b, d, i
<1> QED  BY <1>3, <1>4, <1>5 DEF n, k, d, i

\* With the published bandwidths the crossover lies at a quarter of the
\* contraction, wherever rounding did not tip a comparison.
LEMMA CrossoverOfRevA ==
  ASSUME Inputs, ModelParallelIsCheaper, TensorParallelIsNoWorse,
         tile.m # 0, tile.bytes_per_element # 0
  PROVE  RevACrossover
<1> SUFFICES ASSUME RevA, AllExact, n_sails > 1
             PROVE  /\ choice = "ModelParallel" => 4 * tile.n > tile.k
                    /\ choice = "TensorParallel" => 4 * tile.n <= tile.k \/ tp_cost = mp_cost
  BY DEF RevACrossover
<1>1. local_ddr_bw = 20 /\ intercard_bw = 5
  BY DEF RevA, LOCAL_DDR_BW_BYTES_PER_SEC, INTERCARD_BW_BYTES_PER_SEC
<1>2. tile.n \in Nat /\ tile.k \in Nat
  BY TileIsNat
<1>3. MpCheaper <=> 4 * tile.n > tile.k
  BY <1>1, <1>2, RowsDoNotMatter
<1>4. choice = "ModelParallel" => MpCheaper
  BY DEF ModelParallelIsCheaper
<1>5. choice = "TensorParallel" /\ MpCheaper => tp_cost = mp_cost
  BY <1>1 DEF TensorParallelIsNoWorse
<1> QED  BY <1>2, <1>3, <1>4, <1>5
-----------------------------------------------------------------------------
(* The costs in rounded arithmetic.                                         *)

\* The largest product of a footprint and the resolution.
Top == MaxU * Unit

LEMMA UpToTop ==
  ASSUME NEW num \in Nat, num <= 8 * Top, NEW den \in Nat \ {0}
  PROVE  InRange(num, den)
<1>1. MaxExp \in 0..MaxExp /\ MaxU \in Nat /\ Unit \in Nat
  BY ArithmeticAssumption
<1>2. PICK u \in Ulps : u = Pow2[MaxExp]
  BY <1>1 DEF Ulps
<1>3. u \in Nat \ {0} /\ B \in Nat
  BY UlpsAreNat, Significands
<1>4. num < u * B
  <2>1. 8 * MaxU * Unit = 8 * Top
    BY <1>1 DEF Top
  <2>2. 8 * Top < u * B /\ Top \in Nat
    BY <1>1, <1>2, <2>1, RangeAssumption DEF B, Top
  <2> QED
    BY <1>3, <2>2
<1>5. (den * u) * B = (u * B) * den /\ (u * B) * den >= u * B /\ u * B \in Nat
  BY <1>3, ProductGrows
<1> QED
  BY <1>3, <1>4, <1>5 DEF InRange

LEMMA TopIsLarge == Top \in Nat /\ MaxU \in Nat /\ Unit \in Nat \ {0} /\ MaxU <= Top
<1>1. MaxU \in Nat /\ Unit \in Nat \ {0}
  BY ArithmeticAssumption
<1>2. MaxU * Unit >= MaxU /\ MaxU * Unit \in Nat
  BY <1>1, ProductGrows, ProductIsNat
<1> QED
  BY <1>1, <1>2 DEF Top

\* An integer as f64: at most doubled, and no smaller than 1 or 2 where it is not.
LEMMA FloatsOfIntegers ==
  ASSUME NEW x \in 0..MaxU
  PROVE  /\ InRange(x, 1) /\ Float(x) \in Nat /\ Float(x) <= 2 * x
         /\ x >= 1 => Float(x) >= 1
         /\ x >= 2 => Float(x) >= 2
<1>1. x \in Nat /\ x <= 8 * Top
  BY TopIsLarge
<1>2. InRange(x, 1) /\ Float(x) \in Nat
  BY <1>1, UpToTop, RoundIsNat DEF Float
<1>3. Float(x) <= 2 * x
  <2>1. Round(x, 1) * 1 <= 2 * x
    BY <1>1, <1>2, RoundAtMostTwice
  <2> QED
    BY <1>2, <2>1 DEF Float
<1>4. ASSUME NEW y \in {1, 2}, y <= x PROVE y <= Float(x)
  <2>1. y \in Nat /\ y < B
    BY Significands
  <2>2. InRange(y, 1)
    BY <1>1, <1>4, <2>1, UpToTop, TopIsLarge
  <2>3. y * 1 <= x * 1
    BY <1>1, <1>4
  <2>4. Round(y, 1) <= Round(x, 1)
    BY <1>1, <1>2, <2>1, <2>2, <2>3, RoundKeepsOrder
  <2> QED
    BY <2>1, <2>4, SmallIsExact DEF Float
<1> QED
  BY <1>1, <1>2, <1>3, <1>4

\* Seconds of a footprint: one rounded quotient, never past a sixteenth of the range.
LEMMA SecondsAre ==
  ASSUME NEW bytes \in 0..MaxU, NEW bw \in 0..MaxU, bw # 0
  PROVE  /\ Float(bytes) * Unit \in Nat /\ Float(bw) \in Nat \ {0}
         /\ InRange(Float(bytes) * Unit, Float(bw))
         /\ Seconds(bytes, bw) = Round(Float(bytes) * Unit, Float(bw))
         /\ Seconds(bytes, bw) \in Nat /\ Seconds(bytes, bw) <= 4 * Top
         /\ IsFloat(Seconds(bytes, bw))
<1>1. /\ Float(bytes) \in Nat /\ Float(bytes) <= 2 * MaxU
      /\ Float(bw) \in Nat \ {0}
  <2>1. bw >= 1 /\ MaxU \in Nat /\ bytes \in Nat /\ bytes <= MaxU
    BY TopIsLarge
  <2> QED
    BY <2>1, FloatsOfIntegers
<1>2. PICK num \in Nat : num = Float(bytes) * Unit
  BY <1>1, TopIsLarge, ProductIsNat
<1>3. PICK den \in Nat \ {0} : den = Float(bw)
  BY <1>1
<1>4. num <= 2 * Top
  <2>1. Float(bytes) * Unit <= (2 * MaxU) * Unit
    BY <1>1, TopIsLarge, FactorKeepsOrder
  <2>2. (2 * MaxU) * Unit = 2 * Top
    BY TopIsLarge DEF Top
  <2> QED
    BY <1>2, <2>1, <2>2
<1>5. InRange(num, den)
  BY <1>4, UpToTop, TopIsLarge
<1>6. Seconds(bytes, bw) = Round(num, den)
  <2>1. num # Inf
    BY ArithmeticAssumption
  <2> QED
    BY <1>2, <1>3, <2>1 DEF Seconds, DivF64
<1>7. PICK w \in Nat : w = Round(num, den)
  BY <1>5, RoundIsNat
<1>8. w <= 4 * Top
  <2>1. w * den <= 2 * num
    BY <1>5, <1>7, RoundAtMostTwice
  <2>2. w * den >= w /\ w * den \in Nat
    BY ProductGrows, ProductIsNat
  <2> QED
    BY <1>4, <2>1, <2>2, TopIsLarge
<1>9. IsFloat(w)
  BY <1>5, <1>7, RoundIsFloat
<1> QED
  BY <1>2, <1>3, <1>5, <1>6, <1>7, <1>8, <1>9

\* A share of a cost, no larger than the cost.
LEMMA SharesAre ==
  ASSUME NEW x \in Nat, x <= 4 * Top, NEW n \in 0..MaxU, n >= 2
  PROVE  /\ Float(n) \in Nat /\ Float(n) >= 2 /\ InRange(x, Float(n))
         /\ DivF64(x, n) = Round(x, Float(n))
         /\ Round(x, Float(n)) \in Nat /\ Round(x, Float(n)) <= x
<1>1. PICK k \in Nat : k = Float(n) /\ k >= 2
  BY FloatsOfIntegers
<1>2. InRange(x, k) /\ x # Inf
  BY <1>1, UpToTop, TopIsLarge, ArithmeticAssumption
<1>3. PICK w \in Nat : w = Round(x, k)
  BY <1>1, <1>2, RoundIsNat
<1>4. w <= x
  <2>1. w * k <= 2 * x
    BY <1>1, <1>2, <1>3, RoundAtMostTwice
  <2>2. 2 * w <= k * w
    BY <1>1, FactorKeepsOrder
  <2>3. w * k = k * w
    BY <1>1
  <2>4. w * k \in Nat
    BY <1>1, ProductIsNat
  <2> QED
    BY <2>1, <2>2, <2>3, <2>4
<1> QED
  BY <1>1, <1>2, <1>3, <1>4 DEF DivF64

\* A cost, of what is shared and what is not.
LEMMA SumsAre ==
  ASSUME NEW x \in Nat, x <= 4 * Top, NEW y \in Nat, y <= 4 * Top
  PROVE  /\ InRange(x + y, 1) /\ AddF64(x, y) = Round(x + y, 1)
         /\ Round(x + y, 1) \in Nat
<1>1. x + y \in Nat /\ x + y <= 8 * Top /\ x # Inf /\ y # Inf
  BY TopIsLarge, ArithmeticAssumption
<1>2. InRange(x + y, 1)
  BY <1>1, UpToTop
<1> QED
  BY <1>1, <1>2, RoundIsNat DEF AddF64

\* Where both bandwidths are known, the costs of a tile.
LEMMA CostsAre ==
  ASSUME NEW t, weight_bytes(t) \in 0..MaxU, activation_bytes(t) \in 0..MaxU,
         NEW n \in 0..MaxU, n >= 2,
         NEW ddr \in 0..MaxU, ddr # 0, NEW link \in 0..MaxU, link # 0
  PROVE  LET w == Seconds(weight_bytes(t), ddr)
             a == Seconds(activation_bytes(t), link)
         IN  /\ TpCost(t, n, ddr, link) = Round(Round(w, Float(n)) + a, 1)
             /\ MpCost(t, n, ddr, link) = Round(w + Round(a, Float(n)), 1)
             /\ TpCost(t, n, ddr, link) \in Nat /\ MpCost(t, n, ddr, link) \in Nat
             /\ InRange(Round(w, Float(n)) + a, 1) /\ InRange(w + Round(a, Float(n)), 1)
             /\ Round(w, Float(n)) \in Nat /\ Round(a, Float(n)) \in Nat
<1>1. PICK w \in Nat : w = Seconds(weight_bytes(t), ddr) /\ w <= 4 * Top
  BY SecondsAre
<1>2. PICK a \in Nat : a = Seconds(activation_bytes(t), link) /\ a <= 4 * Top
  BY SecondsAre
<1>3. PICK x \in Nat : x = Round(w, Float(n)) /\ x = DivF64(w, n) /\ x <= 4 * Top
  <2>1. /\ DivF64(w, n) = Round(w, Float(n)) /\ Round(w, Float(n)) \in Nat
        /\ Round(w, Float(n)) <= w
    BY <1>1, SharesAre
  <2> QED
    BY <1>1, <2>1, TopIsLarge
<1>4. PICK y \in Nat : y = Round(a, Float(n)) /\ y = DivF64(a, n) /\ y <= 4 * Top
  <2>1. /\ DivF64(a, n) = Round(a, Float(n)) /\ Round(a, Float(n)) \in Nat
        /\ Round(a, Float(n)) <= a
    BY <1>2, SharesAre
  <2> QED
    BY <1>2, <2>1, TopIsLarge
<1>5. TpCost(t, n, ddr, link) = AddF64(x, a) /\ MpCost(t, n, ddr, link) = AddF64(w, y)
  BY <1>1, <1>2, <1>3, <1>4 DEF TpCost, MpCost
<1>6. /\ InRange(x + a, 1) /\ AddF64(x, a) = Round(x + a, 1) /\ Round(x + a, 1) \in Nat
      /\ InRange(w + y, 1) /\ AddF64(w, y) = Round(w + y, 1) /\ Round(w + y, 1) \in Nat
  BY <1>1, <1>2, <1>3, <1>4, SumsAre
<1> QED
  BY <1>1, <1>2, <1>3, <1>4, <1>5, <1>6
\* Of two costs per second and per card, sharing the larger one gives the smaller
\* sum, rounded as pick_strategy rounds it.
LEMMA SharesKeepTheOrder ==
  ASSUME NEW t, weight_bytes(t) \in 0..MaxU, activation_bytes(t) \in 0..MaxU,
         NEW n \in 0..MaxU, n >= 2,
         NEW ddr \in 0..MaxU, ddr # 0, NEW link \in 0..MaxU, link # 0
  PROVE  LET w == Seconds(weight_bytes(t), ddr)
             a == Seconds(activation_bytes(t), link)
         IN  /\ a <= w => TpCost(t, n, ddr, link) <= MpCost(t, n, ddr, link)
             /\ w <= a => MpCost(t, n, ddr, link) <= TpCost(t, n, ddr, link)
<1>1. PICK w \in Nat : w = Seconds(weight_bytes(t), ddr) /\ w <= 4 * Top /\ IsFloat(w)
  BY SecondsAre
<1>2. PICK a \in Nat : a = Seconds(activation_bytes(t), link) /\ a <= 4 * Top /\ IsFloat(a)
  BY SecondsAre
<1>3. PICK k \in Nat : k = Float(n) /\ k >= 2 /\ InRange(w, k) /\ InRange(a, k)
  BY <1>1, <1>2, SharesAre
<1>4. PICK x \in Nat : x = Round(w, k)
  BY <1>3, RoundIsNat
<1>5. PICK y \in Nat : y = Round(a, k)
  BY <1>3, RoundIsNat
<1>6. /\ TpCost(t, n, ddr, link) = Round(x + a, 1) /\ InRange(x + a, 1)
      /\ MpCost(t, n, ddr, link) = Round(w + y, 1) /\ InRange(w + y, 1)
  BY <1>1, <1>2, <1>3, <1>4, <1>5, CostsAre
<1>7. x + a \in Nat /\ w + y \in Nat
  OBVIOUS
<1>8. ASSUME a <= w PROVE Round(x + a, 1) <= Round(w + y, 1)
  <2>1. x + a <= w + y
    BY <1>1, <1>2, <1>3, <1>4, <1>5, <1>8, ShareTheLarger
  <2>2. (x + a) * 1 <= (w + y) * 1
    BY <2>1
  <2> QED
    BY <1>6, <1>7, <2>2, RoundKeepsOrder
<1>9. ASSUME w <= a PROVE Round(w + y, 1) <= Round(x + a, 1)
  <2>1. y + w <= a + x
    BY <1>1, <1>2, <1>3, <1>4, <1>5, <1>9, ShareTheLarger
  <2>2. (w + y) * 1 <= (x + a) * 1
    BY <2>1
  <2> QED
    BY <1>6, <1>7, <2>2, RoundKeepsOrder
<1> QED
  BY <1>1, <1>2, <1>6, <1>8, <1>9

\* Seconds keep the order of exact sizes and bandwidths.
LEMMA SecondsKeepOrder ==
  ASSUME NEW x \in 0..MaxU, NEW y \in 0..MaxU, Exact(x), Exact(y),
         NEW d \in 0..MaxU, d # 0, NEW e \in 0..MaxU, e # 0, Exact(d), Exact(e),
         x * e <= y * d
  PROVE  Seconds(x, d) <= Seconds(y, e)
<1>1. /\ x \in Nat /\ y \in Nat /\ d \in Nat \ {0} /\ e \in Nat \ {0} /\ Unit \in Nat
      /\ x * Unit \in Nat /\ y * Unit \in Nat
  BY TopIsLarge
<1>2. /\ Seconds(x, d) = Round(x * Unit, d) /\ InRange(x * Unit, d)
      /\ Seconds(y, e) = Round(y * Unit, e) /\ InRange(y * Unit, e)
  BY SecondsAre DEF Exact
<1>3. (x * Unit) * e <= (y * Unit) * d
  <2>1. x * e \in Nat /\ y * d \in Nat
    BY <1>1
  <2>2. (x * e) * Unit <= (y * d) * Unit
    BY <1>1, <2>1, FactorKeepsOrder
  <2>3. (x * e) * Unit = (x * Unit) * e /\ (y * d) * Unit = (y * Unit) * d
    BY <1>1
  <2> QED
    BY <2>2, <2>3
<1> QED
  BY <1>1, <1>2, <1>3, RoundKeepsOrder

-----------------------------------------------------------------------------
(* The choice and its costs.                                                *)

\* A choice was made by the costs of the arguments, or there was nothing to compare.
ChoiceInv ==
  /\ choice \in Strategies \cup {"none"}
  /\ choice = "ModelParallel" => n_sails > 1
  /\ choice # "none" /\ n_sails > 1 =>
       /\ tp_cost = TpCost(tile, n_sails, local_ddr_bw, intercard_bw)
       /\ mp_cost = MpCost(tile, n_sails, local_ddr_bw, intercard_bw)
       /\ choice = Cheaper(tp_cost, mp_cost)

THEOREM ChoicesFollowCosts == Spec => []ChoiceInv
<1>1. Init => ChoiceInv
  BY DEF Init, ChoiceInv
<1>2. Inputs /\ ChoiceInv /\ [Next]_vars => ChoiceInv'
  <2> SUFFICES ASSUME Inputs, ChoiceInv, [Next]_vars PROVE ChoiceInv'
    OBVIOUS
  <2>1. CASE SingleCard
    BY <2>1 DEF SingleCard, args, Inputs, ChoiceInv, Strategies
  <2>2. CASE Compare
    <3>1. Cheaper(tp_cost', mp_cost') \in Strategies
      BY DEF Cheaper, Strategies
    <3> QED
      BY <2>2, <3>1 DEF Compare, args, ChoiceInv
  <2>3. CASE UNCHANGED vars
    BY <2>3 DEF vars, args, ChoiceInv
  <2> QED
    BY <2>1, <2>2, <2>3 DEF Next
<1> QED
  BY <1>1, <1>2, InputsStay, PTL DEF Spec

\* The arguments of a comparison.
LEMMA ArgumentsAreU64 ==
  ASSUME Inputs
  PROVE  /\ n_sails \in 0..MaxU /\ local_ddr_bw \in 0..MaxU /\ intercard_bw \in 0..MaxU
         /\ weight_bytes(tile) \in 0..MaxU /\ activation_bytes(tile) \in 0..MaxU
         /\ Weight <= MaxU => weight_bytes(tile) = Weight
         /\ Activation <= MaxU => activation_bytes(tile) = Activation
<1>1. n_sails \in 0..MaxU /\ local_ddr_bw \in 0..MaxU /\ intercard_bw \in 0..MaxU
  BY ArithmeticAssumption DEF Inputs
<1>2. weight_bytes(tile) \in 0..MaxU /\ (Weight <= MaxU => weight_bytes(tile) = Weight)
  BY TileIsNat, SaturatingMulThrice DEF Weight, weight_bytes
<1>3. /\ activation_bytes(tile) \in 0..MaxU
      /\ Activation <= MaxU => activation_bytes(tile) = Activation
  BY TileIsNat, SaturatingMulThrice DEF Activation, activation_bytes
<1> QED
  BY <1>1, <1>2, <1>3

\* With two bandwidths, the rounded costs are never in the opposite order of the
\* exact ones.
LEMMA CostsKeepTheOrder ==
  ASSUME Inputs, AllExact, n_sails > 1, local_ddr_bw # 0, intercard_bw # 0
  PROVE  LET tp == TpCost(tile, n_sails, local_ddr_bw, intercard_bw)
             mp == MpCost(tile, n_sails, local_ddr_bw, intercard_bw)
         IN  /\ tp \in Nat /\ mp \in Nat
             /\ ~ MpCheaper => tp <= mp
             /\ MpCheaper => mp <= tp
<1> DEFINE w == Seconds(weight_bytes(tile), local_ddr_bw)
           a == Seconds(activation_bytes(tile), intercard_bw)
           tp == TpCost(tile, n_sails, local_ddr_bw, intercard_bw)
           mp == MpCost(tile, n_sails, local_ddr_bw, intercard_bw)
<1>1. /\ n_sails \in 0..MaxU /\ n_sails >= 2
      /\ local_ddr_bw \in 0..MaxU /\ intercard_bw \in 0..MaxU
      /\ weight_bytes(tile) = Weight /\ activation_bytes(tile) = Activation
      /\ Weight \in 0..MaxU /\ Activation \in 0..MaxU
  <2>1. n_sails >= 2
    BY DEF Inputs
  <2> QED
    BY <2>1, ArgumentsAreU64, FootprintsAreNat DEF AllExact
<1>2. tp \in Nat /\ mp \in Nat
  BY <1>1, CostsAre
<1>3. (a <= w => tp <= mp) /\ (w <= a => mp <= tp)
  BY <1>1, SharesKeepTheOrder
<1>4. ASSUME ~ MpCheaper PROVE a <= w
  <2>1. Activation * local_ddr_bw <= Weight * intercard_bw
    BY <1>4, FootprintsAreNat DEF MpCheaper
  <2> QED
    BY <1>1, <2>1, SecondsKeepOrder DEF AllExact
<1>5. ASSUME MpCheaper PROVE w <= a
  <2>1. Weight * intercard_bw <= Activation * local_ddr_bw
    BY <1>5, FootprintsAreNat DEF MpCheaper
  <2> QED
    BY <1>1, <2>1, SecondsKeepOrder DEF AllExact
<1> HIDE DEF tp, mp, w, a
<1>6. /\ tp \in Nat /\ mp \in Nat
      /\ ~ MpCheaper => tp <= mp
      /\ MpCheaper => mp <= tp
  BY <1>2, <1>3, <1>4, <1>5
<1> QED
  BY <1>6 DEF tp, mp

\* Which costs lead to which choice.
LEMMA CheaperIs ==
  ASSUME NEW tp \in Nat, NEW mp \in Nat
  PROVE  /\ Cheaper(tp, mp) = "TensorParallel" <=> tp <= mp
         /\ Cheaper(tp, mp) = "ModelParallel" <=> mp < tp
<1>1. tp # Inf /\ mp # Inf
  BY ArithmeticAssumption
<1> QED
  BY <1>1 DEF Cheaper, LeqF64

\* Model parallelism was chosen by a comparison of finite costs.
LEMMA ModelParallelCompared ==
  ASSUME Inputs, ChoiceInv, choice = "ModelParallel"
  PROVE  n_sails > 1 /\ local_ddr_bw # 0 /\ intercard_bw # 0
<1>1. n_sails > 1
  BY DEF ChoiceInv
<1> SUFFICES ASSUME local_ddr_bw = 0 \/ intercard_bw = 0 PROVE FALSE
  BY <1>1
<1>2. tp_cost = Inf /\ mp_cost = Inf /\ choice = Cheaper(tp_cost, mp_cost)
  BY <1>1, NoBandwidthNoCost DEF ChoiceInv
<1> QED
  BY <1>2 DEF Cheaper, LeqF64

\* Where sizes and bandwidths are exact, four roundings in a row never make
\* pick_strategy prefer model parallelism that is not the cheaper one.
THEOREM ModelParallelismIsCheaper == Spec => []ModelParallelIsCheaper
<1>1. Inputs /\ ChoiceInv => ModelParallelIsCheaper
  <2> SUFFICES ASSUME Inputs, ChoiceInv, choice = "ModelParallel", AllExact
               PROVE  MpCheaper
    BY DEF ModelParallelIsCheaper
  <2>1. n_sails > 1 /\ local_ddr_bw # 0 /\ intercard_bw # 0
    BY ModelParallelCompared
  <2>2. /\ tp_cost \in Nat /\ mp_cost \in Nat
        /\ ~ MpCheaper => tp_cost <= mp_cost
    BY <2>1, CostsKeepTheOrder DEF ChoiceInv
  <2>3. mp_cost < tp_cost
    BY <2>1, <2>2, CheaperIs DEF ChoiceInv
  <2> QED
    BY <2>2, <2>3
<1> QED
  BY <1>1, InputsStay, ChoicesFollowCosts, PTL

\* Tensor parallelism is chosen where model parallelism is cheaper only if rounding
\* has made the two costs equal.
THEOREM TensorParallelismTies == Spec => []TensorParallelIsNoWorse
<1>1. Inputs /\ ChoiceInv => TensorParallelIsNoWorse
  <2> SUFFICES ASSUME Inputs, ChoiceInv, choice = "TensorParallel", AllExact, n_sails > 1,
                      local_ddr_bw # 0, intercard_bw # 0, MpCheaper
               PROVE  tp_cost = mp_cost
    BY DEF TensorParallelIsNoWorse
  <2>1. /\ tp_cost \in Nat /\ mp_cost \in Nat
        /\ mp_cost <= tp_cost
    BY CostsKeepTheOrder DEF ChoiceInv
  <2>2. tp_cost <= mp_cost
    BY <2>1, CheaperIs DEF ChoiceInv
  <2> QED
    BY <2>1, <2>2
<1> QED
  BY <1>1, InputsStay, ChoicesFollowCosts, PTL

\* On rev-A the crossover lies at a quarter of the contraction, whatever the rows,
\* the cards and the width of an element.
THEOREM RevACrossesOver == Spec => []RevACrossover
<1>1. Inputs /\ ModelParallelIsCheaper /\ TensorParallelIsNoWorse => RevACrossover
  <2> SUFFICES ASSUME Inputs, ModelParallelIsCheaper, TensorParallelIsNoWorse
               PROVE  RevACrossover
    OBVIOUS
  <2>1. CASE tile.m # 0 /\ tile.bytes_per_element # 0
    BY <2>1, CrossoverOfRevA
  <2>2. CASE tile.m = 0 \/ tile.bytes_per_element = 0
    <3>1. Weight = 0
      BY <2>2, TileIsNat DEF Weight
    <3> QED
      BY <3>1 DEF RevACrossover
  <2> QED
    BY <2>1, <2>2
<1> QED
  BY <1>1, InputsStay, ModelParallelismIsCheaper, TensorParallelismTies, PTL
-----------------------------------------------------------------------------
(* Twice the rows.                                                          *)

LEMMA FloatDoubles ==
  ASSUME NEW x \in Nat, 2 * x <= MaxU
  PROVE  Float(2 * x) = 2 * Float(x)
<1>1. x \in 0..MaxU /\ 2 * x \in 0..MaxU
  BY TopIsLarge
<1>2. InRange(x, 1) /\ InRange(2 * x, 1)
  BY <1>1, FloatsOfIntegers
<1>3. CASE x < H
  <2>1. x < B /\ 2 * x < B /\ 2 * x \in Nat
    BY <1>3, Significands
  <2> QED
    BY <2>1, SmallIsExact DEF Float
<1>4. CASE H <= x
  <2>1. 1 * H <= x
    BY <1>4, Significands
  <2> QED
    BY <1>2, <2>1, RoundDoubles DEF Float
<1> QED
  BY <1>3, <1>4, Significands

LEMMA ZeroStaysZero ==
  ASSUME NEW den \in Nat \ {0}
  PROVE  Round(0, den) = 0
<1>1. InRange(0, den)
  BY UpToTop, TopIsLarge
<1>2. PICK w \in Nat : w = Round(0, den)
  BY <1>1, RoundIsNat
<1>3. w * den <= 2 * 0
  BY <1>1, <1>2, RoundAtMostTwice
<1>4. w * den >= w /\ w * den \in Nat
  BY ProductGrows, ProductIsNat
<1> QED
  BY <1>2, <1>3, <1>4

\* Below 1 / Unit nothing is lost: neither the seconds of a footprint nor a card's
\* share of them come near the resolution, unless they are 0.
LEMMA NothingVanishes ==
  ASSUME NEW x \in 1..MaxU, NEW bw \in Bandwidths, bw # 0, NEW n \in SailCounts, n >= 2
  PROVE  /\ Float(bw) * H <= Float(x) * Unit
         /\ Float(n) * H <= Seconds(x, bw)
         /\ H <= Round(Seconds(x, bw), Float(n))
<1>1. x \in 0..MaxU /\ bw \in 0..MaxU /\ n \in 0..MaxU
  BY ArithmeticAssumption
<1>2. PICK num \in Nat : num = Float(x) * Unit /\ Unit <= num
  <2>1. Float(x) \in Nat /\ Float(x) >= 1
    BY <1>1, FloatsOfIntegers
  <2>2. Unit * Float(x) >= Unit
    BY <2>1, TopIsLarge, ProductGrows
  <2> QED
    BY <2>1, <2>2, TopIsLarge
<1>3. PICK den \in Nat \ {0} : den = Float(bw) /\ InRange(num, den) /\ Seconds(x, bw) = Round(num, den)
  BY <1>1, <1>2, SecondsAre
<1>4. PICK k \in Nat \ {0} : k = Float(n)
  BY <1>1, FloatsOfIntegers
<1>5. PICK w \in Nat : w = Seconds(x, bw) /\ w <= 4 * Top
  BY <1>1, SecondsAre
<1>6. H \in Nat /\ H >= 8 /\ B = 2 * H
  BY Significands
<1>7. PICK g \in Nat : g = (den * H) * k
  BY <1>6, ProductIsNat
<1>8. 2 * g <= num
  <2>1. (B * den) * k <= Unit
    BY <1>3, <1>4, RangeAssumption DEF B
  <2>2. (B * den) * k = 2 * g
    BY <1>6, <1>7
  <2> QED
    BY <1>2, <2>1, <2>2, TopIsLarge
<1>9. den * H <= g /\ den * H \in Nat
  <2>1. (den * H) * k >= den * H /\ den * H \in Nat
    BY <1>6, ProductGrows, ProductIsNat
  <2> QED
    BY <1>7, <2>1
<1>10. k * H <= w
  <2>1. den <= den * H
    BY <1>6, ProductGrows
  <2>2. num <= 2 * (w * den)
    BY <1>3, <1>5, <1>8, <1>9, <2>1, RoundAtLeastHalf
  <2>3. (k * H) * den = g /\ k * H \in Nat /\ w * den \in Nat
    BY <1>6, <1>7, ProductIsNat
  <2>4. (k * H) * den <= w * den
    BY <1>8, <2>2, <2>3
  <2> QED
    BY <2>3, <2>4, FactorKeepsOrder
<1>11. H <= Round(w, k)
  <2>1. InRange(H, 1) /\ InRange(w, k)
    <3>1. k >= 1 /\ w <= 8 * Top
      BY <1>5, TopIsLarge
    <3>2. k * H >= H /\ k * H \in Nat
      <4>1. H * k >= H
        BY <1>6, ProductGrows
      <4> QED
        BY <1>6, <4>1
    <3>3. H <= 8 * Top
      BY <1>6, <1>10, <3>1, <3>2, TopIsLarge
    <3> QED
      BY <1>6, <3>1, <3>3, UpToTop
  <2>2. H * k <= w * 1
    BY <1>6, <1>10
  <2>3. Round(H, 1) <= Round(w, k)
    BY <1>6, <2>1, <2>2, RoundKeepsOrder
  <2>4. Round(H, 1) = H
    BY <1>6, SmallIsExact
  <2> QED
    BY <2>3, <2>4
<1> QED
  BY <1>2, <1>3, <1>4, <1>5, <1>8, <1>9, <1>10, <1>11

\* Twice the footprint takes twice the seconds, and so do the shares of it.
LEMMA SecondsDouble ==
  ASSUME NEW x \in Nat, 2 * x <= MaxU, NEW bw \in Bandwidths, bw # 0,
         NEW n \in SailCounts, n >= 2
  PROVE  /\ Seconds(2 * x, bw) = 2 * Seconds(x, bw)
         /\ Round(Seconds(2 * x, bw), Float(n)) = 2 * Round(Seconds(x, bw), Float(n))
         /\ x = 0 => Seconds(x, bw) = 0 /\ Round(Seconds(x, bw), Float(n)) = 0
<1>1. x \in 0..MaxU /\ 2 * x \in 0..MaxU /\ bw \in 0..MaxU /\ n \in 0..MaxU
  BY ArithmeticAssumption
<1>2. PICK num \in Nat : num = Float(x) * Unit
  BY <1>1, FloatsOfIntegers, TopIsLarge, ProductIsNat
<1>3. Float(2 * x) * Unit = 2 * num
  <2>1. Float(2 * x) = 2 * Float(x) /\ Float(x) \in Nat
    BY <1>1, FloatDoubles, FloatsOfIntegers
  <2> QED
    BY <1>2, <2>1, TopIsLarge
<1>4. PICK den \in Nat \ {0} : /\ den = Float(bw)
                               /\ InRange(num, den) /\ Seconds(x, bw) = Round(num, den)
  BY <1>1, <1>2, SecondsAre
<1>5. InRange(2 * num, den) /\ Seconds(2 * x, bw) = Round(2 * num, den)
  BY <1>1, <1>3, <1>4, SecondsAre
<1>6. PICK w \in Nat : w = Seconds(x, bw) /\ w <= 4 * Top
  BY <1>1, SecondsAre
<1>7. PICK k \in Nat \ {0} : k = Float(n) /\ InRange(w, k)
  BY <1>1, <1>6, SharesAre
<1>8. InRange(2 * w, k)
  BY <1>6, UpToTop, TopIsLarge
<1>9. CASE x = 0
  <2>1. num = 0
    <3>1. Float(x) <= 2 * x /\ Float(x) \in Nat
      BY <1>1, FloatsOfIntegers
    <3>2. Float(x) = 0
      BY <1>9, <3>1
    <3> QED
      BY <1>2, <3>2, TopIsLarge
  <2>2. w = 0 /\ Seconds(2 * x, bw) = 0
    BY <1>4, <1>5, <1>6, <2>1, ZeroStaysZero
  <2>3. Round(0, k) = 0
    BY ZeroStaysZero
  <2> QED
    BY <1>6, <1>7, <2>2, <2>3
<1>10. CASE x # 0
  <2>1. x \in 1..MaxU
    BY <1>1, <1>10
  <2>2. den * H <= num /\ k * H <= w
    BY <1>2, <1>4, <1>6, <1>7, <2>1, NothingVanishes
  <2>3. Seconds(2 * x, bw) = 2 * w
    BY <1>4, <1>5, <1>6, <2>2, RoundDoubles
  <2>4. Round(2 * w, k) = 2 * Round(w, k)
    BY <1>7, <1>8, <2>2, RoundDoubles
  <2> QED
    BY <1>6, <1>7, <1>10, <2>3, <2>4
<1> QED
  BY <1>9, <1>10

\* The footprints of a tile of twice the rows.
LEMMA FootprintsDouble ==
  ASSUME Inputs, 2 * Weight <= MaxU, 2 * Activation <= MaxU
  PROVE  /\ weight_bytes(tile) = Weight /\ weight_bytes(DoubleRows) = 2 * Weight
         /\ activation_bytes(tile) = Activation
         /\ activation_bytes(DoubleRows) = 2 * Activation
<1> DEFINE m == tile.m
           n == tile.n
           k == tile.k
           b == tile.bytes_per_element
<1>1. m \in Nat /\ n \in Nat /\ k \in Nat /\ b \in Nat
  BY TileIsNat
<1>2. DoubleRows.m = 2 * m /\ DoubleRows.n = n /\ DoubleRows.k = k
      /\ DoubleRows.bytes_per_element = b
  BY DEF DoubleRows, Inputs, TileShapes
<1>3. weight_bytes(DoubleRows) = SaturatingMul(SaturatingMul(2 * m, k), b)
      /\ activation_bytes(DoubleRows) = SaturatingMul(SaturatingMul(2 * m, n), b)
  BY <1>2 DEF weight_bytes, activation_bytes
<1>4. Weight = m * k * b /\ Activation = m * n * b
  BY DEF Weight, Activation
<1> HIDE DEF m, n, k, b
<1>5. (2 * m) * k * b = 2 * Weight /\ (2 * m) * n * b = 2 * Activation /\ 2 * m \in Nat
  BY <1>1, <1>4
<1>6. weight_bytes(DoubleRows) = 2 * Weight
  <2>1. (2 * m) * k * b <= MaxU
    BY <1>5
  <2> QED
    BY <1>1, <1>3, <1>5, <2>1, SaturatingMulThrice
<1>7. activation_bytes(DoubleRows) = 2 * Activation
  <2>1. (2 * m) * n * b <= MaxU
    BY <1>5
  <2> QED
    BY <1>1, <1>3, <1>5, <2>1, SaturatingMulThrice
<1>8. Weight <= MaxU /\ Activation <= MaxU
  BY FootprintsAreNat, TopIsLarge
<1> QED
  BY <1>6, <1>7, <1>8, ArgumentsAreU64

\* Twice the rows double both costs.
LEMMA CostsDouble ==
  ASSUME Inputs, 2 * Weight <= MaxU, 2 * Activation <= MaxU, n_sails > 1,
         local_ddr_bw # 0, intercard_bw # 0
  PROVE  /\ TpCost(DoubleRows, n_sails, local_ddr_bw, intercard_bw)
              = 2 * TpCost(tile, n_sails, local_ddr_bw, intercard_bw)
         /\ MpCost(DoubleRows, n_sails, local_ddr_bw, intercard_bw)
              = 2 * MpCost(tile, n_sails, local_ddr_bw, intercard_bw)
<1>1. /\ n_sails \in 0..MaxU /\ n_sails >= 2 /\ n_sails \in SailCounts
      /\ local_ddr_bw \in 0..MaxU /\ intercard_bw \in 0..MaxU
      /\ local_ddr_bw \in Bandwidths /\ intercard_bw \in Bandwidths
  BY ArgumentsAreU64 DEF Inputs
<1>2. /\ Weight \in Nat /\ Activation \in Nat
      /\ Weight \in 0..MaxU /\ Activation \in 0..MaxU
      /\ 2 * Weight \in 0..MaxU /\ 2 * Activation \in 0..MaxU
  BY FootprintsAreNat, TopIsLarge
<1>3. PICK k \in Nat : k = Float(n_sails) /\ k >= 2
  BY <1>1, FloatsOfIntegers
<1>4. PICK w \in Nat : w = Seconds(Weight, local_ddr_bw) /\ w <= 4 * Top
  BY <1>1, <1>2, SecondsAre
<1>5. PICK a \in Nat : a = Seconds(Activation, intercard_bw) /\ a <= 4 * Top
  BY <1>1, <1>2, SecondsAre
<1>6. PICK x \in Nat : x = Round(w, k) /\ x <= 4 * Top
  <2>1. Round(w, k) \in Nat /\ Round(w, k) <= w
    BY <1>1, <1>3, <1>4, SharesAre
  <2> QED
    BY <1>4, <2>1, TopIsLarge
<1>7. PICK y \in Nat : y = Round(a, k) /\ y <= 4 * Top
  <2>1. Round(a, k) \in Nat /\ Round(a, k) <= a
    BY <1>1, <1>3, <1>5, SharesAre
  <2> QED
    BY <1>5, <2>1, TopIsLarge
<1>8. /\ Seconds(2 * Weight, local_ddr_bw) = 2 * w /\ Round(2 * w, k) = 2 * x
      /\ Weight = 0 => w = 0 /\ x = 0
  BY <1>1, <1>2, <1>3, <1>4, <1>6, SecondsDouble
<1>9. /\ Seconds(2 * Activation, intercard_bw) = 2 * a /\ Round(2 * a, k) = 2 * y
      /\ Activation = 0 => a = 0 /\ y = 0
  BY <1>1, <1>2, <1>3, <1>5, <1>7, SecondsDouble
<1>10. /\ TpCost(tile, n_sails, local_ddr_bw, intercard_bw) = Round(x + a, 1)
       /\ MpCost(tile, n_sails, local_ddr_bw, intercard_bw) = Round(w + y, 1)
       /\ InRange(x + a, 1) /\ InRange(w + y, 1)
  BY <1>1, <1>2, <1>3, <1>4, <1>5, <1>6, <1>7, FootprintsDouble, CostsAre
<1>11. /\ TpCost(DoubleRows, n_sails, local_ddr_bw, intercard_bw) = Round(2 * x + 2 * a, 1)
       /\ MpCost(DoubleRows, n_sails, local_ddr_bw, intercard_bw) = Round(2 * w + 2 * y, 1)
       /\ InRange(2 * x + 2 * a, 1) /\ InRange(2 * w + 2 * y, 1)
  BY <1>1, <1>2, <1>3, <1>8, <1>9, FootprintsDouble, CostsAre
<1>12. /\ Weight # 0 => H <= w /\ H <= x
       /\ Activation # 0 => H <= a /\ H <= y
  <2>1. ASSUME NEW s \in 1..MaxU, NEW bw \in Bandwidths, bw # 0
        PROVE  H <= Seconds(s, bw) /\ H <= Round(Seconds(s, bw), k)
    <3>1. k * H <= Seconds(s, bw) /\ H <= Round(Seconds(s, bw), k)
      BY <1>1, <1>3, <2>1, NothingVanishes
    <3>2. H * k >= H /\ H * k = k * H /\ H \in Nat
      BY <1>3, Significands, ProductGrows
    <3>3. bw \in 0..MaxU /\ s \in 0..MaxU
      BY ArithmeticAssumption
    <3>4. Seconds(s, bw) \in Nat
      BY <2>1, <3>3, SecondsAre
    <3> QED
      BY <1>3, <3>1, <3>2, <3>4
  <2>2. Weight # 0 => Weight \in 1..MaxU
    BY <1>2
  <2>3. Activation # 0 => Activation \in 1..MaxU
    BY <1>2
  <2> QED
    BY <1>1, <1>4, <1>5, <1>6, <1>7, <2>1, <2>2, <2>3
<1>13. ASSUME NEW p \in Nat, NEW q \in Nat, InRange(p + q, 1), InRange(2 * p + 2 * q, 1),
              p + q = 0 \/ H <= p \/ H <= q
       PROVE  Round(2 * p + 2 * q, 1) = 2 * Round(p + q, 1)
  <2>1. 2 * p + 2 * q = 2 * (p + q) /\ p + q \in Nat
    OBVIOUS
  <2>2. CASE p + q = 0
    <3>1. 2 * p + 2 * q = 0
      BY <2>2
    <3> QED
      BY <2>2, <3>1, ZeroStaysZero
  <2>3. CASE H <= p \/ H <= q
    <3>1. 1 * H <= p + q
      BY <2>3, Significands
    <3> QED
      BY <1>13, <2>1, <3>1, RoundDoubles
  <2> QED
    BY <1>13, <2>2, <2>3
<1>14. Round(2 * x + 2 * a, 1) = 2 * Round(x + a, 1)
  <2>1. x + a = 0 \/ H <= x \/ H <= a
    BY <1>8, <1>9, <1>12
  <2> QED
    BY <1>10, <1>11, <1>13, <2>1
<1>15. Round(2 * w + 2 * y, 1) = 2 * Round(w + y, 1)
  <2>1. w + y = 0 \/ H <= w \/ H <= y
    BY <1>8, <1>9, <1>12
  <2> QED
    BY <1>10, <1>11, <1>13, <2>1
<1> QED
  BY <1>10, <1>11, <1>14, <1>15

\* Batching tokens never changes the decision, whatever the sizes are rounded to,
\* until a footprint saturates.
THEOREM RowsKeepChoice == Spec => []RowsKeepTheChoice
<1>1. Inputs /\ ChoiceInv => RowsKeepTheChoice
  <2> SUFFICES ASSUME Inputs, ChoiceInv, choice # "none", n_sails > 1,
                      2 * Weight <= MaxU, 2 * Activation <= MaxU
               PROVE  choice = Cheaper(TpCost(DoubleRows, n_sails, local_ddr_bw, intercard_bw),
                                       MpCost(DoubleRows, n_sails, local_ddr_bw, intercard_bw))
    BY DEF RowsKeepTheChoice
  <2>1. /\ tp_cost = TpCost(tile, n_sails, local_ddr_bw, intercard_bw)
        /\ mp_cost = MpCost(tile, n_sails, local_ddr_bw, intercard_bw)
        /\ choice = Cheaper(tp_cost, mp_cost)
    BY DEF ChoiceInv
  <2>2. CASE local_ddr_bw = 0 \/ intercard_bw = 0
    BY <2>1, <2>2, NoBandwidthNoCost
  <2>3. CASE local_ddr_bw # 0 /\ intercard_bw # 0
    <3>1. tp_cost \in Nat /\ mp_cost \in Nat
      <4>1. n_sails \in 0..MaxU /\ n_sails >= 2
        BY ArgumentsAreU64 DEF Inputs
      <4> QED
        BY <2>1, <2>3, <4>1, ArgumentsAreU64, CostsAre
    <3>2. Cheaper(2 * tp_cost, 2 * mp_cost) = Cheaper(tp_cost, mp_cost)
      <4>1. 2 * tp_cost \in Nat /\ 2 * mp_cost \in Nat
            /\ (2 * tp_cost <= 2 * mp_cost <=> tp_cost <= mp_cost)
        BY <3>1
      <4>2. tp_cost # Inf /\ mp_cost # Inf /\ 2 * tp_cost # Inf /\ 2 * mp_cost # Inf
        BY <3>1, <4>1, ArithmeticAssumption
      <4> QED
        BY <4>1, <4>2 DEF Cheaper, LeqF64
    <3> QED
      BY <2>1, <2>3, <3>2, CostsDouble
  <2> QED
    BY <2>2, <2>3
<1> QED
  BY <1>1, InputsStay, ChoicesFollowCosts, PTL
-----------------------------------------------------------------------------
(* Through the host.                                                        *)

\* A footprint exact in an f64, over a bandwidth exact in one: the seconds are
\* within a sixteenth of the quotient, and keep all their bits.  Nothing is asked
\* of bw but that the resolution reaches it.
LEMMA SecondsAreClose ==
  ASSUME NEW x \in 1..MaxU, Exact(x), NEW bw \in 0..MaxU, bw # 0, Exact(bw),
         NEW k \in Nat \ {0}, NEW num \in Nat, num = x * Unit, (B * bw) * k <= Unit
  PROVE  /\ Seconds(x, bw) \in Nat
         /\ 16 * (Seconds(x, bw) * bw) <= 17 * num /\ 15 * num <= 16 * (Seconds(x, bw) * bw)
         /\ k * H <= Seconds(x, bw)
<1>1. /\ bw \in Nat \ {0} /\ x \in 0..MaxU /\ x \in Nat \ {0}
      /\ H \in Nat /\ H >= 8 /\ B = 2 * H /\ Unit \in Nat
  BY TopIsLarge, Significands
<1>2. PICK w \in Nat : w = Seconds(x, bw) /\ w = Round(num, bw) /\ InRange(num, bw)
  BY <1>1, SecondsAre DEF Exact
<1>3. PICK g \in Nat : g = (bw * H) * k
  BY <1>1, ProductIsNat
<1>4. 2 * g <= num
  <2>1. (B * bw) * k = 2 * g
    BY <1>1, <1>3
  <2>2. Unit * x >= Unit /\ Unit * x = x * Unit
    BY <1>1, ProductGrows
  <2> QED
    BY <1>1, <2>1, <2>2
<1>5. bw * H <= g /\ bw * H \in Nat
  <2>1. (bw * H) * k >= bw * H /\ bw * H \in Nat
    BY <1>1, ProductGrows, ProductIsNat
  <2> QED
    BY <1>3, <2>1
<1>6. 16 * (w * bw) <= 17 * num /\ 15 * num <= 16 * (w * bw)
  <2>1. bw * H <= num
    BY <1>3, <1>4, <1>5
  <2> QED
    BY <1>1, <1>2, <2>1, RoundIsClose
<1>7. k * H <= w
  <2>1. (k * H) * bw = g /\ k * H \in Nat /\ w * bw \in Nat
    BY <1>1, <1>3, ProductIsNat
  <2>2. (k * H) * bw <= w * bw
    BY <1>4, <1>6, <2>1
  <2> QED
    BY <1>1, <2>1, <2>2, FactorKeepsOrder
<1> QED
  BY <1>2, <1>6, <1>7

\* Over the host's link, a twentieth of the DDR bandwidth, the activations of a tile
\* for which W < 4 * A take so much longer than its weights that no rounding of the
\* two costs makes them meet.
LEMMA HostLinkIsSlow ==
  ASSUME NEW W \in 0..MaxU, NEW A \in 1..MaxU, W < 4 * A, Exact(W), Exact(A),
         NEW n \in SailCounts, n >= 2, 20 \in Bandwidths, Exact(20)
  PROVE  LET w == Seconds(W, 20)
             a == Seconds(A, 1)
         IN  Round(w + Round(a, Float(n)), 1) < Round(Round(w, Float(n)) + a, 1)
<1>1. /\ H \in Nat /\ H >= 8 /\ B = 2 * H /\ Unit \in Nat /\ MaxU \in Nat
      /\ W \in Nat /\ A \in 0..MaxU /\ A \in Nat
      /\ n \in 0..MaxU /\ 20 \in 0..MaxU /\ 1 \in 0..MaxU
  BY Significands, TopIsLarge, ArithmeticAssumption
<1>2. Exact(1)
  <2>1. 1 < B
    BY <1>1
  <2> QED
    BY <2>1, SmallIsExact DEF Exact, Float
<1>3. PICK k \in Nat \ {0} : k = Float(n) /\ k >= 2
  BY <1>1, FloatsOfIntegers
<1>4. (B * 20) * k <= Unit /\ (B * 1) * k <= Unit
  <2>1. (B * 20) * k <= Unit
    BY <1>3, RangeAssumption DEF Exact, B
  <2>2. PICK p \in Nat : p = B * k
    BY <1>1, <1>3, ProductIsNat
  <2>3. (B * 20) * k = 20 * p /\ (B * 1) * k = p
    BY <1>1, <2>2
  <2> QED
    BY <1>1, <2>1, <2>2, <2>3
<1>5. PICK p \in Nat : p = A * Unit
  BY <1>1, ProductIsNat
<1>6. PICK q \in Nat : q = W * Unit
  BY <1>1, ProductIsNat
<1>7. q <= 4 * p
  <2>1. W * Unit <= (4 * A) * Unit /\ (4 * A) * Unit = 4 * p
    BY <1>1, <1>5, FactorKeepsOrder
  <2> QED
    BY <1>6, <2>1
<1>8. PICK w \in Nat : w = Seconds(W, 20) /\ w <= 4 * Top
  BY <1>1, SecondsAre
<1>9. PICK a \in Nat : a = Seconds(A, 1) /\ a <= 4 * Top
  BY <1>1, SecondsAre
<1>10. 15 * p <= 16 * a /\ k * H <= a
  <2>1. 15 * p <= 16 * (a * 1) /\ k * H <= a
    BY <1>1, <1>2, <1>4, <1>5, <1>9, SecondsAreClose
  <2> QED
    BY <2>1
<1>11. 320 * w <= 68 * p
  <2>1. CASE W = 0
    <3>1. Float(W) = 0 /\ Float(20) = 20
      BY <2>1 DEF Exact
    <3>2. Seconds(W, 20) = Round(0, 20)
      BY <1>1, <3>1, SecondsAre
    <3>3. w = 0
      BY <1>8, <3>2, ZeroStaysZero
    <3> QED
      BY <3>3
  <2>2. CASE W # 0
    <3>1. W \in 1..MaxU
      BY <1>1, <2>2
    <3>2. 16 * (w * 20) <= 17 * q
      BY <1>1, <1>4, <1>6, <1>8, <3>1, SecondsAreClose
    <3> QED
      BY <1>7, <3>2
  <2> QED
    BY <2>1, <2>2
<1>12. H <= k * H /\ k * H \in Nat
  <2>1. H * k >= H /\ H * k = k * H /\ k * H \in Nat
    BY <1>1, ProductGrows, ProductIsNat
  <2> QED
    BY <1>1, <2>1
<1>13. PICK x \in Nat : x = Round(w, k) /\ x <= 4 * Top
  <2>1. Round(w, k) \in Nat /\ Round(w, k) <= w
    BY <1>1, <1>3, <1>8, SharesAre
  <2> QED
    BY <1>8, <2>1, TopIsLarge
<1>14. PICK y \in Nat : y = Round(a, k) /\ y <= 4 * Top /\ InRange(a, k)
  <2>1. Round(a, k) \in Nat /\ Round(a, k) <= a /\ InRange(a, k)
    BY <1>1, <1>3, <1>9, SharesAre
  <2> QED
    BY <1>9, <2>1, TopIsLarge
\* A share of the activations is about half of them at most,
<1>15. 32 * y <= 17 * a
  <2>1. 16 * (y * k) <= 17 * a
    BY <1>10, <1>14, RoundIsClose
  <2>2. 2 * y <= k * y /\ k * y = y * k /\ y * k \in Nat
    BY <1>3, FactorKeepsOrder, ProductIsNat
  <2> QED
    BY <2>1, <2>2
\* and too large to lose a bit.
<1>16. H <= y
  <2>1. InRange(H, 1)
    BY <1>1, <1>9, <1>10, <1>12, UpToTop, TopIsLarge
  <2>2. H * k <= a * 1
    BY <1>1, <1>10
  <2>3. Round(H, 1) <= Round(a, k)
    BY <1>1, <1>14, <2>1, <2>2, RoundKeepsOrder
  <2>4. Round(H, 1) = H
    BY <1>1, SmallIsExact
  <2> QED
    BY <1>14, <2>3, <2>4
<1>17. /\ InRange(w + y, 1) /\ InRange(x + a, 1)
       /\ Round(w + y, 1) \in Nat /\ Round(x + a, 1) \in Nat
  BY <1>8, <1>9, <1>13, <1>14, SumsAre
<1>18. PICK mp \in Nat : mp = Round(w + y, 1)
  BY <1>17
<1>19. PICK tp \in Nat : tp = Round(x + a, 1)
  BY <1>17
<1>20. 16 * mp <= 17 * (w + y)
  <2>1. 1 * H <= w + y /\ w + y \in Nat
    BY <1>1, <1>16
  <2>2. 16 * (mp * 1) <= 17 * (w + y)
    BY <1>17, <1>18, <2>1, RoundIsClose
  <2> QED
    BY <2>2
<1>21. 15 * (x + a) <= 16 * tp
  <2>1. 1 * H <= x + a /\ x + a \in Nat
    BY <1>1, <1>10, <1>12
  <2>2. 15 * (x + a) <= 16 * (tp * 1)
    BY <1>17, <1>19, <2>1, RoundIsClose
  <2> QED
    BY <2>2
<1>22. a # 0
  BY <1>1, <1>10, <1>12
<1>23. mp < tp
  BY <1>10, <1>11, <1>15, <1>20, <1>21, <1>22
<1> QED
  BY <1>3, <1>8, <1>9, <1>13, <1>14, <1>18, <1>19, <1>23

\* A rev-A tile that pick_strategy splits by model parallelism over the cards' own
\* link is split so over the host's, whatever the rounding of either comparison.
THEOREM HostPathKeepsChoice == Spec => []HostPathKeepsModelParallel
<1> USE DEF LOCAL_DDR_BW_BYTES_PER_SEC, INTERCARD_BW_BYTES_PER_SEC, HOST_LINK_BW_BYTES_PER_SEC
<1>1. Inputs /\ ChoiceInv /\ ModelParallelIsCheaper => HostPathKeepsModelParallel
  <2> SUFFICES ASSUME Inputs, ChoiceInv, ModelParallelIsCheaper,
                      RevA, AllExact, choice = "ModelParallel"
               PROVE  Cheaper(TpCost(tile, n_sails, 20, 1), MpCost(tile, n_sails, 20, 1))
                        = "ModelParallel"
    BY DEF HostPathKeepsModelParallel, RevA
  <2>1. local_ddr_bw = 20 /\ intercard_bw = 5 /\ MpCheaper
    BY DEF RevA, ModelParallelIsCheaper
  <2>2. /\ n_sails \in SailCounts /\ n_sails \in 0..MaxU /\ n_sails >= 2
        /\ 20 \in Bandwidths /\ 20 \in 0..MaxU /\ 1 \in 0..MaxU /\ Exact(20)
    <3>1. n_sails >= 2
      BY ModelParallelCompared DEF Inputs
    <3>2. 20 \in Bandwidths /\ 20 \in 0..MaxU /\ Exact(20)
      BY <2>1, ArgumentsAreU64 DEF Inputs, AllExact
    <3> QED
      BY <3>1, <3>2, ArgumentsAreU64, TopIsLarge DEF Inputs
  <2>3. /\ Weight \in 0..MaxU /\ Activation \in 1..MaxU /\ Weight < 4 * Activation
        /\ Exact(Weight) /\ Exact(Activation)
        /\ weight_bytes(tile) = Weight /\ activation_bytes(tile) = Activation
    <3>1. Weight \in Nat /\ Activation \in Nat /\ Weight <= MaxU /\ Activation <= MaxU
      BY FootprintsAreNat DEF AllExact
    <3>2. Activation * 20 > Weight * 5
      BY <2>1 DEF MpCheaper
    <3>3. Weight < 4 * Activation /\ Activation # 0
      BY <3>1, <3>2
    <3> QED
      BY <3>1, <3>3, ArgumentsAreU64, TopIsLarge DEF AllExact
  <2>4. LET w == Seconds(Weight, 20)
            a == Seconds(Activation, 1)
        IN  /\ TpCost(tile, n_sails, 20, 1) = Round(Round(w, Float(n_sails)) + a, 1)
            /\ MpCost(tile, n_sails, 20, 1) = Round(w + Round(a, Float(n_sails)), 1)
            /\ TpCost(tile, n_sails, 20, 1) \in Nat /\ MpCost(tile, n_sails, 20, 1) \in Nat
    BY <2>2, <2>3, ArgumentsAreU64, CostsAre
  <2>5. MpCost(tile, n_sails, 20, 1) < TpCost(tile, n_sails, 20, 1)
    BY <2>2, <2>3, <2>4, HostLinkIsSlow
  <2> QED
    BY <2>4, <2>5, CheaperIs
<1> QED
  BY <1>1, InputsStay, ChoicesFollowCosts, ModelParallelismIsCheaper, PTL
=============================================================================
